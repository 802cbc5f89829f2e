------------------------- MODULE ServiceLevelsProofs -------------------------
(***************************************************************************)
(* Types of ServiceLevels, that timers and jobs go together, and that       *)
(* ServiceLevels implements Alarms: for any number of leads, salespeople,   *)
(* workers, attempts and faults.                                            *)
(*                                                                          *)
(* A worker rings on a snapshot of assignment and takeover.  It is right    *)
(* because a timer that is still waiting when the worker has its row is one *)
(* that no acknowledgement, assignment or takeover has cancelled since the  *)
(* snapshot: for such a timer the snapshot is still true (SnapshotsHold).   *)
(* The last part shows that the jobs of all timers keep Leases.             *)
(***************************************************************************)
EXTENDS ServiceLevels, FiniteSetTheorems, TLAPS

JobStates == {"none", "pending", "processing"} \cup Finished
TimerStates == {"none", "scheduled", "sent", "cancelled"}

\* A worker at work runs the job of a timer that was armed; when it is about to
\* finish the job the timer no longer waits.
WorkersRunTimers == \A w \in Workers :
  /\ at[w] # "idle" => runs[w] \in Leads \X Kinds /\ timer[runs[w][1]][runs[w][2]] # "none"
  /\ at[w] = "finish" => timer[runs[w][1]][runs[w][2]] # "scheduled"

\* The snapshot s, taken for the timer k of the lead l, says what its verdict needs.
TrueOf(s, l, k) ==
  CASE k = "followup" -> (takeover[l] = "desk" => s.taken) /\ (owner[l] # Nobody => s.owned)
    [] k = "stale" -> TRUE
    [] OTHER -> (acked[l] => s.acked) /\ (owner[l] = Nobody => ~s.owned)

\* It does for as long as the timer waits.
SnapshotsHold == \A w \in Workers : \A l \in Leads, k \in Kinds :
  at[w] \in {"wait", "timer"} /\ runs[w] = <<l, k>> /\ timer[l][k] = "scheduled"
    => TrueOf(saw[w], l, k)

IInv == ServiceTypeOK /\ TimersHaveJobs /\ WorkersRunTimers /\ SnapshotsHold

-----------------------------------------------------------------------------
(* The type invariant in parts. *)

LeadTypes ==
  /\ status \in [Leads -> {"open", "qualified", "closed", "lost", "not_interested"}]
  /\ stage \in [Leads -> {"open", "qualified", "closed_lost", "stopped"}]
  /\ stopped \in [Leads -> BOOLEAN] /\ asking \in [Leads -> BOOLEAN] /\ acked \in [Leads -> BOOLEAN]
  /\ closed \in [Leads -> {"", "lost", "other"}]
  /\ takeover \in [Leads -> {"no", "desk", "bot"}]
  /\ owner \in [Leads -> People \cup {Nobody}]

QueueTypes ==
  /\ timer \in [Leads -> [Kinds -> TimerStates]]
  /\ job \in [Leads -> [Kinds -> JobStates]]
  /\ tries \in [Leads -> [Kinds -> Nat]]
  /\ lease \in [Leads -> [Kinds -> Workers \cup {Nobody}]]

TurnTypes ==
  /\ turn \in [Leads -> {"idle", "talking", "qualifying", "counted", "leaving"}]
  /\ seen \in [Leads -> [People -> Nat]]
  /\ request \in [Leads -> Requests \cup {"none"}]

WorkerTypes ==
  /\ runs \in [Workers -> (Leads \X Kinds) \cup {NoJob}]
  /\ at \in [Workers -> {"idle", "look", "wait", "timer", "finish"}]
  /\ saw \in [Workers -> [acked : BOOLEAN, owned : BOOLEAN, taken : BOOLEAN]]

BoundTypes == events \in 0 .. MaxEvents /\ faults \in 0 .. MaxFaults

LEMMA TypesInParts ==
  /\ ServiceTypeOK <=> LeadTypes /\ QueueTypes /\ TurnTypes /\ WorkerTypes /\ BoundTypes
  /\ ServiceTypeOK' <=> LeadTypes' /\ QueueTypes' /\ TurnTypes' /\ WorkerTypes' /\ BoundTypes'
BY DEF ServiceTypeOK, LeadTypes, QueueTypes, TurnTypes, WorkerTypes, BoundTypes, TimerStates, JobStates

LEMMA InitIsGood == Init => IInv
<1> SUFFICES ASSUME Init PROVE IInv
  OBVIOUS
<1> USE ServiceAssumption DEF Init
<1>1. LeadTypes
  BY DEF LeadTypes
<1>2. QueueTypes
  BY DEF QueueTypes, TimerStates, JobStates
<1>3. TurnTypes
  BY DEF TurnTypes
<1>7. BoundTypes
  <2>1. events = 0 /\ faults = 0
    OBVIOUS
  <2>2. MaxEvents \in Nat /\ MaxFaults \in Nat
    OBVIOUS
  <2> HIDE ServiceAssumption DEF Init
  <2> QED
    BY <2>1, <2>2 DEF BoundTypes
<1>4. WorkerTypes
  BY DEF WorkerTypes, Unseen
<1>5. TimersHaveJobs
  BY DEF TimersHaveJobs
<1>6. WorkersRunTimers /\ SnapshotsHold
  BY DEF WorkersRunTimers, SnapshotsHold
<1> QED
  BY <1>1, <1>2, <1>3, <1>4, <1>5, <1>6, <1>7, TypesInParts DEF IInv

-----------------------------------------------------------------------------
(* Timers and their jobs. *)

\* What a step may do to timers, jobs and leases.
Tidy ==
  /\ QueueTypes'
  /\ TimersHaveJobs'

\* A step that rings no alarm.
Quiet == \A l \in Leads, k \in Kinds : TimerAlarms!Silent(timer[l][k], timer'[l][k])

\* Cancelling the waiting timers of a lead.
LEMMA CancelTimersIsTidy ==
  ASSUME QueueTypes, TimersHaveJobs, NEW l \in Leads, NEW K, CancelTimers(l, K)
  PROVE  /\ Tidy /\ Quiet
         /\ \A k \in Kinds : k \in K => timer'[l][k] # "scheduled"
         /\ \A m \in Leads, k \in Kinds : timer'[m][k] = "scheduled" => timer[m][k] = "scheduled"
<1> DEFINE waiting == {k \in K \cap Kinds : timer[l][k] = "scheduled"}
<1>1. /\ timer' = [timer EXCEPT ![l] = [k \in Kinds |-> IF k \in waiting THEN "cancelled" ELSE timer[l][k]]]
      /\ job' = [job EXCEPT ![l] = [k \in Kinds |->
           IF k \in waiting /\ job[l][k] # "completed" THEN "cancelled" ELSE job[l][k]]]
      /\ UNCHANGED <<tries, lease>>
  BY DEF CancelTimers
<1>2. \A m \in Leads, k \in Kinds :
        /\ timer'[m][k] = IF m = l /\ k \in waiting THEN "cancelled" ELSE timer[m][k]
        /\ job'[m][k] = IF m = l /\ k \in waiting /\ job[m][k] # "completed" THEN "cancelled" ELSE job[m][k]
  BY <1>1 DEF QueueTypes
<1>3. timer' \in [Leads -> [Kinds -> TimerStates]]
  BY <1>1 DEF QueueTypes, TimerStates
<1>4. job' \in [Leads -> [Kinds -> JobStates]]
  BY <1>1 DEF QueueTypes, JobStates, Finished
<1>5. Quiet
  BY <1>2 DEF Quiet, TimerAlarms!Silent
<1>6. TimersHaveJobs'
  BY <1>2 DEF TimersHaveJobs
<1>7. tries' \in [Leads -> [Kinds -> Nat]] /\ lease' \in [Leads -> [Kinds -> Workers \cup {Nobody}]]
  BY <1>1 DEF QueueTypes
<1> QED
  BY <1>2, <1>3, <1>4, <1>5, <1>6, <1>7 DEF Tidy, QueueTypes

\* Arming the timers of K that were never armed while those of C are cancelled.
LEMMA ArmIsTidy ==
  ASSUME QueueTypes, TimersHaveJobs, NEW l \in Leads, NEW K, NEW C, Arm(l, K, C)
  PROVE  /\ Tidy /\ Quiet
         /\ \A k \in Kinds : k \in C /\ timer'[l][k] = "scheduled" => timer[l][k] = "none"
         /\ \A m \in Leads, k \in Kinds :
              timer'[m][k] = "scheduled" /\ timer[m][k] # "none" => timer[m][k] = "scheduled"
<1> DEFINE new == {k \in K \cap Kinds : timer[l][k] = "none"}
           waiting == {k \in C \cap Kinds : timer[l][k] = "scheduled"}
<1>1. /\ timer' = [timer EXCEPT ![l] = [k \in Kinds |->
           CASE k \in new -> "scheduled" [] k \in waiting -> "cancelled" [] OTHER -> timer[l][k]]]
      /\ job' = [job EXCEPT ![l] = [k \in Kinds |->
           CASE k \in new -> "pending"
             [] k \in waiting /\ job[l][k] # "completed" -> "cancelled"
             [] OTHER -> job[l][k]]]
      /\ UNCHANGED <<tries, lease>>
  BY DEF Arm
<1>2. \A m \in Leads, k \in Kinds :
        /\ timer'[m][k] = IF m = l /\ k \in new THEN "scheduled"
                          ELSE IF m = l /\ k \in waiting THEN "cancelled" ELSE timer[m][k]
        /\ job'[m][k] = IF m = l /\ k \in new THEN "pending"
                        ELSE IF m = l /\ k \in waiting /\ job[m][k] # "completed" THEN "cancelled" ELSE job[m][k]
  BY <1>1 DEF QueueTypes
<1>3. timer' \in [Leads -> [Kinds -> TimerStates]]
  BY <1>1 DEF QueueTypes, TimerStates
<1>4. job' \in [Leads -> [Kinds -> JobStates]]
  BY <1>1 DEF QueueTypes, JobStates, Finished
<1>5. Quiet
  BY <1>2 DEF Quiet, TimerAlarms!Silent
<1>6. TimersHaveJobs'
  BY <1>2 DEF TimersHaveJobs
<1>7. tries' \in [Leads -> [Kinds -> Nat]] /\ lease' \in [Leads -> [Kinds -> Workers \cup {Nobody}]]
  BY <1>1 DEF QueueTypes
<1> QED
  BY <1>2, <1>3, <1>4, <1>5, <1>6, <1>7 DEF Tidy, QueueTypes

LEMMA UntouchedIsTidy ==
  ASSUME QueueTypes, TimersHaveJobs, UNCHANGED <<timer, queue_vars>>
  PROVE  Tidy /\ Quiet
<1>1. UNCHANGED <<timer, job, tries, lease>>
  BY DEF queue_vars
<1>2. TimersHaveJobs'
  BY <1>1 DEF TimersHaveJobs
<1>3. Quiet
  BY <1>1 DEF Quiet, TimerAlarms!Silent
<1> QED
  BY <1>1, <1>2, <1>3 DEF Tidy, QueueTypes

-----------------------------------------------------------------------------
(* Steps of turns and requests: no worker moves. *)

\* A timer that waited before and waits now has kept its cause.
CauseKept == \A l \in Leads, k \in Kinds :
  timer[l][k] # "none" /\ timer'[l][k] = "scheduled" =>
    /\ timer[l][k] = "scheduled"
    /\ CASE k = "followup" -> /\ takeover'[l] = "desk" => takeover[l] = "desk"
                              /\ owner'[l] # Nobody => owner[l] # Nobody
         [] k = "stale" -> TRUE
         [] OTHER -> /\ acked'[l] => acked[l]
                     /\ owner'[l] = Nobody => owner[l] = Nobody

\* Workers' knowledge survives such a step.
LEMMA OthersKeep ==
  ASSUME IInv, ServiceTypeOK', Tidy, Quiet, CauseKept, UNCHANGED worker_vars
  PROVE  IInv'
<1>1. UNCHANGED <<runs, at, saw>>
  BY DEF worker_vars
<1>2. WorkersRunTimers'
  <2> SUFFICES ASSUME NEW w \in Workers
               PROVE  /\ at[w] # "idle" => runs[w] \in Leads \X Kinds /\ timer'[runs[w][1]][runs[w][2]] # "none"
                      /\ at[w] = "finish" => timer'[runs[w][1]][runs[w][2]] # "scheduled"
    BY <1>1 DEF WorkersRunTimers
  <2> SUFFICES ASSUME at[w] # "idle"
               PROVE  /\ runs[w] \in Leads \X Kinds
                      /\ timer'[runs[w][1]][runs[w][2]] # "none"
                      /\ at[w] = "finish" => timer'[runs[w][1]][runs[w][2]] # "scheduled"
    OBVIOUS
  <2>1. runs[w][1] \in Leads /\ runs[w][2] \in Kinds /\ runs[w] \in Leads \X Kinds
    BY DEF IInv, WorkersRunTimers
  <2>2. TimerAlarms!Silent(timer[runs[w][1]][runs[w][2]], timer'[runs[w][1]][runs[w][2]])
    BY <2>1 DEF Quiet
  <2> QED
    BY <2>1, <2>2 DEF IInv, WorkersRunTimers, TimerAlarms!Silent
<1>3. SnapshotsHold'
  <2> SUFFICES ASSUME NEW w \in Workers, NEW l \in Leads, NEW k \in Kinds,
                      at[w] \in {"wait", "timer"}, runs[w] = <<l, k>>, timer'[l][k] = "scheduled"
               PROVE  TrueOf(saw[w], l, k)'
    BY <1>1 DEF SnapshotsHold
  <2>1. timer[l][k] # "none"
    BY DEF IInv, WorkersRunTimers
  <2>2. TrueOf(saw[w], l, k)
    BY <2>1 DEF CauseKept, IInv, SnapshotsHold
  <2> QED
    BY <1>1, <2>1, <2>2 DEF CauseKept, TrueOf
<1> QED
  BY <1>2, <1>3 DEF IInv, Tidy

LEMMA LoadsAreNumbers == ASSUME NEW p \in People PROVE ActiveLoad(p) \in Nat
<1>1. IsFiniteSet({l \in Leads : owner[l] = p})
  BY ServiceAssumption, FS_Subset
<1>2. Cardinality({l \in Leads : owner[l] = p}) \in Nat
  BY <1>1, FS_CardinalityType
<1>3. Load[p] \in Nat
  BY ServiceAssumption
<1> QED
  BY <1>2, <1>3 DEF ActiveLoad

\* Steps that touch neither timers nor what their causes are read from.
LEMMA SimpleStepsKeep ==
  ASSUME IInv, NEW l \in Leads,
         \/ Converse(l) \/ Reply(l) \/ Handoff(l) \/ Qualify(l) \/ Count(l) \/ Leave(l)
         \/ IntakeAgain(l) \/ TurnFails(l)
         \/ \E r \in Requests : Request(l, r)
  PROVE  IInv' /\ Quiet
<1> USE DEF lead_vars, queue_vars, bounds, worker_vars
<1>0. LeadTypes /\ QueueTypes /\ TurnTypes /\ WorkerTypes /\ BoundTypes
  BY TypesInParts DEF IInv
<1>1. UNCHANGED <<timer, queue_vars, worker_vars, owner, acked, stopped, closed>>
  BY DEF Converse, Reply, Handoff, Qualify, Count, Leave, IntakeAgain, Request, TurnFails, RollBack
<1>2. Tidy /\ Quiet
  BY <1>0, <1>1, UntouchedIsTidy DEF IInv
<1>3. takeover' = takeover \/ takeover' = [takeover EXCEPT ![l] = "bot"]
  BY DEF Converse, Reply, Handoff, Qualify, Count, Leave, IntakeAgain, Request, TurnFails, RollBack
<1>4. \A m \in Leads : takeover'[m] = "desk" => takeover[m] = "desk"
  BY <1>0, <1>3 DEF LeadTypes
<1>5. CauseKept
  BY <1>1, <1>4 DEF CauseKept
<1>6. LeadTypes'
  <2>1. /\ status' = status \/ status' = [status EXCEPT ![l] = "open"]
        /\ stage' = stage \/ stage' = [stage EXCEPT ![l] = "open"]
        /\ asking' = asking \/ asking' = [asking EXCEPT ![l] = TRUE]
    BY DEF Converse, Reply, Handoff, Qualify, Count, Leave, IntakeAgain, Request, TurnFails, RollBack
  <2> QED
    BY <1>1, <1>3, <2>1, <1>0 DEF LeadTypes
<1>7. TurnTypes'
  <2>1. /\ \/ turn' = turn
           \/ \E t \in {"idle", "talking", "qualifying", "counted", "leaving"} : turn' = [turn EXCEPT ![l] = t]
        /\ request' = request \/ \E r \in Requests : request' = [request EXCEPT ![l] = r]
    BY DEF Converse, Reply, Handoff, Qualify, Count, Leave, IntakeAgain, Request, TurnFails, RollBack
  <2>2. \/ seen' = seen \/ seen' = [seen EXCEPT ![l] = [p \in People |-> 0]]
        \/ seen' = [seen EXCEPT ![l] = [p \in People |-> ActiveLoad(p)]]
    BY DEF Converse, Reply, Handoff, Qualify, Count, Leave, IntakeAgain, Request, TurnFails, RollBack
  <2>3. \A p \in People : ActiveLoad(p) \in Nat
    BY LoadsAreNumbers
  <2>4. turn' \in [Leads -> {"idle", "talking", "qualifying", "counted", "leaving"}]
    BY <2>1, <1>0 DEF TurnTypes
  <2>5. request' \in [Leads -> Requests \cup {"none"}]
    BY <2>1, <1>0 DEF TurnTypes
  <2>6. seen' \in [Leads -> [People -> Nat]]
    BY <2>2, <2>3, <1>0 DEF TurnTypes
  <2> QED
    BY <2>4, <2>5, <2>6 DEF TurnTypes
<1>8. BoundTypes'
  BY <1>0, ServiceAssumption
     DEF Converse, Reply, Handoff, Qualify, Count, Leave, IntakeAgain, Request, TurnFails, RollBack, BoundTypes
<1>9. WorkerTypes'
  BY <1>0, <1>1 DEF WorkerTypes
<1> QED
  BY <1>1, <1>2, <1>5, <1>6, <1>7, <1>8, <1>9, OthersKeep, TypesInParts DEF Tidy

\* The end of a qualifying turn: the best salesperson gets the lead, or nobody.
LEMMA QualifiedTypes ==
  ASSUME LeadTypes, TurnTypes, WorkerTypes, BoundTypes, NEW l \in Leads, Qualified(l),
         owner' = owner \/ \E p \in People : owner' = [owner EXCEPT ![l] = p]
  PROVE  LeadTypes' /\ TurnTypes' /\ WorkerTypes' /\ BoundTypes'
<1> USE DEF Qualified, worker_vars, bounds
<1>1. LeadTypes'
  BY DEF LeadTypes
<1>2. TurnTypes'
  BY DEF TurnTypes
<1>3. WorkerTypes' /\ BoundTypes'
  BY DEF WorkerTypes, BoundTypes
<1> QED
  BY <1>1, <1>2, <1>3

LEMMA RoutingKeeps ==
  ASSUME IInv, NEW l \in Leads,
         NoSalesperson(l) \/ AlreadyAssigned(l) \/ \E p \in People : Assign(l, p)
  PROVE  IInv' /\ Quiet
<1>0. LeadTypes /\ QueueTypes /\ TurnTypes /\ WorkerTypes /\ BoundTypes /\ TimersHaveJobs
  BY TypesInParts DEF IInv
<1>1. CASE AlreadyAssigned(l)
  <2>1. Tidy /\ Quiet /\ CauseKept
    <3>1. CancelTimers(l, {"followup"}) /\ UNCHANGED <<takeover, owner, acked>>
      BY <1>1 DEF AlreadyAssigned, Qualified
    <3> QED
      BY <1>0, <3>1, CancelTimersIsTidy DEF CauseKept
  <2>2. LeadTypes' /\ TurnTypes' /\ WorkerTypes' /\ BoundTypes'
    BY <1>0, <1>1, QualifiedTypes DEF AlreadyAssigned
  <2>3. UNCHANGED worker_vars
    BY <1>1 DEF AlreadyAssigned, Qualified
  <2> QED
    BY <2>1, <2>2, <2>3, OthersKeep, TypesInParts DEF Tidy
<1>2. CASE NoSalesperson(l)
  <2>1. Tidy /\ Quiet /\ CauseKept
    <3>1. PICK K : Arm(l, K, {"followup"})
      BY <1>2 DEF NoSalesperson
    <3>2. UNCHANGED <<takeover, owner, acked>>
      BY <1>2 DEF NoSalesperson, Qualified
    <3> QED
      BY <1>0, <3>1, <3>2, ArmIsTidy DEF CauseKept
  <2>2. LeadTypes' /\ TurnTypes' /\ WorkerTypes' /\ BoundTypes'
    BY <1>0, <1>2, QualifiedTypes DEF NoSalesperson
  <2>3. UNCHANGED worker_vars
    BY <1>2 DEF NoSalesperson, Qualified
  <2> QED
    BY <2>1, <2>2, <2>3, OthersKeep, TypesInParts DEF Tidy
<1>3. ASSUME NEW p \in People, Assign(l, p)
      PROVE  IInv' /\ Quiet
  <2>1. Arm(l, AssignmentTimers, {"followup"}) /\ owner' = [owner EXCEPT ![l] = p]
        /\ UNCHANGED <<takeover, acked>>
    BY <1>3 DEF Assign, Qualified
  <2>2. /\ Tidy /\ Quiet
        /\ \A k \in Kinds : k = "followup" /\ timer'[l][k] = "scheduled" => timer[l][k] = "none"
        /\ \A m \in Leads, k \in Kinds :
             timer'[m][k] = "scheduled" /\ timer[m][k] # "none" => timer[m][k] = "scheduled"
    BY <1>0, <2>1, ArmIsTidy
  <2>3. owner'[l] # Nobody /\ \A m \in Leads : m # l => owner'[m] = owner[m]
    BY <1>0, <2>1, ServiceAssumption DEF LeadTypes
  <2>4. CauseKept
    BY <2>1, <2>2, <2>3 DEF CauseKept
  <2>5. LeadTypes' /\ TurnTypes' /\ WorkerTypes' /\ BoundTypes'
    BY <1>0, <1>3, QualifiedTypes DEF Assign
  <2>6. UNCHANGED worker_vars
    BY <1>3 DEF Assign, Qualified
  <2> QED
    BY <2>2, <2>4, <2>5, <2>6, OthersKeep, TypesInParts DEF Tidy
<1> QED
  BY <1>1, <1>2, <1>3

LEMMA OptOutKeeps == ASSUME IInv, NEW l \in Leads, OptOut(l) PROVE IInv' /\ Quiet
<1>0. LeadTypes /\ QueueTypes /\ TurnTypes /\ WorkerTypes /\ BoundTypes /\ TimersHaveJobs
  BY TypesInParts DEF IInv
<1>1. CancelTimers(l, Kinds) /\ UNCHANGED <<takeover, owner, acked>>
  BY DEF OptOut
<1>2. Tidy /\ Quiet /\ CauseKept
  BY <1>0, <1>1, CancelTimersIsTidy DEF CauseKept
<1>3. LeadTypes'
  BY <1>0 DEF OptOut, LeadTypes
<1>4. TurnTypes' /\ WorkerTypes' /\ BoundTypes' /\ UNCHANGED worker_vars
  BY <1>0 DEF OptOut, TurnTypes, WorkerTypes, BoundTypes, worker_vars, bounds
<1> QED
  BY <1>2, <1>3, <1>4, OthersKeep, TypesInParts DEF Tidy

LEMMA ScheduleFollowupKeeps ==
  ASSUME IInv, NEW l \in Leads, ScheduleFollowup(l)
  PROVE  IInv' /\ Quiet
<1>0. LeadTypes /\ QueueTypes /\ TurnTypes /\ WorkerTypes /\ BoundTypes /\ TimersHaveJobs
  BY TypesInParts DEF IInv
<1>1. Arm(l, {"followup"}, {}) /\ UNCHANGED <<lead_vars, takeover>>
  BY DEF ScheduleFollowup
<1>2. Tidy /\ Quiet /\ CauseKept
  BY <1>0, <1>1, ArmIsTidy DEF CauseKept, lead_vars
<1>3. LeadTypes'
  BY <1>0, <1>1 DEF lead_vars, LeadTypes
<1>4. TurnTypes' /\ WorkerTypes' /\ BoundTypes' /\ UNCHANGED worker_vars
  BY <1>0 DEF ScheduleFollowup, TurnTypes, WorkerTypes, BoundTypes, worker_vars, bounds
<1> QED
  BY <1>2, <1>3, <1>4, OthersKeep, TypesInParts DEF Tidy

\* A request cancels the timers whose cause it takes away.
LEMMA CommitKeeps == ASSUME IInv, NEW l \in Leads, Commit(l) PROVE IInv' /\ Quiet
<1> DEFINE r == request[l]
<1>0. LeadTypes /\ QueueTypes /\ TurnTypes /\ WorkerTypes /\ BoundTypes /\ TimersHaveJobs
  BY TypesInParts DEF IInv
<1>1. /\ CancelTimers(l, CancelledBy(r)) /\ Answered(l, r)
      /\ request' = [request EXCEPT ![l] = "none"]
      /\ UNCHANGED <<owner, turn, seen, worker_vars, bounds>>
  BY DEF Commit
<1>2. /\ Tidy /\ Quiet
      /\ \A k \in Kinds : k \in CancelledBy(r) => timer'[l][k] # "scheduled"
      /\ \A m \in Leads, k \in Kinds : timer'[m][k] = "scheduled" => timer[m][k] = "scheduled"
  BY <1>0, <1>1, CancelTimersIsTidy
<1>3. LeadTypes'
  <2> HIDE DEF r
  <2>1. status' \in [Leads -> {"open", "qualified", "closed", "lost", "not_interested"}]
        /\ stage' \in [Leads -> {"open", "qualified", "closed_lost", "stopped"}]
    BY <1>0, <1>1 DEF Answered, LeadTypes
  <2>2. stopped' \in [Leads -> BOOLEAN] /\ asking' \in [Leads -> BOOLEAN] /\ acked' \in [Leads -> BOOLEAN]
    BY <1>0, <1>1 DEF Answered, LeadTypes
  <2>3. closed' \in [Leads -> {"", "lost", "other"}] /\ takeover' \in [Leads -> {"no", "desk", "bot"}]
    BY <1>0, <1>1 DEF Answered, LeadTypes
  <2> QED
    BY <1>0, <1>1, <2>1, <2>2, <2>3 DEF LeadTypes
<1>4. TurnTypes' /\ WorkerTypes' /\ BoundTypes' /\ UNCHANGED worker_vars
  <2> HIDE DEF r
  <2> QED
    BY <1>0, <1>1 DEF TurnTypes, WorkerTypes, BoundTypes, worker_vars, bounds
<1>5. CauseKept
  <2> HIDE DEF r
  <2>1. /\ \A m \in Leads : m # l => takeover'[m] = takeover[m] /\ acked'[m] = acked[m]
        /\ takeover'[l] = "desk" /\ takeover[l] # "desk" => r \in {"takeover", "own_takeover"}
        /\ acked'[l] /\ ~acked[l] => r = "ack"
    BY <1>0, <1>1 DEF Answered, LeadTypes
  <2>2. /\ r \in {"takeover", "own_takeover"} => "followup" \in CancelledBy(r)
        /\ r = "ack" => CancelledBy(r) = {"reminder", "escalation"}
    BY DEF CancelledBy, AllKinds
  <2>3. Kinds \subseteq {"reminder", "escalation", "stale", "followup"}
    BY ServiceAssumption DEF AllKinds
  <2> SUFFICES ASSUME NEW m \in Leads, NEW k \in Kinds, timer'[m][k] = "scheduled"
               PROVE  CASE k = "followup" -> /\ takeover'[m] = "desk" => takeover[m] = "desk"
                                             /\ owner'[m] # Nobody => owner[m] # Nobody
                        [] k = "stale" -> TRUE
                        [] OTHER -> /\ acked'[m] => acked[m]
                                    /\ owner'[m] = Nobody => owner[m] = Nobody
    BY <1>2 DEF CauseKept
  <2>4. CASE m # l
    BY <1>1, <2>1, <2>4
  <2>5. CASE m = l
    <3>1. k \notin CancelledBy(r)
      BY <1>2, <2>5
    <3>2. CASE k = "followup"
      BY <1>1, <2>1, <2>2, <2>5, <3>1, <3>2
    <3>3. CASE k \in {"reminder", "escalation"}
      BY <1>1, <2>1, <2>2, <2>5, <3>1, <3>3
    <3> QED
      BY <2>3, <3>2, <3>3
  <2> QED
    BY <2>4, <2>5
<1> QED
  BY <1>2, <1>3, <1>4, <1>5, OthersKeep, TypesInParts DEF Tidy

\* A request or a turn is aborted.
LEMMA AbortKeeps ==
  ASSUME IInv, NEW l \in Leads, Aborted(l) \/ (RollBack(l) /\ UNCHANGED bounds)
  PROVE  IInv' /\ Quiet
<1>0. LeadTypes /\ QueueTypes /\ TurnTypes /\ WorkerTypes /\ BoundTypes /\ TimersHaveJobs
  BY TypesInParts DEF IInv
<1>1. UNCHANGED <<lead_vars, takeover, timer, queue_vars, worker_vars, bounds>>
  BY DEF Aborted, RollBack
<1>2. Tidy /\ Quiet
  BY <1>0, <1>1, UntouchedIsTidy
<1>3. CauseKept
  BY <1>1 DEF CauseKept, lead_vars
<1>4. LeadTypes'
  BY <1>0, <1>1 DEF LeadTypes, lead_vars
<1>5. WorkerTypes' /\ BoundTypes'
  BY <1>0, <1>1 DEF WorkerTypes, BoundTypes, worker_vars, bounds
<1>6. TurnTypes'
  BY <1>0 DEF Aborted, RollBack, TurnTypes
<1> QED
  BY <1>1, <1>2, <1>3, <1>4, <1>5, <1>6, OthersKeep, TypesInParts DEF Tidy

-----------------------------------------------------------------------------
(* Steps of workers and of their jobs. *)

\* A job that exists is claimed, given back, or completed behind its timer.
LEMMA JobMoves ==
  ASSUME QueueTypes, TimersHaveJobs, NEW l \in Leads, NEW k \in Kinds, NEW s \in JobStates,
         UNCHANGED timer, job' = [job EXCEPT ![l][k] = s], job[l][k] # "none",
         \/ s \in {"pending", "processing", "dead_lettered"}
         \/ s = "completed" /\ timer[l][k] # "scheduled"
  PROVE  job' \in [Leads -> [Kinds -> JobStates]] /\ TimersHaveJobs' /\ Quiet
<1>1. \A m \in Leads, i \in Kinds : job'[m][i] = IF m = l /\ i = k THEN s ELSE job[m][i]
  BY DEF QueueTypes
<1>2. job' \in [Leads -> [Kinds -> JobStates]]
  BY DEF QueueTypes
<1>3. TimersHaveJobs'
  BY <1>1 DEF TimersHaveJobs
<1>4. Quiet
  BY DEF Quiet, TimerAlarms!Silent
<1> QED
  BY <1>2, <1>3, <1>4

\* A worker that is left without a job knows nothing.
LEMMA LeavingKeeps ==
  ASSUME WorkerTypes, WorkersRunTimers, SnapshotsHold, NEW w \in Workers, Leaves(w),
         UNCHANGED <<timer, takeover, owner, acked>>
  PROVE  WorkerTypes' /\ WorkersRunTimers' /\ SnapshotsHold'
<1>1. WorkerTypes'
  BY DEF Leaves, WorkerTypes, Unseen
<1>2. /\ at'[w] = "idle"
      /\ \A v \in Workers : v # w => at'[v] = at[v] /\ runs'[v] = runs[v] /\ saw'[v] = saw[v]
  BY DEF Leaves, WorkerTypes
<1>3. WorkersRunTimers'
  BY <1>2 DEF WorkersRunTimers
<1>4. SnapshotsHold'
  BY <1>2 DEF SnapshotsHold, TrueOf
<1> QED
  BY <1>1, <1>3, <1>4

LEMMA LeasingKeeps ==
  ASSUME IInv,
         \/ \E w \in Workers, l \in Leads, k \in Kinds : Claim(w, l, k)
         \/ \E l \in Leads, k \in Kinds : Expire(l, k)
         \/ \E w \in Workers : Lapse(w)
  PROVE  IInv' /\ Quiet
<1>0. /\ LeadTypes /\ QueueTypes /\ TurnTypes /\ WorkerTypes /\ BoundTypes
      /\ TimersHaveJobs /\ WorkersRunTimers /\ SnapshotsHold
  BY TypesInParts DEF IInv
<1>1. UNCHANGED <<lead_vars, takeover, timer, turn, seen, request, events>>
  BY DEF Claim, Expire, Lapse, bounds
<1>2. LeadTypes' /\ TurnTypes'
  BY <1>0, <1>1 DEF LeadTypes, TurnTypes, lead_vars
<1>3. BoundTypes'
  <2>1. events' = events /\ (faults' = faults \/ (faults < MaxFaults /\ faults' = faults + 1))
    BY DEF Claim, Expire, Lapse, bounds
  <2>2. MaxEvents \in Nat /\ MaxFaults \in Nat
    BY ServiceAssumption
  <2> QED
    BY <1>0, <2>1, <2>2 DEF BoundTypes
<1>4. QueueTypes' /\ TimersHaveJobs' /\ Quiet
  <2>1. ASSUME NEW l \in Leads, NEW k \in Kinds, NEW s \in {"pending", "processing"}, NEW h \in Workers \cup {Nobody},
               job[l][k] # "none", job' = [job EXCEPT ![l][k] = s], lease' = [lease EXCEPT ![l][k] = h],
               UNCHANGED tries \/ tries' = [tries EXCEPT ![l][k] = @ + 1]
        PROVE  QueueTypes' /\ TimersHaveJobs' /\ Quiet
    <3>1. job' \in [Leads -> [Kinds -> JobStates]] /\ TimersHaveJobs' /\ Quiet
      BY <1>0, <1>1, <2>1, JobMoves DEF JobStates
    <3>2. lease' \in [Leads -> [Kinds -> Workers \cup {Nobody}]]
      BY <1>0, <2>1 DEF QueueTypes
    <3>3. tries' \in [Leads -> [Kinds -> Nat]]
      <4>1. CASE UNCHANGED tries
        BY <1>0, <4>1 DEF QueueTypes
      <4>2. CASE tries' = [tries EXCEPT ![l][k] = @ + 1]
        <5>1. tries[l][k] + 1 \in Nat
          BY <1>0 DEF QueueTypes
        <5> QED
          BY <1>0, <4>2, <5>1 DEF QueueTypes
      <4> QED
        BY <2>1, <4>1, <4>2
    <3> QED
      BY <1>0, <1>1, <3>1, <3>2, <3>3 DEF QueueTypes
  <2>2. ASSUME NEW w \in Workers, NEW l \in Leads, NEW k \in Kinds, Claim(w, l, k)
        PROVE  QueueTypes' /\ TimersHaveJobs' /\ Quiet
    BY <2>1, <2>2 DEF Claim
  <2>3. ASSUME NEW l \in Leads, NEW k \in Kinds, Expire(l, k)
        PROVE  QueueTypes' /\ TimersHaveJobs' /\ Quiet
    BY <2>1, <2>3 DEF Expire
  <2>4. ASSUME NEW w \in Workers, Lapse(w)
        PROVE  QueueTypes' /\ TimersHaveJobs' /\ Quiet
    <3>1. runs[w][1] \in Leads /\ runs[w][2] \in Kinds
      BY <1>0, <2>4 DEF Lapse, WorkersRunTimers
    <3> QED
      BY <2>1, <2>4, <3>1 DEF Lapse, Fenced
  <2> QED
    BY <2>2, <2>3, <2>4
<1>5. WorkerTypes' /\ WorkersRunTimers' /\ SnapshotsHold'
  <2>1. CASE UNCHANGED worker_vars
    BY <1>0, <1>1, <2>1 DEF WorkerTypes, WorkersRunTimers, SnapshotsHold, TrueOf, worker_vars, lead_vars
  <2>2. ASSUME NEW w \in Workers, NEW l \in Leads, NEW k \in Kinds, Claim(w, l, k)
        PROVE  WorkerTypes' /\ WorkersRunTimers' /\ SnapshotsHold'
    <3>1. WorkerTypes'
      BY <1>0, <2>2 DEF Claim, WorkerTypes
    <3>2. timer[l][k] # "none"
      BY <1>0, <2>2 DEF Claim, TimersHaveJobs
    <3>3. /\ at'[w] = "look" /\ runs'[w] = <<l, k>> /\ UNCHANGED saw
          /\ \A v \in Workers : v # w => at'[v] = at[v] /\ runs'[v] = runs[v]
      BY <1>0, <2>2 DEF Claim, WorkerTypes
    <3>4. WorkersRunTimers'
      BY <1>0, <1>1, <3>2, <3>3 DEF WorkersRunTimers
    <3>5. SnapshotsHold'
      BY <1>0, <1>1, <3>3 DEF SnapshotsHold, TrueOf, lead_vars
    <3> QED
      BY <3>1, <3>4, <3>5
  <2> QED
    BY <2>1, <2>2 DEF Expire, Lapse, worker_vars
<1> QED
  BY <1>2, <1>3, <1>4, <1>5, TypesInParts DEF IInv

\* The statement begins, and locks the timer's row.
LEMMA ReadingKeeps ==
  ASSUME IInv, NEW w \in Workers, Look(w) \/ LockTimer(w)
  PROVE  IInv' /\ Quiet
<1>0. /\ LeadTypes /\ QueueTypes /\ TurnTypes /\ WorkerTypes /\ BoundTypes
      /\ TimersHaveJobs /\ WorkersRunTimers /\ SnapshotsHold
  BY TypesInParts DEF IInv
<1>1. UNCHANGED <<lead_vars, takeover, timer, queue_vars, turn, seen, request, runs, bounds>>
  BY DEF Look, LockTimer
<1>2. LeadTypes' /\ TurnTypes' /\ BoundTypes'
  BY <1>0, <1>1 DEF LeadTypes, TurnTypes, BoundTypes, lead_vars, bounds
<1>3. Tidy /\ Quiet
  BY <1>0, <1>1, UntouchedIsTidy
<1>4. runs[w][1] \in Leads /\ runs[w][2] \in Kinds /\ at[w] # "idle"
  BY <1>0 DEF Look, LockTimer, WorkersRunTimers
<1>5. WorkerTypes'
  <2>1. Snapshot(runs[w][1]) \in [acked : BOOLEAN, owned : BOOLEAN, taken : BOOLEAN]
    BY <1>0, <1>4 DEF Snapshot, LeadTypes
  <2>2. saw' = saw \/ saw' = [saw EXCEPT ![w] = Snapshot(runs[w][1])]
    BY DEF Look, LockTimer
  <2>3. at' = [at EXCEPT ![w] = "wait"] \/ at' = [at EXCEPT ![w] = "timer"]
    BY DEF Look, LockTimer
  <2> QED
    BY <1>0, <1>1, <2>1, <2>2, <2>3 DEF WorkerTypes
<1>6. /\ at'[w] \in {"wait", "timer"}
      /\ \A v \in Workers : v # w => at'[v] = at[v] /\ saw'[v] = saw[v]
      /\ saw'[w] = Snapshot(runs[w][1]) \/ (at[w] = "wait" /\ saw'[w] = saw[w])
  BY <1>0 DEF Look, LockTimer, WorkerTypes
<1>7. WorkersRunTimers'
  BY <1>0, <1>1, <1>4, <1>6 DEF WorkersRunTimers
<1>8. SnapshotsHold'
  <2> SUFFICES ASSUME NEW v \in Workers, NEW l \in Leads, NEW k \in Kinds,
                      at'[v] \in {"wait", "timer"}, runs[v] = <<l, k>>, timer[l][k] = "scheduled"
               PROVE  TrueOf(saw[v], l, k)'
    BY <1>1 DEF SnapshotsHold
  <2>1. CASE v # w
    BY <1>0, <1>1, <1>6, <2>1 DEF SnapshotsHold, TrueOf, lead_vars
  <2>2. CASE v = w /\ saw'[w] = Snapshot(runs[w][1])
    <3>1. saw'[v] = [acked |-> acked[l], owned |-> owner[l] # Nobody, taken |-> takeover[l] # "no"]
      BY <2>2 DEF Snapshot
    <3>2. saw'[v].acked = acked[l] /\ saw'[v].owned = (owner[l] # Nobody) /\ saw'[v].taken = (takeover[l] # "no")
      BY <3>1
    <3>3. takeover'[l] = takeover[l] /\ owner'[l] = owner[l] /\ acked'[l] = acked[l]
      BY <1>1 DEF lead_vars
    <3>4. /\ (takeover'[l] = "desk" => saw'[v].taken) /\ (owner'[l] # Nobody => saw'[v].owned)
          /\ (acked'[l] => saw'[v].acked) /\ (owner'[l] = Nobody => ~saw'[v].owned)
      <4>1. takeover'[l] = "desk" => saw'[v].taken
        BY <3>2, <3>3
      <4>2. (owner'[l] # Nobody => saw'[v].owned) /\ (owner'[l] = Nobody => ~saw'[v].owned)
        BY <3>2, <3>3
      <4>3. acked'[l] => saw'[v].acked
        BY <3>2, <3>3, Zenon
      <4> QED
        BY <4>1, <4>2, <4>3
    <3> QED
      BY <3>4 DEF TrueOf
  <2>3. CASE v = w /\ at[w] = "wait" /\ saw'[w] = saw[w]
    BY <1>0, <1>1, <2>3 DEF SnapshotsHold, TrueOf, lead_vars
  <2> QED
    BY <1>6, <2>1, <2>2, <2>3
<1> QED
  BY <1>2, <1>3, <1>5, <1>7, <1>8, TypesInParts DEF IInv, Tidy

\* The verdict: the only step that may ring.
LEMMA DecideKeeps == ASSUME IInv, NEW w \in Workers, Decide(w) PROVE IInv'
<1> DEFINE l == runs[w][1]
           k == runs[w][2]
<1>0. /\ LeadTypes /\ QueueTypes /\ TurnTypes /\ WorkerTypes /\ BoundTypes
      /\ TimersHaveJobs /\ WorkersRunTimers /\ SnapshotsHold
  BY TypesInParts DEF IInv
<1>1. l \in Leads /\ k \in Kinds /\ timer[l][k] # "none"
  BY <1>0 DEF Decide, WorkersRunTimers
<1>2. /\ at' = [at EXCEPT ![w] = "finish"] /\ saw' = [saw EXCEPT ![w] = Unseen]
      /\ timer' = IF timer[l][k] = "scheduled" THEN [timer EXCEPT ![l][k] = Verdict(w, l, k)] ELSE timer
      /\ UNCHANGED <<lead_vars, takeover, queue_vars, turn, seen, request, runs, bounds>>
  BY DEF Decide
<1>3. Verdict(w, l, k) \in {"sent", "cancelled"}
  BY DEF Verdict
<1> HIDE DEF l, k
<1>4. \A m \in Leads, i \in Kinds :
        timer'[m][i] = IF m = l /\ i = k /\ timer[l][k] = "scheduled" THEN Verdict(w, l, k) ELSE timer[m][i]
  BY <1>0, <1>1, <1>2 DEF QueueTypes
<1>5. QueueTypes'
  <2>1. timer' \in [Leads -> [Kinds -> TimerStates]]
    BY <1>0, <1>1, <1>2, <1>3 DEF QueueTypes, TimerStates
  <2> QED
    BY <1>0, <1>2, <2>1 DEF QueueTypes, queue_vars
<1>6. TimersHaveJobs'
  BY <1>0, <1>1, <1>2, <1>3, <1>4 DEF TimersHaveJobs, queue_vars
<1>7. LeadTypes' /\ TurnTypes' /\ BoundTypes'
  BY <1>0, <1>2 DEF LeadTypes, TurnTypes, BoundTypes, lead_vars, bounds
<1>8. WorkerTypes'
  BY <1>0, <1>2 DEF WorkerTypes, Unseen
<1>9. at'[w] = "finish" /\ \A v \in Workers : v # w => at'[v] = at[v] /\ saw'[v] = saw[v]
  BY <1>0, <1>2 DEF WorkerTypes
<1>10. WorkersRunTimers'
  <2> SUFFICES ASSUME NEW v \in Workers, at'[v] # "idle"
               PROVE  /\ runs[v] \in Leads \X Kinds /\ timer'[runs[v][1]][runs[v][2]] # "none"
                      /\ at'[v] = "finish" => timer'[runs[v][1]][runs[v][2]] # "scheduled"
    BY <1>2 DEF WorkersRunTimers
  <2>1. CASE v = w
    <3>1. runs[w] \in Leads \X Kinds
      BY <1>0 DEF Decide, WorkersRunTimers
    <3>2. timer'[l][k] \notin {"none", "scheduled"}
      BY <1>1, <1>3, <1>4
    <3> QED
      BY <2>1, <3>1, <3>2 DEF l, k
  <2>2. CASE v # w
    <3>1. runs[v] \in Leads \X Kinds /\ timer[runs[v][1]][runs[v][2]] # "none"
          /\ (at[v] = "finish" => timer[runs[v][1]][runs[v][2]] # "scheduled")
      BY <1>0, <1>9, <2>2 DEF WorkersRunTimers
    <3>2. runs[v][1] \in Leads /\ runs[v][2] \in Kinds
      BY <3>1
    <3> QED
      BY <1>3, <1>4, <1>9, <2>2, <3>1, <3>2
  <2> QED
    BY <2>1, <2>2
<1>11. SnapshotsHold'
  BY <1>0, <1>2, <1>3, <1>4, <1>9 DEF SnapshotsHold, TrueOf, lead_vars
<1> QED
  BY <1>5, <1>6, <1>7, <1>8, <1>10, <1>11, TypesInParts DEF IInv

\* The job is completed, given back, or left to its lease.
LEMMA EndingKeeps ==
  ASSUME IInv, NEW w \in Workers, at[w] # "idle",
         Finish(w) \/ (Retry(w) /\ UNCHANGED bounds) \/ Fail(w) \/ Crash(w)
  PROVE  IInv' /\ Quiet
<1> DEFINE l == runs[w][1]
           k == runs[w][2]
<1>0. /\ LeadTypes /\ QueueTypes /\ TurnTypes /\ WorkerTypes /\ BoundTypes
      /\ TimersHaveJobs /\ WorkersRunTimers /\ SnapshotsHold
  BY TypesInParts DEF IInv
<1>1. l \in Leads /\ k \in Kinds
  BY <1>0 DEF WorkersRunTimers
<1>2. Leaves(w) /\ UNCHANGED <<lead_vars, takeover, timer, tries, lease, turn, seen, request>>
  BY DEF Finish, Retry, Fail, Crash, queue_vars
<1>3. LeadTypes' /\ TurnTypes'
  BY <1>0, <1>2 DEF LeadTypes, TurnTypes, lead_vars
<1>4. BoundTypes'
  BY <1>0, ServiceAssumption DEF Finish, Fail, Crash, BoundTypes, bounds
<1>5. WorkerTypes' /\ WorkersRunTimers' /\ SnapshotsHold'
  BY <1>0, <1>2, LeavingKeeps DEF lead_vars
<1>6. QueueTypes' /\ TimersHaveJobs' /\ Quiet
  <2>1. CASE UNCHANGED job
    BY <1>0, <1>2, <2>1, UntouchedIsTidy DEF queue_vars, Tidy
  <2>2. CASE Finish(w) /\ Fenced(w, l, k)
    <3>1. job' = [job EXCEPT ![l][k] = "completed"] /\ job[l][k] # "none" /\ timer[l][k] # "scheduled"
      BY <1>0, <2>2 DEF Finish, Fenced, WorkersRunTimers
    <3>2. job' \in [Leads -> [Kinds -> JobStates]] /\ TimersHaveJobs' /\ Quiet
      BY <1>0, <1>1, <1>2, <3>1, JobMoves DEF JobStates, Finished
    <3> QED
      BY <1>0, <1>2, <3>2 DEF QueueTypes
  <2>3. CASE Retry(w) /\ Fenced(w, l, k)
    <3>1. PICK s \in {"pending", "dead_lettered"} : job' = [job EXCEPT ![l][k] = s]
      BY <2>3 DEF Retry
    <3>2. job[l][k] # "none"
      BY <2>3 DEF Fenced
    <3>3. job' \in [Leads -> [Kinds -> JobStates]] /\ TimersHaveJobs' /\ Quiet
      BY <1>0, <1>1, <1>2, <3>1, <3>2, JobMoves DEF JobStates, Finished
    <3> QED
      BY <1>0, <1>2, <3>3 DEF QueueTypes
  <2> QED
    BY <2>1, <2>2, <2>3 DEF Finish, Retry, Fail, Crash, queue_vars
<1> QED
  BY <1>3, <1>4, <1>5, <1>6, TypesInParts DEF IInv

-----------------------------------------------------------------------------
(* Every step. *)

LEMMA VictimKeeps == ASSUME IInv, NEW l \in Leads, Victim(l) PROVE IInv' /\ Quiet
<1>1. CASE Aborted(l) \/ (RollBack(l) /\ UNCHANGED bounds)
  BY <1>1, AbortKeeps
<1>2. ASSUME NEW w \in Workers, at[w] # "idle", Retry(w) /\ UNCHANGED bounds
      PROVE  IInv' /\ Quiet
  BY <1>2, EndingKeeps
<1> QED
  BY <1>1, <1>2 DEF Victim, WorkerInCycle

LEMMA StutterKeeps == ASSUME IInv, UNCHANGED service_vars PROVE IInv' /\ Quiet
<1>0. LeadTypes /\ QueueTypes /\ TurnTypes /\ WorkerTypes /\ BoundTypes /\ TimersHaveJobs
  BY TypesInParts DEF IInv
<1>1. UNCHANGED <<lead_vars, takeover, timer, queue_vars, turn, seen, request, worker_vars, bounds>>
  BY DEF service_vars
<1>2. Tidy /\ Quiet
  BY <1>0, <1>1, UntouchedIsTidy
<1>3. LeadTypes' /\ TurnTypes'
  BY <1>0, <1>1 DEF LeadTypes, TurnTypes, lead_vars
<1>4. WorkerTypes' /\ BoundTypes'
  BY <1>0, <1>1 DEF WorkerTypes, BoundTypes, worker_vars, bounds
<1>5. CauseKept
  BY <1>1 DEF CauseKept, lead_vars
<1> QED
  BY <1>1, <1>2, <1>3, <1>4, <1>5, OthersKeep, TypesInParts DEF Tidy

\* Every step keeps the invariant, and only a worker's verdict may ring.
LEMMA NextKeeps ==
  ASSUME IInv, [Next]_service_vars
  PROVE  IInv' /\ (Quiet \/ \E w \in Workers : Decide(w))
<1>1. ASSUME NEW l \in Leads, TurnStep(l)
      PROVE  IInv' /\ Quiet
  BY <1>1, SimpleStepsKeep, RoutingKeeps, OptOutKeeps DEF TurnStep, TurnEnds
<1>2. ASSUME NEW l \in Leads,
             \/ Commit(l) \/ Victim(l) \/ ScheduleFollowup(l) \/ IntakeAgain(l)
             \/ \E r \in Requests : Request(l, r)
      PROVE  IInv' /\ Quiet
  BY <1>2, CommitKeeps, VictimKeeps, ScheduleFollowupKeeps, SimpleStepsKeep
<1>3. ASSUME NEW w \in Workers, WorkerStep(w) \/ Fail(w) \/ Crash(w) \/ Lapse(w)
      PROVE  IInv' /\ (Quiet \/ Decide(w))
  <2>1. CASE Look(w) \/ LockTimer(w)
    BY <2>1, ReadingKeeps
  <2>2. CASE Decide(w)
    BY <2>2, DecideKeeps
  <2>3. CASE Finish(w) \/ Fail(w) \/ Crash(w)
    <3>1. at[w] # "idle"
      BY <2>3 DEF Finish, Fail, Crash
    <3> QED
      BY <2>3, <3>1, EndingKeeps
  <2>4. CASE Lapse(w) \/ \E l \in Leads, k \in Kinds : Claim(w, l, k)
    BY <2>4, LeasingKeeps
  <2> QED
    BY <1>3, <2>1, <2>2, <2>3, <2>4 DEF WorkerStep, JobStep
<1>4. CASE \E l \in Leads, k \in Kinds : Expire(l, k)
  BY <1>4, LeasingKeeps
<1>5. CASE UNCHANGED service_vars
  BY <1>5, StutterKeeps
<1> QED
  BY <1>1, <1>2, <1>3, <1>4, <1>5 DEF Next

-----------------------------------------------------------------------------
(* ServiceLevels implements Alarms. *)

LEMMA NeedlessIsBoolean ==
  \A l \in Leads, k \in Kinds : Needless(l, k) \in BOOLEAN /\ Needless(l, k)' \in BOOLEAN
BY DEF Needless, GivenUp

\* A verdict that rings is one for a timer whose cause is there.
LEMMA VerdictIsRight ==
  ASSUME IInv, NEW w \in Workers, Decide(w), timer[runs[w][1]][runs[w][2]] = "scheduled",
         Verdict(w, runs[w][1], runs[w][2]) = "sent"
  PROVE  ~Needless(runs[w][1], runs[w][2])
<1> DEFINE l == runs[w][1]
           k == runs[w][2]
<1>1. l \in Leads /\ k \in Kinds /\ runs[w] = <<l, k>> /\ at[w] = "timer"
  BY DEF Decide, IInv, WorkersRunTimers
<1>2. TrueOf(saw[w], l, k)
  BY <1>1 DEF IInv, SnapshotsHold
<1> HIDE DEF l, k
<1>3. Verdict(w, l, k) = "sent"
  BY DEF l, k
<1>4. CASE k = "followup"
  <2>1. ~SkipFollowup(w, l)
    BY <1>3, <1>4 DEF Verdict
  <2>2. (takeover[l] = "desk" => saw[w].taken) /\ (owner[l] # Nobody => saw[w].owned)
    BY <1>2, <1>4 DEF TrueOf
  <2>3. ~Needless(l, k)
    BY <1>4, <2>1, <2>2 DEF SkipFollowup, Needless
  <2> QED
    BY <2>3 DEF l, k
<1>5. CASE k # "followup"
  <2>1. ~SkipAlarm(w, l, k)
    BY <1>3, <1>5 DEF Verdict
  <2>2. k = "stale" \/ ((acked[l] => saw[w].acked) /\ (owner[l] = Nobody => ~saw[w].owned))
    BY <1>2, <1>5 DEF TrueOf
  <2>3. ~Needless(l, k)
    BY <1>5, <2>1, <2>2 DEF SkipAlarm, Needless
  <2> QED
    BY <2>3 DEF l, k
<1> QED
  BY <1>4, <1>5

LEMMA QuietIsTend ==
  ASSUME Quiet, ServiceTypeOK'
  PROVE  TimerAlarms!Tend
<1>1. timer' \in [Leads -> [Kinds -> {"none", "scheduled", "sent", "cancelled"}]]
  BY DEF ServiceTypeOK
<1>2. [l \in Leads |-> [k \in Kinds |-> Needless(l, k)']] \in [Leads -> [Kinds -> BOOLEAN]]
  BY NeedlessIsBoolean
<1> QED
  BY <1>1, <1>2 DEF Quiet, TimerAlarms!Tend

\* A worker's verdict rings one alarm for a cause, or rings none.
LEMMA DecideIsAlarm ==
  ASSUME IInv, ServiceTypeOK', NEW w \in Workers, Decide(w)
  PROVE  TimerAlarms!AlarmsNext
<1> DEFINE l == runs[w][1]
           k == runs[w][2]
<1>1. l \in Leads /\ k \in Kinds
  BY DEF Decide, IInv, WorkersRunTimers
<1>2. timer' = IF timer[l][k] = "scheduled" THEN [timer EXCEPT ![l][k] = Verdict(w, l, k)] ELSE timer
  BY DEF Decide
<1>3. timer \in [Leads -> [Kinds -> TimerStates]] /\ Verdict(w, l, k) \in {"sent", "cancelled"}
  BY DEF IInv, ServiceTypeOK, TimerStates, Verdict
<1>4. CASE timer[l][k] = "scheduled" /\ Verdict(w, l, k) = "sent"
  <2>1. ~Needless(l, k)
    BY <1>4, VerdictIsRight
  <2>2. UNCHANGED <<lead_vars, takeover>>
    BY DEF Decide
  <2>3. \A m \in Leads, i \in Kinds : Needless(m, i)' = Needless(m, i)
    BY <2>2 DEF Needless, GivenUp, lead_vars
  <2>4. timer' = [timer EXCEPT ![l][k] = "sent"]
    BY <1>2, <1>4
  <2>5. TimerAlarms!Ring(l, k)
    BY <1>1, <1>4, <2>1, <2>3, <2>4 DEF TimerAlarms!Ring
  <2> QED
    BY <1>1, <2>5 DEF TimerAlarms!AlarmsNext
<1>5. CASE ~(timer[l][k] = "scheduled" /\ Verdict(w, l, k) = "sent")
  <2> HIDE DEF l, k
  <2>1. timer' = timer \/ (timer[l][k] = "scheduled" /\ timer' = [timer EXCEPT ![l][k] = "cancelled"])
    BY <1>2, <1>3, <1>5
  <2>2. Quiet
    BY <1>1, <1>3, <2>1 DEF Quiet, TimerAlarms!Silent
  <2> QED
    BY <2>2, QuietIsTend DEF TimerAlarms!AlarmsNext
<1> QED
  BY <1>4, <1>5

LEMMA StepsAreAlarms == IInv /\ [Next]_service_vars => [TimerAlarms!AlarmsNext]_(TimerAlarms!alarm_vars)
<1> SUFFICES ASSUME IInv, [Next]_service_vars PROVE TimerAlarms!AlarmsNext
  OBVIOUS
<1>1. ServiceTypeOK' /\ (Quiet \/ \E w \in Workers : Decide(w))
  BY NextKeeps DEF IInv
<1> QED
  BY <1>1, QuietIsTend, DecideIsAlarm DEF TimerAlarms!AlarmsNext

LEMMA StartsAsAlarms == Init => TimerAlarms!AlarmsInit
<1> SUFFICES ASSUME Init PROVE TimerAlarms!AlarmsInit
  OBVIOUS
<1>1. timer = [l \in Leads |-> [k \in Kinds |-> "none"]]
  BY DEF Init
<1>2. [l \in Leads |-> [k \in Kinds |-> Needless(l, k)]] \in [Leads -> [Kinds -> BOOLEAN]]
  BY NeedlessIsBoolean
<1> QED
  BY <1>1, <1>2 DEF TimerAlarms!AlarmsInit

\* What the following theorems rest on.
THEOREM ServiceInvariant == Spec => []IInv
BY InitIsGood, NextKeeps, PTL DEF Spec

\* Leads, timers, jobs, turns and workers keep to their types.
THEOREM ServiceTyped == Spec => []ServiceTypeOK
<1>1. IInv => ServiceTypeOK
  BY DEF IInv
<1> QED
  BY <1>1, ServiceInvariant, PTL

\* A waiting timer has a job that may still run or is a dead letter, whatever
\* cancelled, lapsed or failed (SlaService.cancel, FollowupSchedulerService.cancelForLead).
THEOREM TimersAndJobs == Spec => []TimersHaveJobs
<1>1. IInv => TimersHaveJobs
  BY DEF IInv
<1> QED
  BY <1>1, ServiceInvariant, PTL

\* Though a worker decides on a snapshot, it rings for a cause that is there, and
\* once (lead-action-service.ts, acknowledge; SlaService.process).
THEOREM AlarmsAreKept == Spec => RingsForACause
<1>1. Init => TimerAlarms!AlarmsInit
  BY StartsAsAlarms
<1>2. IInv /\ [Next]_service_vars => [TimerAlarms!AlarmsNext]_(TimerAlarms!alarm_vars)
  BY StepsAreAlarms
<1> QED
  BY <1>1, <1>2, ServiceInvariant, PTL DEF Spec, RingsForACause, TimerAlarms!AlarmsSpec

-----------------------------------------------------------------------------
(* The queue that this model has implements Leases. *)

Timers == Leads \X Kinds

\* A function that differs from another at one place.
LEMMA DiffersAtOne ==
  ASSUME NEW S, NEW w \in S, NEW f, NEW g, NEW x, f = [v \in S |-> f[v]], g = [v \in S |-> g[v]],
         \A v \in S \ {w} : g[v] = f[v], g[w] = x
  PROVE  g = [f EXCEPT ![w] = x]
OBVIOUS

\* A worker that waits for work has none.
IdleRunNothing == \A w \in Workers : at[w] = "idle" => runs[w] = NoJob

LEMMA StartsAsLeases == Init => TimerLeases!LeasesInit /\ IdleRunNothing
<1> SUFFICES ASSUME Init PROVE TimerLeases!LeasesInit /\ IdleRunNothing
  OBVIOUS
<1>1. \A w \in Workers, j \in Timers : runs[w] # j
  BY ServiceAssumption DEF Init, Timers
<1>2. \A l \in Leads, k \in Kinds : JobState(l, k) = "new" /\ tries[l][k] = 0
  BY DEF Init, JobState
<1>3. \A j \in Timers : JobState(j[1], j[2]) = "new" /\ tries[j[1]][j[2]] = 0
  BY <1>2 DEF Timers
<1>4. IdleRunNothing
  BY DEF IdleRunNothing, Init
<1> QED
  BY <1>1, <1>3, <1>4 DEF TimerLeases!LeasesInit, Timers

LEMMA IdleStep ==
  ASSUME IInv, IdleRunNothing, [Next]_service_vars
  PROVE  IdleRunNothing'
<1> USE DEF IdleRunNothing
<1>0. WorkerTypes
  BY TypesInParts DEF IInv
<1>1. CASE UNCHANGED worker_vars
  BY <1>1 DEF worker_vars
<1>2. ASSUME NEW w \in Workers, Leaves(w) PROVE IdleRunNothing'
  BY <1>0, <1>2 DEF Leaves, WorkerTypes
<1>3. ASSUME NEW w \in Workers, at[w] # "idle", Look(w) \/ LockTimer(w) \/ Decide(w)
      PROVE  IdleRunNothing'
  <2>1. runs' = runs /\ at'[w] # "idle" /\ \A v \in Workers : v # w => at'[v] = at[v]
    BY <1>0, <1>3 DEF Look, LockTimer, Decide, WorkerTypes
  <2> QED
    BY <2>1
<1>4. ASSUME NEW w \in Workers, NEW l \in Leads, NEW k \in Kinds, Claim(w, l, k)
      PROVE  IdleRunNothing'
  BY <1>0, <1>4 DEF Claim, WorkerTypes
<1>5. ASSUME NEW l \in Leads, TurnStep(l) \/ Commit(l) \/ ScheduleFollowup(l) \/ IntakeAgain(l)
      PROVE  UNCHANGED worker_vars
  BY <1>5 DEF TurnStep, TurnEnds, Reply, Handoff, OptOut, NoSalesperson, AlreadyAssigned, Assign, Qualified,
              Converse, Qualify, Count, Leave, TurnFails, RollBack, Commit, ScheduleFollowup, IntakeAgain
<1>6. ASSUME NEW l \in Leads, Victim(l)
      PROVE  UNCHANGED worker_vars \/ \E w \in Workers : Leaves(w)
  BY <1>6 DEF Victim, Aborted, RollBack, Retry
<1>7. ASSUME NEW w \in Workers, Finish(w) \/ Fail(w) \/ Crash(w)
      PROVE  Leaves(w)
  BY <1>7 DEF Finish, Fail, Crash, Retry
<1>8. ASSUME NEW w \in Workers, Lapse(w) PROVE UNCHANGED worker_vars
  BY <1>8 DEF Lapse
<1>9. ASSUME NEW l \in Leads, NEW k \in Kinds, Expire(l, k) PROVE UNCHANGED worker_vars
  BY <1>9 DEF Expire
<1>10. ASSUME NEW l \in Leads, NEW r \in Requests, Request(l, r) PROVE UNCHANGED worker_vars
  BY <1>10 DEF Request
<1>11. ASSUME NEW w \in Workers, Look(w) \/ LockTimer(w) \/ Decide(w) PROVE at[w] # "idle"
  BY <1>11 DEF Look, LockTimer, Decide
<1> QED
  BY <1>1, <1>2, <1>3, <1>4, <1>5, <1>6, <1>7, <1>8, <1>9, <1>10, <1>11
     DEF Next, WorkerStep, JobStep, service_vars

\* A step that is not about jobs and who has them.
LEMMA NoLease ==
  ASSUME UNCHANGED <<job, tries, lease, runs>>
  PROVE  UNCHANGED TimerLeases!lease_vars
<1>1. \A l \in Leads, k \in Kinds : JobState(l, k)' = JobState(l, k)
  BY DEF JobState
<1>2. \A w \in Workers, l \in Leads, k \in Kinds : Fenced(w, l, k)' = Fenced(w, l, k)
  BY DEF Fenced
<1>3. \A j \in Timers : /\ JobState(j[1], j[2])' = JobState(j[1], j[2])
                        /\ \A w \in Workers : Fenced(w, j[1], j[2])' = Fenced(w, j[1], j[2])
  BY <1>1, <1>2 DEF Timers
<1> QED
  BY <1>3 DEF TimerLeases!lease_vars, Timers

\* Jobs that are scheduled, and jobs that are cancelled.
LEMMA SchedulingIsOrder ==
  ASSUME IInv, UNCHANGED <<tries, lease, runs>>,
         \A l \in Leads, k \in Kinds :
           \/ job'[l][k] = job[l][k]
           \/ job[l][k] = "none" /\ job'[l][k] = "pending"
           \/ job[l][k] \in {"pending", "processing", "dead_lettered"} /\ job'[l][k] = "cancelled"
  PROVE  TimerLeases!Order
<1>1. \A l \in Leads, k \in Kinds :
        /\ JobState(l, k)' \in {"new", "open", "over", "withdrawn"}
        /\ JobState(l, k)' # JobState(l, k) =>
             <<JobState(l, k), JobState(l, k)'>>
               \in {<<"new", "open">>} \cup ({"open", "over"} \X {"withdrawn"})
        /\ \A w \in Workers : Fenced(w, l, k)' <=> Fenced(w, l, k) /\ JobState(l, k)' = JobState(l, k)
  BY DEF JobState, Fenced
<1> DEFINE st == [j \in Timers |-> JobState(j[1], j[2])]
           holds == [w \in Workers |-> {j \in Timers : runs[w] = j /\ Fenced(w, j[1], j[2])}]
<1>2. \A j \in Timers :
        /\ JobState(j[1], j[2])' \in {"new", "open", "over", "withdrawn"}
        /\ JobState(j[1], j[2])' # JobState(j[1], j[2]) =>
             <<JobState(j[1], j[2]), JobState(j[1], j[2])'>>
               \in {<<"new", "open">>} \cup ({"open", "over"} \X {"withdrawn"})
        /\ \A w \in Workers : Fenced(w, j[1], j[2])' <=> Fenced(w, j[1], j[2]) /\ JobState(j[1], j[2])' = JobState(j[1], j[2])
  BY <1>1 DEF Timers
<1>3. st' \in [Timers -> {"new", "open", "over", "withdrawn"}]
  BY <1>2
<1>4. \A j \in Timers : st'[j] # st[j] => <<st[j], st'[j]>> \in TimerLeases!Orders(j)
  <2>1. ASSUME NEW j \in Timers
        PROVE  TimerLeases!Orders(j) = {<<"new", "open">>} \cup ({"open", "over"} \X {"withdrawn"})
    BY DEF TimerLeases!Orders, Timers
  <2>2. \A j \in Timers : st[j] = JobState(j[1], j[2]) /\ st'[j] = JobState(j[1], j[2])'
    OBVIOUS
  <2> HIDE DEF st
  <2> QED
    BY <1>2, <2>1, <2>2
<1>5. holds' = [w \in Workers |-> {j \in holds[w] : st'[j] = st[j]}]
  BY <1>2
<1>6. UNCHANGED <<[j \in Timers |-> tries[j[1]][j[2]]], [w \in Workers |-> {j \in Timers : runs[w] = j}]>>
  OBVIOUS
<1> QED
  BY <1>3, <1>4, <1>5, <1>6, Zenon DEF TimerLeases!Order, Timers

LEMMA CancellingIsOrder ==
  ASSUME IInv, NEW l \in Leads, NEW K, CancelTimers(l, K), UNCHANGED runs
  PROVE  TimerLeases!Order
<1>0. QueueTypes /\ TimersHaveJobs
  BY TypesInParts DEF IInv
<1>1. /\ job' = [job EXCEPT ![l] = [k \in Kinds |->
           IF k \in {i \in K \cap Kinds : timer[l][i] = "scheduled"} /\ job[l][k] # "completed"
           THEN "cancelled" ELSE job[l][k]]]
      /\ UNCHANGED <<tries, lease>>
  BY DEF CancelTimers
<1>2. \A m \in Leads, k \in Kinds :
        job'[m][k] = job[m][k] \/ (m = l /\ timer[m][k] = "scheduled" /\ job'[m][k] = "cancelled")
  BY <1>0, <1>1 DEF QueueTypes
<1>3. \A m \in Leads, k \in Kinds :
        job'[m][k] = job[m][k]
        \/ (job[m][k] \in {"pending", "processing", "dead_lettered"} /\ job'[m][k] = "cancelled")
  BY <1>0, <1>2 DEF TimersHaveJobs
<1> QED
  BY <1>1, <1>3, SchedulingIsOrder

LEMMA ArmingIsOrder ==
  ASSUME IInv, NEW l \in Leads, NEW K, NEW C, Arm(l, K, C), UNCHANGED runs
  PROVE  TimerLeases!Order
<1>0. QueueTypes /\ TimersHaveJobs
  BY TypesInParts DEF IInv
<1> DEFINE new == {k \in K \cap Kinds : timer[l][k] = "none"}
           waiting == {k \in C \cap Kinds : timer[l][k] = "scheduled"}
<1>1. /\ job' = [job EXCEPT ![l] = [k \in Kinds |->
           CASE k \in new -> "pending"
             [] k \in waiting /\ job[l][k] # "completed" -> "cancelled"
             [] OTHER -> job[l][k]]]
      /\ UNCHANGED <<tries, lease>>
  BY DEF Arm
<1>2. \A m \in Leads, k \in Kinds :
        \/ job'[m][k] = job[m][k]
        \/ m = l /\ timer[m][k] = "none" /\ job'[m][k] = "pending"
        \/ m = l /\ timer[m][k] = "scheduled" /\ job'[m][k] = "cancelled"
  BY <1>0, <1>1 DEF QueueTypes
<1>3. \A m \in Leads, k \in Kinds :
        \/ job'[m][k] = job[m][k]
        \/ job[m][k] = "none" /\ job'[m][k] = "pending"
        \/ job[m][k] \in {"pending", "processing", "dead_lettered"} /\ job'[m][k] = "cancelled"
  BY <1>0, <1>2 DEF TimersHaveJobs
<1> QED
  BY <1>1, <1>3, SchedulingIsOrder

\* A worker that claims a job.
LEMMA ClaimsAreTaken ==
  ASSUME IInv, IdleRunNothing, NEW w \in Workers, NEW l \in Leads, NEW k \in Kinds, Claim(w, l, k)
  PROVE  TimerLeases!Take(w, {<<l, k>>})
<1> DEFINE c == <<l, k>>
<1>0. QueueTypes /\ WorkerTypes
  BY TypesInParts DEF IInv
<1>1. /\ job' = [job EXCEPT ![l][k] = "processing"] /\ job[l][k] = "pending"
      /\ tries' = [tries EXCEPT ![l][k] = @ + 1] /\ lease' = [lease EXCEPT ![l][k] = w]
      /\ runs' = [runs EXCEPT ![w] = c] /\ runs[w] = NoJob
  BY DEF Claim, IdleRunNothing
<1>2. \A m \in Leads, i \in Kinds :
        /\ job'[m][i] = IF <<m, i>> = c THEN "processing" ELSE job[m][i]
        /\ tries'[m][i] = IF <<m, i>> = c THEN tries[m][i] + 1 ELSE tries[m][i]
        /\ lease'[m][i] = IF <<m, i>> = c THEN w ELSE lease[m][i]
  BY <1>0, <1>1 DEF QueueTypes
<1>3. \A m \in Leads, i \in Kinds :
        /\ JobState(m, i)' = JobState(m, i) /\ (<<m, i>> = c => JobState(m, i) = "open")
        /\ Fenced(w, l, k)'
        /\ \A v \in Workers : v # w => (Fenced(v, m, i)' <=> Fenced(v, m, i) /\ <<m, i>> # c)
  BY <1>1, <1>2 DEF JobState, Fenced
<1>4. \A j \in Timers :
        /\ JobState(j[1], j[2])' = JobState(j[1], j[2]) /\ (j = c => JobState(j[1], j[2]) = "open")
        /\ tries'[j[1]][j[2]] = IF j \in {c} THEN tries[j[1]][j[2]] + 1 ELSE tries[j[1]][j[2]]
        /\ \A v \in Workers : v # w => (Fenced(v, j[1], j[2])' <=> Fenced(v, j[1], j[2]) /\ j # c)
  BY <1>2, <1>3 DEF Timers
<1>5. \A j \in Timers : runs[w] # j /\ (runs'[w] = j <=> j = c)
  BY <1>0, <1>1, ServiceAssumption DEF Timers, WorkerTypes
<1>6. \A v \in Workers : v # w => runs'[v] = runs[v]
  BY <1>0, <1>1 DEF WorkerTypes
<1>7. c \in Timers
  BY DEF Timers
<1> DEFINE has == [v \in Workers |-> {j \in Timers : runs[v] = j}]
           holds == [v \in Workers |-> {j \in Timers : runs[v] = j /\ Fenced(v, j[1], j[2])}]
<1>8. has[w] = {} /\ has' = [has EXCEPT ![w] = {c}]
  <2>1. has[w] = {} /\ has'[w] = {c} /\ \A v \in Workers \ {w} : has'[v] = has[v]
    BY <1>5, <1>6, <1>7
  <2>2. has = [v \in Workers |-> has[v]] /\ has' = [v \in Workers |-> has'[v]]
    OBVIOUS
  <2> HIDE DEF has
  <2> QED
    BY <2>1, <2>2, DiffersAtOne
<1>9. holds' = [v \in Workers |-> IF v = w THEN {c} ELSE holds[v] \ {c}]
  <2>1. holds'[w] = {c}
    BY <1>3, <1>5, <1>7
  <2>2. ASSUME NEW v \in Workers, v # w PROVE holds'[v] = holds[v] \ {c}
    BY <2>2, <1>4, <1>6
  <2> QED
    BY <2>1, <2>2
<1>10. [j \in Timers |-> JobState(j[1], j[2])]' = [j \in Timers |-> JobState(j[1], j[2])]
  BY <1>4
<1>11. \A j \in {c} : [i \in Timers |-> JobState(i[1], i[2])][j] = "open"
  BY <1>4, <1>7
<1>12. [j \in Timers |-> tries[j[1]][j[2]]]'
         = [j \in Timers |-> IF j \in {c} THEN [i \in Timers |-> tries[i[1]][i[2]]][j] + 1
                                          ELSE [i \in Timers |-> tries[i[1]][i[2]]][j]]
  BY <1>4
<1> QED
  BY <1>8, <1>9, <1>10, <1>11, <1>12 DEF TimerLeases!Take, Timers

\* A worker that leaves its job, or loses its lease.
LEMMA LeavingKeepsLeases ==
  ASSUME IInv, NEW w \in Workers, UNCHANGED tries, runs' \in [Workers -> Timers \cup {NoJob}],
         runs'[w] \in {runs[w], NoJob}, \A v \in Workers \ {w} : runs'[v] = runs[v],
         \A v \in Workers \ {w}, j \in Timers : Fenced(v, j[1], j[2])' <=> Fenced(v, j[1], j[2]),
         runs'[w] = runs[w] => \A j \in Timers : runs[w] = j => ~Fenced(w, j[1], j[2])',
         \A j \in Timers : JobState(j[1], j[2])' # JobState(j[1], j[2]) =>
            /\ runs[w] = j /\ Fenced(w, j[1], j[2])
            /\ JobState(j[1], j[2])' = "over"
  PROVE  TimerLeases!Leave(w)
<1> USE ServiceAssumption DEF Timers
<1>0. runs \in [Workers -> Timers \cup {NoJob}]
  BY TypesInParts DEF IInv, WorkerTypes
<1> DEFINE state_ == [j \in Timers |-> JobState(j[1], j[2])]
           has == [v \in Workers |-> {j \in Timers : runs[v] = j}]
           holds == [v \in Workers |-> {j \in Timers : runs[v] = j /\ Fenced(v, j[1], j[2])}]
<1>1. has'[w] \subseteq has[w] /\ holds'[w] = {}
  BY <1>0
<1>2. has' = [has EXCEPT ![w] = has'[w]]
  <2>1. /\ \A v \in Workers \ {w} : has'[v] = has[v]
        /\ has = [v \in Workers |-> has[v]] /\ has' = [v \in Workers |-> has'[v]]
    OBVIOUS
  <2> HIDE DEF has
  <2> QED
    BY <2>1, DiffersAtOne
<1>3. holds' = [holds EXCEPT ![w] = holds'[w]]
  <2>1. \A v \in Workers \ {w} : holds'[v] = holds[v]
    BY <1>0
  <2>2. holds = [v \in Workers |-> holds[v]] /\ holds' = [v \in Workers |-> holds'[v]]
    OBVIOUS
  <2> HIDE DEF holds
  <2> QED
    BY <2>1, <2>2, DiffersAtOne
<1>4. state_' = [j \in Timers |-> IF j \in holds[w] \ holds'[w] /\ state_'[j] # state_[j]
                                  THEN "over" ELSE state_[j]]
  BY <1>1
<1>5. [j \in Timers |-> tries[j[1]][j[2]]]' = [j \in Timers |-> tries[j[1]][j[2]]]
  OBVIOUS
<1>6. holds'[w] \subseteq holds[w] \cap has'[w]
  BY <1>1
<1> QED
  BY <1>1, <1>2, <1>3, <1>4, <1>5, <1>6 DEF TimerLeases!Leave

\* Each step of a worker that ends its work on a job, or takes the job away.
LEMMA WorkersKeepLeases ==
  ASSUME IInv, NEW w \in Workers, at[w] # "idle", Finish(w) \/ Retry(w) \/ Crash(w) \/ Lapse(w)
  PROVE  TimerLeases!Leave(w)
<1>0. QueueTypes /\ WorkersRunTimers /\ runs \in [Workers -> Timers \cup {NoJob}]
  BY TypesInParts DEF IInv, WorkerTypes, Timers
<1>01. PICK l \in Leads, k \in Kinds : runs[w] = <<l, k>>
  BY <1>0 DEF WorkersRunTimers
<1>1. runs[w] = <<l, k>> /\ runs[w][1] = l /\ runs[w][2] = k /\ <<l, k>> \in Timers
  BY <1>01 DEF Timers
\* The job of the worker is all that a step may change, and that behind the fence.
<1>2. ASSUME UNCHANGED <<tries, lease>>, runs' = [runs EXCEPT ![w] = NoJob],
             \/ UNCHANGED job
             \/ Fenced(w, l, k) /\ \E s \in {"completed", "pending", "dead_lettered"} : job' = [job EXCEPT ![l][k] = s]
      PROVE  TimerLeases!Leave(w)
  <2>1. \A m \in Leads, i \in Kinds :
          \/ job'[m][i] = job[m][i]
          \/ m = l /\ i = k /\ Fenced(w, l, k) /\ job[m][i] = "processing"
             /\ job'[m][i] \in {"completed", "pending", "dead_lettered"}
    BY <1>0, <1>1, <1>2 DEF QueueTypes, Fenced
  <2>2. \A m \in Leads, i \in Kinds : JobState(m, i)' # JobState(m, i) =>
          m = l /\ i = k /\ Fenced(w, l, k) /\ JobState(m, i)' = "over"
    BY <2>1 DEF JobState
  <2>3. \A m \in Leads, i \in Kinds : \A v \in Workers \ {w} : Fenced(v, m, i)' <=> Fenced(v, m, i)
    BY <1>2, <2>1 DEF Fenced
  <2>4. \A j \in Timers : JobState(j[1], j[2])' # JobState(j[1], j[2]) =>
          /\ runs[w] = j /\ Fenced(w, j[1], j[2])
          /\ JobState(j[1], j[2])' = "over"
    BY <1>1, <2>2 DEF Timers
  <2>5. \A v \in Workers \ {w}, j \in Timers : Fenced(v, j[1], j[2])' <=> Fenced(v, j[1], j[2])
    BY <2>3 DEF Timers
  <2>6. /\ runs' \in [Workers -> Timers \cup {NoJob}] /\ runs'[w] = NoJob
        /\ \A v \in Workers \ {w} : runs'[v] = runs[v]
    BY <1>0, <1>2
  <2>7. NoJob # runs[w]
    BY <1>1, ServiceAssumption DEF Timers
  <2> QED
    BY <1>2, <2>4, <2>5, <2>6, <2>7, LeavingKeepsLeases
<1>3. CASE Finish(w) \/ Retry(w) \/ Crash(w)
  BY <1>1, <1>2, <1>3 DEF Finish, Retry, Crash, Leaves, queue_vars
<1>4. CASE Lapse(w)
  <2>1. /\ Fenced(w, l, k) /\ UNCHANGED <<tries, runs>>
        /\ job' = [job EXCEPT ![l][k] = "pending"] /\ lease' = [lease EXCEPT ![l][k] = Nobody]
    BY <1>1, <1>4 DEF Lapse, worker_vars
  <2>2. \A m \in Leads, i \in Kinds :
          /\ job'[m][i] = IF m = l /\ i = k THEN "pending" ELSE job[m][i]
          /\ lease'[m][i] = IF m = l /\ i = k THEN Nobody ELSE lease[m][i]
    BY <1>0, <2>1 DEF QueueTypes
  <2>3. \A m \in Leads, i \in Kinds : JobState(m, i)' = JobState(m, i)
    BY <1>1, <2>1, <2>2 DEF JobState, Fenced
  <2>4. \A j \in Timers : JobState(j[1], j[2])' = JobState(j[1], j[2])
    BY <2>3 DEF Timers
  <2>5. ~Fenced(w, l, k)'
    BY <1>1, <2>2 DEF Fenced
  <2>6. \A m \in Leads, i \in Kinds : \A v \in Workers \ {w} : Fenced(v, m, i)' <=> Fenced(v, m, i)
    <3>1. lease[l][k] = w /\ lease'[l][k] = Nobody /\ \A v \in Workers : v # Nobody
      BY <2>1, <2>2, ServiceAssumption DEF Fenced
    <3>2. ASSUME NEW m \in Leads, NEW i \in Kinds, NEW v \in Workers, v # w
          PROVE  Fenced(v, m, i)' <=> Fenced(v, m, i)
      BY <2>2, <3>1, <3>2 DEF Fenced
    <3> QED
      BY <3>2
  <2>7. \A v \in Workers \ {w}, j \in Timers : Fenced(v, j[1], j[2])' <=> Fenced(v, j[1], j[2])
    BY <2>6 DEF Timers
  <2>8. runs' \in [Workers -> Timers \cup {NoJob}] /\ \A v \in Workers \ {w} : runs'[v] = runs[v]
    BY <1>0, <2>1
  <2>9. \A j \in Timers : runs[w] = j => ~Fenced(w, j[1], j[2])'
    BY <1>1, <2>5
  <2> QED
    BY <2>1, <2>4, <2>7, <2>8, <2>9, LeavingKeepsLeases
<1> QED
  BY <1>3, <1>4

LEMMA StepKeepsLeases ==
  ASSUME IInv, IdleRunNothing, [Next]_service_vars
  PROVE  [TimerLeases!LeasesNext]_(TimerLeases!lease_vars)
<1> USE DEF queue_vars, worker_vars
<1> DEFINE unchanged == UNCHANGED <<job, tries, lease, runs>>
           Goal == [TimerLeases!LeasesNext]_(TimerLeases!lease_vars)
<1>1. CASE unchanged
  BY <1>1, NoLease
\* Turns and requests.
<1>2. ASSUME NEW l \in Leads,
             AlreadyAssigned(l) \/ OptOut(l) \/ Commit(l)
      PROVE  Goal
  <2>1. UNCHANGED runs /\ \E K \in {{"followup"}, Kinds, CancelledBy(request[l])} : CancelTimers(l, K)
    BY <1>2 DEF AlreadyAssigned, Qualified, OptOut, Commit
  <2> QED
    BY <2>1, CancellingIsOrder DEF TimerLeases!LeasesNext
<1>3. ASSUME NEW l \in Leads,
             NoSalesperson(l) \/ ScheduleFollowup(l) \/ \E p \in People : Assign(l, p)
      PROVE  Goal
  <2>1. UNCHANGED runs /\ \E K \in {{}, {"stale"}, {"followup"}, AssignmentTimers}, C \in {{}, {"followup"}} : Arm(l, K, C)
    BY <1>3 DEF NoSalesperson, Assign, Qualified, ScheduleFollowup
  <2> QED
    BY <2>1, ArmingIsOrder DEF TimerLeases!LeasesNext
<1>4. ASSUME NEW l \in Leads,
             \/ Reply(l) \/ Handoff(l) \/ Converse(l) \/ Qualify(l) \/ Count(l) \/ Leave(l) \/ TurnFails(l)
             \/ IntakeAgain(l) \/ \E r \in Requests : Request(l, r)
      PROVE  unchanged
  BY <1>4 DEF Reply, Handoff, Converse, Qualify, Count, Leave, TurnFails, RollBack, IntakeAgain, Request
\* Workers.
<1>5. ASSUME NEW w \in Workers, at[w] # "idle", Finish(w) \/ Retry(w) \/ Crash(w) \/ Lapse(w)
      PROVE  Goal
  BY <1>5, WorkersKeepLeases DEF TimerLeases!LeasesNext
<1>6. ASSUME NEW w \in Workers, NEW l \in Leads, NEW k \in Kinds, Claim(w, l, k)
      PROVE  Goal
  <2>1. TimerLeases!Take(w, {<<l, k>>}) /\ {<<l, k>>} \in SUBSET (Leads \X Kinds)
    BY <1>6, ClaimsAreTaken
  <2> QED
    BY <2>1 DEF TimerLeases!LeasesNext
<1>7. ASSUME NEW w \in Workers, Look(w) \/ LockTimer(w) \/ Decide(w)
      PROVE  unchanged
  BY <1>7 DEF Look, LockTimer, Decide
<1>8. ASSUME NEW w \in Workers, Finish(w) \/ Fail(w) \/ Crash(w) \/ Lapse(w)
      PROVE  Goal
  BY <1>5, <1>8 DEF Finish, Fail, Crash, Lapse
<1>9. ASSUME NEW l \in Leads, Victim(l)
      PROVE  Goal
  <2>1. unchanged \/ \E w \in Workers : at[w] # "idle" /\ Retry(w)
    BY <1>9 DEF Victim, WorkerInCycle, Aborted, RollBack
  <2> QED
    BY <1>1, <1>5, <2>1
\* A lease that nobody had.
<1>10. ASSUME NEW l \in Leads, NEW k \in Kinds, Expire(l, k)
       PROVE  UNCHANGED TimerLeases!lease_vars
  <2>0. QueueTypes
    BY TypesInParts DEF IInv
  <2>1. /\ UNCHANGED <<tries, runs>> /\ job[l][k] = "processing"
        /\ \A m \in Leads, i \in Kinds :
             /\ job'[m][i] = IF m = l /\ i = k THEN "pending" ELSE job[m][i]
             /\ lease'[m][i] = IF m = l /\ i = k THEN Nobody ELSE lease[m][i]
        /\ \A w \in Workers : runs[w] # <<l, k>>
    BY <1>10, <2>0 DEF Expire, QueueTypes
  <2>2. \A m \in Leads, i \in Kinds :
          /\ JobState(m, i)' = JobState(m, i)
          /\ \A w \in Workers : runs[w] = <<m, i>> => (Fenced(w, m, i)' <=> Fenced(w, m, i))
    BY <2>1 DEF JobState, Fenced
  <2>3. \A j \in Timers :
          /\ JobState(j[1], j[2])' = JobState(j[1], j[2])
          /\ \A w \in Workers : runs[w] = j => (Fenced(w, j[1], j[2])' <=> Fenced(w, j[1], j[2]))
    BY <2>2 DEF Timers
  <2> QED
    BY <2>1, <2>3 DEF TimerLeases!lease_vars, Timers
<1>11. CASE UNCHANGED service_vars
  BY <1>1, <1>11 DEF service_vars
<1> HIDE DEF Goal, unchanged
<1>12. ASSUME NEW l \in Leads, TurnStep(l) \/ Commit(l) \/ Victim(l) \/ ScheduleFollowup(l) \/ IntakeAgain(l)
                               \/ \E r \in Requests : Request(l, r)
       PROVE  Goal
  BY <1>1, <1>2, <1>3, <1>4, <1>9, <1>12 DEF TurnStep, TurnEnds, Goal
<1>13. ASSUME NEW w \in Workers, WorkerStep(w) \/ Fail(w) \/ Crash(w) \/ Lapse(w)
       PROVE  Goal
  BY <1>1, <1>6, <1>7, <1>8, <1>13 DEF WorkerStep, JobStep, Goal
<1> QED
  BY <1>10, <1>11, <1>12, <1>13 DEF Next, Goal

\* Jobs of timers are scheduled and cancelled, several at once, whatever workers are at
\* them; they are taken, held and completed as Leases says, and a worker whose job was
\* cancelled or claimed again has no say in what becomes of it.
THEOREM TimersKeepLeases == Spec => KeepsLeases
<1>1. Init => TimerLeases!LeasesInit /\ IInv /\ IdleRunNothing
  BY StartsAsLeases, InitIsGood
<1>2. IInv /\ IdleRunNothing /\ [Next]_service_vars
        => [TimerLeases!LeasesNext]_(TimerLeases!lease_vars)
  BY StepKeepsLeases
<1>3. IInv /\ IdleRunNothing /\ [Next]_service_vars => (IInv /\ IdleRunNothing)'
  BY NextKeeps, IdleStep
<1> QED
  BY <1>1, <1>2, <1>3, PTL DEF Spec, KeepsLeases, TimerLeases!LeasesSpec
=============================================================================
