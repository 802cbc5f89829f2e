---------------------------- MODULE ReportsProofs ----------------------------
(***************************************************************************)
(* That a report is announced once, and only one that was sent: for any     *)
(* dates, workers, clocks and faults.                                       *)
(*                                                                          *)
(* A command exists exactly for a report that was sent (SentMeansCommand).  *)
(* It stays so because whoever is about to send a report holds its row      *)
(* alone and found it scheduled (SendersHold): cancelling, a job that is    *)
(* run twice, and the chain that begins the next one all wait for the row.  *)
(* The clocks are left out; when a report is due decides nothing here.      *)
(* Another part is about the clocks alone: the instant that a report's      *)
(* date and hour are converted to is the right one.  The last part shows    *)
(* that the reports' jobs keep Leases.                                      *)
(***************************************************************************)
EXTENDS Reports, TLAPS

Places == {"idle", "claimed", "sending", "chaining", "completed", "retry"}

\* Reports, commands and workers, without the clock and the jobs.
Types ==
  /\ report \in [Dates -> {"none", "scheduled", "sent", "cancelled"}]
  /\ command \in [Dates -> {"none", "pending", "delivered"}] /\ listed \in [Dates -> Nat]
  /\ runs \in [Workers -> Dates \cup {0}] /\ at \in [Workers -> Places]
  /\ caller \in Dates \cup {0}

\* A worker that is about to send has a report that is scheduled, and has it alone.
SendersHold ==
  /\ \A w \in Workers : at[w] # "idle" => runs[w] \in Dates
  /\ \A w \in Workers : at[w] \in {"sending", "chaining"} => report[runs[w]] = "scheduled"
  /\ \A v, w \in Workers :
       {at[v], at[w]} \subseteq {"sending", "chaining"} /\ runs[v] = runs[w] => v = w

\* A report that was sent has a command, and only such a one.
SentMeansCommand == \A d \in Dates :
  /\ command[d] # "none" <=> report[d] = "sent"
  /\ listed[d] <= 1
  /\ listed[d] > 0 => command[d] # "none"

IInv == Types /\ SendersHold /\ SentMeansCommand

-----------------------------------------------------------------------------
LEMMA InitIsGood == Init => IInv
<1> SUFFICES ASSUME Init PROVE IInv
  OBVIOUS
<1>1. Types /\ SendersHold
  BY DEF Init, Types, Places, SendersHold
<1>2. SentMeansCommand
  BY DEF Init, SentMeansCommand
<1> QED
  BY <1>1, <1>2 DEF IInv

\* Steps that touch neither reports, commands nor where workers are.
LEMMA OthersKeep ==
  ASSUME IInv, UNCHANGED <<report, command, listed, runs, at>>, caller' \in Dates \cup {0}
  PROVE  IInv'
BY DEF IInv, Types, SendersHold, SentMeansCommand

\* A worker that moves, but not to a sending of its own.
LEMMA WorkerMoves ==
  ASSUME IInv, NEW w \in Workers, NEW p \in Places \ {"sending", "chaining"}, NEW r \in Dates \cup {0},
         at' = [at EXCEPT ![w] = p], runs' = [runs EXCEPT ![w] = r], p # "idle" => r \in Dates,
         UNCHANGED <<report, command, listed, caller>>
  PROVE  IInv'
<1>1. Types'
  BY DEF IInv, Types, Places
<1>2. at'[w] = p /\ runs'[w] = r /\ \A v \in Workers : v # w => at'[v] = at[v] /\ runs'[v] = runs[v]
  BY DEF IInv, Types
<1>3. SendersHold'
  BY <1>2 DEF IInv, SendersHold
<1> QED
  BY <1>1, <1>3 DEF IInv, SentMeansCommand

\* A report nobody is sending, or one of a worker that no longer does, changes.
LEMMA ReportChanges ==
  ASSUME IInv, NEW d \in Dates, ~ReportLocked(d),
         NEW s \in {"none", "scheduled", "cancelled"}, report[d] # "sent",
         report' = [report EXCEPT ![d] = s],
         UNCHANGED <<command, listed>>
  PROVE  /\ report' \in [Dates -> {"none", "scheduled", "sent", "cancelled"}]
         /\ \A w \in Workers : at[w] \in {"sending", "chaining"} => report'[runs[w]] = "scheduled"
         /\ SentMeansCommand'
<1>1. report' \in [Dates -> {"none", "scheduled", "sent", "cancelled"}] /\ report'[d] = s
      /\ \A e \in Dates : e # d => report'[e] = report[e]
  BY DEF IInv, Types
<1>2. \A w \in Workers : at[w] \in {"sending", "chaining"} => runs[w] \in Dates /\ runs[w] # d
  BY DEF IInv, SendersHold, ReportLocked
<1>3. SentMeansCommand'
  BY <1>1 DEF IInv, SentMeansCommand
<1> QED
  BY <1>1, <1>2, <1>3 DEF IInv, SendersHold

-----------------------------------------------------------------------------
(* The desk. *)

LEMMA PlanKeeps == ASSUME IInv, Plan PROVE IInv'
<1>1. caller \in Dates /\ ~ReportLocked(caller) /\ caller' = 0 /\ UNCHANGED <<command, listed, runs, at>>
  BY DEF IInv, Types, Plan, ClientLocked, worker_vars, outbox_vars
<1>2. CASE report[caller] = "none"
  <2>1. report' = [report EXCEPT ![caller] = "scheduled"]
    BY <1>2 DEF Plan, Schedule
  <2>2. /\ report' \in [Dates -> {"none", "scheduled", "sent", "cancelled"}]
        /\ \A w \in Workers : at[w] \in {"sending", "chaining"} => report'[runs[w]] = "scheduled"
        /\ SentMeansCommand'
    BY <1>1, <1>2, <2>1, ReportChanges
  <2> QED
    BY <1>1, <2>2 DEF IInv, Types, SendersHold
<1>3. CASE report[caller] # "none"
  <2>1. report' = report
    BY <1>3 DEF Plan, Schedule
  <2> QED
    BY <1>1, <2>1, OthersKeep
<1> QED
  BY <1>2, <1>3

LEMMA CancelKeeps == ASSUME IInv, NEW d \in Dates, CancelDailyReport(d) PROVE IInv'
<1>1. /\ report[d] = "scheduled" /\ ~ReportLocked(d) /\ report' = [report EXCEPT ![d] = "cancelled"]
      /\ UNCHANGED <<command, listed, runs, at, caller>>
  BY DEF CancelDailyReport, worker_vars, outbox_vars
<1>2. /\ report' \in [Dates -> {"none", "scheduled", "sent", "cancelled"}]
      /\ \A w \in Workers : at[w] \in {"sending", "chaining"} => report'[runs[w]] = "scheduled"
      /\ SentMeansCommand'
  BY <1>1, ReportChanges
<1> QED
  BY <1>1, <1>2 DEF IInv, Types, SendersHold

LEMMA DeskKeeps == ASSUME IInv, DeskStep \/ Tick PROVE IInv'
<1>1. CASE Plan
  BY <1>1, PlanKeeps
<1>2. CASE \E d \in Dates : CancelDailyReport(d)
  BY <1>2, CancelKeeps
<1>3. CASE Tick \/ Deactivate \/ \E d \in Dates : Ask(d)
  <2>1. UNCHANGED <<report, command, listed, runs, at>>
    BY <1>3 DEF Tick, Deactivate, Ask, worker_vars, outbox_vars
  <2>2. caller' \in Dates \cup {0}
    BY <1>3 DEF Tick, Deactivate, Ask, IInv, Types
  <2> QED
    BY <2>1, <2>2, OthersKeep
<1> QED
  BY <1>1, <1>2, <1>3 DEF DeskStep

-----------------------------------------------------------------------------
(* The worker and its job. *)

\* A job is taken, dropped, or tried again later.
LEMMA MovesKeep ==
  ASSUME IInv, NEW w \in Workers,
         \/ \E d \in Dates : Claim(w, d)
         \/ NotScheduled(w) \/ Throws(w) \/ VictimWorker(w) \/ VictimChain(w) \/ Crash(w) \/ Settle(w)
  PROVE  IInv'
<1>0. runs[w] \in Dates \cup {0} /\ (at[w] # "idle" => runs[w] \in Dates) /\ runs = [runs EXCEPT ![w] = runs[w]]
  BY DEF IInv, Types, SendersHold
<1>1. UNCHANGED <<report, command, listed, caller>>
  BY DEF Claim, NotScheduled, Throws, VictimWorker, VictimChain, Crash, Settle, outbox_vars
<1>2. CASE \E d \in Dates : Claim(w, d)
  <2>1. PICK d \in Dates : Claim(w, d)
    BY <1>2
  <2>2. at' = [at EXCEPT ![w] = "claimed"] /\ runs' = [runs EXCEPT ![w] = d]
    BY <2>1 DEF Claim
  <2> QED
    BY <1>1, <2>2, WorkerMoves DEF Places
<1>3. CASE NotScheduled(w) \/ Throws(w) \/ VictimWorker(w) \/ VictimChain(w)
  <2>1. PICK p \in {"completed", "retry"} : at' = [at EXCEPT ![w] = p]
    BY <1>3 DEF NotScheduled, Throws, VictimWorker, VictimChain, Comes
  <2>2. at[w] # "idle" /\ runs' = runs
    BY <1>3 DEF NotScheduled, Throws, VictimWorker, VictimChain, Chains, Cycle
  <2>3. runs' = [runs EXCEPT ![w] = runs[w]]
    BY <1>0, <2>2
  <2> QED
    BY <1>0, <1>1, <2>1, <2>2, <2>3, WorkerMoves DEF Places
<1>4. CASE Crash(w) \/ Settle(w)
  <2>1. at' = [at EXCEPT ![w] = "idle"] /\ runs' = [runs EXCEPT ![w] = 0]
    BY <1>4 DEF Crash, Settle, Comes
  <2> QED
    BY <1>1, <2>1, WorkerMoves DEF Places
<1> QED
  BY <1>2, <1>3, <1>4

LEMMA MissingKeeps == ASSUME IInv, NEW w \in Workers, MissingDestination(w) PROVE IInv'
<1>0. at[w] = "claimed" /\ runs[w] \in Dates
  BY DEF MissingDestination, IInv, SendersHold
<1>1. /\ ~ReportLocked(runs[w]) /\ report[runs[w]] = "scheduled"
      /\ report' = [report EXCEPT ![runs[w]] = "cancelled"] /\ at' = [at EXCEPT ![w] = "completed"]
      /\ UNCHANGED <<command, listed, runs, caller>>
  BY DEF MissingDestination, Comes, outbox_vars
<1>2. /\ report' \in [Dates -> {"none", "scheduled", "sent", "cancelled"}]
      /\ \A v \in Workers : at[v] \in {"sending", "chaining"} => report'[runs[v]] = "scheduled"
      /\ SentMeansCommand'
  BY <1>0, <1>1, ReportChanges
<1>3. at' \in [Workers -> Places] /\ at'[w] = "completed" /\ \A v \in Workers : v # w => at'[v] = at[v]
  BY <1>1 DEF IInv, Types, Places
<1>4. SendersHold'
  BY <1>0, <1>1, <1>2, <1>3 DEF IInv, SendersHold
<1> QED
  BY <1>1, <1>2, <1>3, <1>4 DEF IInv, Types

\* The row is free and the report scheduled: the worker has it alone.
LEMMA SummariseKeeps == ASSUME IInv, NEW w \in Workers, Summarise(w) PROVE IInv'
<1>0. at[w] = "claimed" /\ runs[w] \in Dates
  BY DEF Summarise, IInv, SendersHold
<1>1. /\ ~ReportLocked(runs[w]) /\ report[runs[w]] = "scheduled" /\ at' = [at EXCEPT ![w] = "sending"]
      /\ UNCHANGED <<report, command, listed, runs, caller>>
  BY DEF Summarise, outbox_vars
<1>2. at' \in [Workers -> Places] /\ at'[w] = "sending" /\ \A v \in Workers : v # w => at'[v] = at[v]
  BY <1>1 DEF IInv, Types, Places
<1>3. SendersHold'
  BY <1>0, <1>1, <1>2 DEF IInv, SendersHold, ReportLocked
<1> QED
  BY <1>1, <1>2, <1>3 DEF IInv, Types, SentMeansCommand

\* The report is sent with its command; the next one, if it is new, is scheduled.
LEMMA SendKeeps == ASSUME IInv, NEW w \in Workers, SendAndChain(w) PROVE IInv'
<1> DEFINE d == runs[w]
<1>0. at[w] \in {"sending", "chaining"} /\ d \in Dates /\ report[d] = "scheduled"
  BY DEF SendAndChain, HasClient, IInv, SendersHold
<1>1. /\ command' = [command EXCEPT ![d] = "pending"] /\ at' = [at EXCEPT ![w] = "completed"]
      /\ UNCHANGED <<listed, runs, caller>>
  BY DEF SendAndChain, Comes
<1>2. /\ report' \in [Dates -> {"none", "scheduled", "sent", "cancelled"}] /\ report'[d] = "sent"
      /\ \A e \in Dates : e # d => \/ report'[e] = report[e]
                                   \/ report[e] = "none" /\ report'[e] = "scheduled"
  <2>1. CASE report' = [report EXCEPT ![d] = "sent"]
    BY <1>0, <2>1 DEF IInv, Types
  <2>2. CASE /\ report' = [report EXCEPT ![d] = "sent", ![d + 1] = "scheduled"] /\ report[d + 1] = "none"
             /\ d < Last
    <3>1. d + 1 \in Dates /\ d + 1 # d
      BY <1>0, <2>2, ReportsAssumption DEF Dates
    <3> QED
      BY <1>0, <2>2, <3>1 DEF IInv, Types
  <2> QED
    BY <2>1, <2>2 DEF SendAndChain
<1>3. at' \in [Workers -> Places] /\ at'[w] = "completed" /\ \A v \in Workers : v # w => at'[v] = at[v]
  BY <1>1 DEF IInv, Types, Places
<1>4. command' \in [Dates -> {"none", "pending", "delivered"}] /\ command'[d] = "pending"
      /\ \A e \in Dates : e # d => command'[e] = command[e]
  BY <1>0, <1>1 DEF IInv, Types
<1>5. SendersHold'
  <2>1. \A v \in Workers : v # w /\ at[v] \in {"sending", "chaining"} => runs[v] \in Dates /\ runs[v] # d
    BY <1>0 DEF IInv, SendersHold
  <2>2. \A v \in Workers : at'[v] \in {"sending", "chaining"} =>
         v # w /\ at[v] \in {"sending", "chaining"} /\ report'[runs[v]] = "scheduled"
    BY <1>2, <1>3, <2>1 DEF IInv, SendersHold
  <2> QED
    BY <1>0, <1>1, <1>3, <2>2 DEF IInv, SendersHold
<1>6. SentMeansCommand'
  BY <1>0, <1>1, <1>2, <1>4 DEF IInv, SentMeansCommand
<1> QED
  BY <1>1, <1>2, <1>3, <1>4, <1>5, <1>6 DEF IInv, Types

\* It waits for the next report, and holds its own on.
LEMMA WaitKeeps == ASSUME IInv, NEW w \in Workers, WaitForNext(w) PROVE IInv'
<1>1. at[w] = "sending" /\ UNCHANGED <<report, command, listed, runs, caller>>
  BY DEF WaitForNext, outbox_vars
<1>2. at' \in [Workers -> Places] /\ at'[w] = "chaining" /\ \A v \in Workers : v # w => at'[v] = at[v]
  BY DEF WaitForNext, IInv, Types, Places
<1>3. SendersHold'
  BY <1>1, <1>2 DEF IInv, SendersHold
<1> QED
  BY <1>1, <1>2, <1>3 DEF IInv, Types, SentMeansCommand

LEMMA VictimCallerKeeps == ASSUME IInv, NEW w \in Workers, VictimCaller(w) PROVE IInv'
<1>1. UNCHANGED <<report, command, listed, runs, at>> /\ caller' = 0
  BY DEF VictimCaller, worker_vars, outbox_vars
<1> QED
  BY <1>1, OthersKeep

\* The notice of a command is written, again or not.
LEMMA DispatchKeeps == ASSUME IInv, NEW d \in Dates, Dispatch(d) PROVE IInv'
<1>1. /\ command[d] = "pending" /\ listed' = [listed EXCEPT ![d] = 1]
      /\ command' = [command EXCEPT ![d] = "delivered"] \/ command' = command
      /\ UNCHANGED <<report, runs, at, caller>>
  BY DEF Dispatch, Dispatched, worker_vars
<1>2. /\ command' \in [Dates -> {"none", "pending", "delivered"}] /\ command'[d] # "none"
      /\ \A e \in Dates : e # d => command'[e] = command[e]
  BY <1>1 DEF IInv, Types
<1>3. listed' \in [Dates -> Nat] /\ listed'[d] = 1 /\ \A e \in Dates : e # d => listed'[e] = listed[e]
  BY <1>1 DEF IInv, Types
<1>4. SentMeansCommand'
  BY <1>1, <1>2, <1>3 DEF IInv, SentMeansCommand
<1>5. SendersHold'
  BY <1>1 DEF IInv, SendersHold
<1> QED
  BY <1>1, <1>2, <1>3, <1>4, <1>5 DEF IInv, Types

-----------------------------------------------------------------------------
(* The theorems. *)

LEMMA NextKeeps == ASSUME IInv, [Next]_vars PROVE IInv'
<1>1. CASE \E w \in Workers : WorkerStep(w)
  BY <1>1, MovesKeep, MissingKeeps, SummariseKeeps, SendKeeps, WaitKeeps, VictimCallerKeeps DEF WorkerStep
<1>2. CASE DeskStep \/ Tick
  BY <1>2, DeskKeeps
<1>3. CASE \E d \in Dates : Dispatch(d)
  BY <1>3, DispatchKeeps
<1>4. CASE UNCHANGED vars
  <2>1. UNCHANGED <<report, command, listed, runs, at, caller>>
    BY <1>4 DEF vars, worker_vars, outbox_vars
  <2> QED
    BY <2>1, OthersKeep DEF IInv, Types
<1> QED
  BY <1>1, <1>2, <1>3, <1>4 DEF Next

\* The inductive invariant: whoever sends a report has its row, and a command is that
\* of a report that was sent.
THEOREM ReportsInvariant == Spec => []IInv
<1>1. Init => IInv
  BY InitIsGood
<1>2. IInv /\ [Next]_vars => IInv'
  BY NextKeeps
<1> QED
  BY <1>1, <1>2, PTL DEF Spec

\* A report is announced once at most, and only one that was sent and stays so, in
\* whatever order jobs, their repetitions, cancellations and the dispatcher come.
THEOREM ReportsOnce == Spec => []AnnouncedOnce
<1>1. IInv => AnnouncedOnce
  BY DEF IInv, SentMeansCommand, AnnouncedOnce
<1> QED
  BY <1>1, ReportsInvariant, PTL

-----------------------------------------------------------------------------
(* The conversion from what the wall shows to an instant (Instant): five    *)
(* corrections are enough when the offset changes once at most nearby, as   *)
(* the offsets of real zones do.                                            *)

\* Where the corrections stay: the zone's offsets are of a day at most.
Near(reading) == (reading - Day) .. (reading + Day)

\* The offset is a before the instant T and b from then on.
OneChange(reading, T, a, b) ==
  \A t \in Near(reading) : Offset(t) = IF t < T THEN a ELSE b

\* The five corrections as a sequence of candidates, each the reading less the offset
\* that held at the one before.
LEMMA InstantUnfolded ==
  ASSUME NEW reading \in Int, \A t \in Int : Offset(t) \in Int
  PROVE  \E x \in [0 .. 5 -> Int] :
           /\ x[0] = reading /\ Instant(reading) = x[5]
           /\ \A n \in 1 .. 5 : x[n] = reading - Offset(x[n - 1])
<1> DEFINE next(t) == t + (reading - Local(t))
           x1 == next(reading)
           x2 == next(x1)
           x3 == next(x2)
           x4 == next(x3)
           x5 == next(x4)
           candidate[n \in 0 .. 5] ==
             IF n = 0 THEN reading ELSE candidate[n - 1] + (reading - Local(candidate[n - 1]))
<1>1. Instant(reading) = candidate[5]
  BY DEF Instant
<1>2. \A t \in Int : next(t) \in Int /\ next(t) = reading - Offset(t)
  BY DEF Local
<1> DEFINE Follows(f) == f = [n \in 0 .. 5 |->
                       IF n = 0 THEN reading ELSE f[n - 1] + (reading - Local(f[n - 1]))]
<1>3. candidate = CHOOSE f : Follows(f)
  OBVIOUS
<1>4. \E f : Follows(f)
  <2> DEFINE f == [n \in 0 .. 5 |-> IF n = 0 THEN reading ELSE IF n = 1 THEN x1 ELSE IF n = 2 THEN x2
                                    ELSE IF n = 3 THEN x3 ELSE IF n = 4 THEN x4 ELSE x5]
  <2>1. \A n \in 0 .. 5 : f[n] = IF n = 0 THEN reading ELSE next(f[n - 1])
    <3> HIDE DEF next
    <3> QED
      OBVIOUS
  <2>2. Follows(f)
    <3> HIDE DEF f
    <3>1. f = [n \in 0 .. 5 |-> f[n]]
      BY DEF f
    <3> QED
     BY <2>1, <3>1
  <2> QED
    BY <2>2
<1> HIDE DEF candidate
<1>5. candidate = [n \in 0 .. 5 |-> IF n = 0 THEN reading ELSE next(candidate[n - 1])]
  BY <1>3, <1>4
<1> HIDE DEF next
<1>6. candidate[0] = reading /\ \A n \in 1 .. 5 : candidate[n] = next(candidate[n - 1])
  BY <1>5
<1>7. /\ candidate[1] \in Int /\ candidate[2] \in Int /\ candidate[3] \in Int 
      /\ candidate[4] \in Int /\ candidate[5] \in Int
  BY <1>2, <1>6
<1>8. \A n \in 0 .. 5 : candidate[n] \in Int
  BY <1>6, <1>7
<1>9. candidate \in [0 .. 5 -> Int]
  <2>1. candidate = [n \in 0 .. 5 |-> candidate[n]]
    BY <1>5
  <2> QED
    BY <1>8, <2>1
<1>10. \A n \in 1 .. 5 : candidate[n] = reading - Offset(candidate[n - 1])
  BY <1>2, <1>6, <1>8
<1> QED
  BY <1>1, <1>6, <1>9, <1>10

\* zonedDateTimeToUtcIso finds an instant at which the wall shows the reading, if there
\* is one: across a change of the clocks too, in whichever direction, and when the
\* reading comes twice.
THEOREM InstantShowsReading ==
  ASSUME NEW reading \in Int, NEW T \in Int, NEW a \in (-Day) .. Day, NEW b \in (-Day) .. Day,
         \A t \in Int : Offset(t) \in Int,
         OneChange(reading, T, a, b),
         \E t \in Near(reading) : Local(t) = reading
  PROVE  Local(Instant(reading)) = reading
<1> USE LocalTimeAssumption
<1>1. PICK x \in [0 .. 5 -> Int] :
           /\ x[0] = reading /\ Instant(reading) = x[5]
           /\ \A n \in 1 .. 5 : x[n] = reading - Offset(x[n - 1])
  BY InstantUnfolded
<1>2. \A n \in 1 .. 5 : x[n - 1] \in Near(reading) =>
                            /\ x[n] = reading - (IF x[n - 1] < T THEN a ELSE b)
                            /\ x[n] \in Near(reading)
  BY <1>1 DEF OneChange, Near
<1>3. \A n \in 0 .. 5 : x[n] \in Near(reading)
  BY <1>1, <1>2 DEF Near
<1>4. reading - a < T \/ reading - b >= T
  BY DEF OneChange, Local, Near
<1>5. x[3] = x[2]
  BY <1>1, <1>2, <1>3, <1>4 DEF Near
<1>6. x[5] = x[4] /\ x[4] = x[3]
  BY <1>1, <1>2, <1>3, <1>4, <1>5 DEF Near
<1> QED
  BY <1>1, <1>2, <1>3, <1>6 DEF Local

\* And if there is none, because the clocks skip the reading, what it returns is off by
\* exactly the change: one hour early or one late, for a change of one.
THEOREM SkippedHour ==
  ASSUME NEW reading \in Int, NEW T \in Int, NEW a \in (-Day) .. Day, NEW b \in (-Day) .. Day,
         \A t \in Int : Offset(t) \in Int,
         OneChange(reading, T, a, b),
         \A t \in Near(reading) : Local(t) # reading
  PROVE  Local(Instant(reading)) \in {reading + (b - a), reading - (b - a)}
<1> USE LocalTimeAssumption
<1>1. PICK x \in [0 .. 5 -> Int] :
           /\ x[0] = reading /\ Instant(reading) = x[5]
           /\ \A n \in 1 .. 5 : x[n] = reading - Offset(x[n - 1])
  BY InstantUnfolded
<1>2. \A n \in 1 .. 5 : x[n - 1] \in Near(reading) =>
                            /\ x[n] = reading - (IF x[n - 1] < T THEN a ELSE b)
                            /\ x[n] \in Near(reading)
  BY <1>1 DEF OneChange, Near
<1>3. \A n \in 0 .. 5 : x[n] \in Near(reading)
  BY <1>1, <1>2 DEF Near
<1>4. reading - a >= T /\ reading - b < T
  <2>1. reading - a \in Near(reading) /\ reading - b \in Near(reading)
    BY DEF Near
  <2>2. /\ Offset(reading - a) = IF reading - a < T THEN a ELSE b
        /\ Offset(reading - b) = IF reading - b < T THEN a ELSE b
    BY <2>1 DEF OneChange
  <2>3. /\ reading - a + Offset(reading - a) # reading
        /\ reading - b + Offset(reading - b) # reading
    BY <2>1 DEF Local
  <2> QED
    BY <2>2, <2>3
<1>5. x[5] = reading - a \/ x[5] = reading - b
  BY <1>1, <1>2, <1>3
<1>6. Local(x[5]) = x[5] + (IF x[5] < T THEN a ELSE b)
  BY <1>3 DEF OneChange, Local
<1>7. Local(x[5]) = (reading - a) + b \/ Local(x[5]) = (reading - b) + a
  BY <1>4, <1>5, <1>6
<1> QED
  BY <1>1, <1>7

\* A reading's date and hour are those it was made of.
LEMMA ReadingParts ==
  ASSUME NEW date \in Int, NEW hour \in 0 .. (Day - 1)
  PROVE  Reading(date, hour) \div Day = date /\ Reading(date, hour) % Day = hour
<1> USE LocalTimeAssumption
<1> DEFINE q == (date * Day + hour) \div Day
           r == (date * Day + hour) % Day
<1>1. date * Day \in Int /\ Day > 0
  OBVIOUS
<1>2. q \in Int /\ r \in 0 .. (Day - 1) /\ date * Day + hour = Day * q + r
  BY <1>1
<1> HIDE DEF q, r
<1>3. (date - q) * Day = r - hour
  BY <1>2
<1>4. date = q
  <2>1. ASSUME date - q >= 1 PROVE FALSE
    <3>1. (date - q) * Day >= Day
      BY <2>1, <1>2
    <3> QED
      BY <3>1, <1>2, <1>3
  <2>2. ASSUME date - q <= -1 PROVE FALSE
    <3>1. (date - q) * Day <= -Day
      BY <2>2, <1>2
    <3> QED
      BY <3>1, <1>2, <1>3
  <2> QED
    BY <2>1, <2>2, <1>2
<1>5. r = hour
  BY <1>2, <1>3, <1>4
<1> QED
  BY <1>4, <1>5 DEF Reading, q, r

\* nextDailyOccurrence: the next report is due on the next date of the client's calendar
\* at the hour that this one was due, whatever the clocks do in between, unless they skip
\* that very hour.
THEOREM NextReportKeepsItsHour ==
  ASSUME NEW date \in Int, NEW last \in Int,
         NEW T \in Int, NEW a \in (-Day) .. Day, NEW b \in (-Day) .. Day,
         \A t \in Int : Offset(t) \in Int,
         OneChange(Reading(date + 1, LocalHour(last)), T, a, b),
         \E t \in Near(Reading(date + 1, LocalHour(last))) :
           Local(t) = Reading(date + 1, LocalHour(last))
  PROVE  /\ LocalDate(NextOccurrence(date, last)) = date + 1
         /\ LocalHour(NextOccurrence(date, last)) = LocalHour(last)
<1> USE LocalTimeAssumption
<1> DEFINE reading == Reading(date + 1, LocalHour(last))
<1>1. LocalHour(last) \in 0 .. (Day - 1)
  <2>1. Local(last) \in Int
    BY DEF Local
  <2> QED
    BY <2>1 DEF LocalHour
<1>2. reading \in Int
  BY <1>1 DEF Reading
<1>3. Local(Instant(reading)) = reading
  <2> HIDE DEF reading
  <2>1. OneChange(reading, T, a, b) /\ \E t \in Near(reading) : Local(t) = reading
    BY DEF reading
  <2> QED
    BY <1>2, <2>1, InstantShowsReading
<1>4. reading \div Day = date + 1 /\ reading % Day = LocalHour(last)
  BY <1>1, ReadingParts
<1> QED
  BY <1>3, <1>4 DEF NextOccurrence, LocalDate, LocalHour

-----------------------------------------------------------------------------
(* The queue that this model has implements Leases. *)

\* A report has a job as soon as it exists, and a worker that is idle has none.
JobsAreReports ==
  /\ job \in [Dates -> {"none", "pending", "processing", "completed", "cancelled", "dead_lettered"}]
  /\ tries \in [Dates -> Nat] /\ lease \in [Dates -> Workers \cup {Nobody}]
  /\ \A d \in Dates : report[d] = "none" <=> job[d] = "none"
  /\ \A w \in Workers : at[w] = "idle" => runs[w] = 0

LEMMA JobsStart == Init => JobsAreReports
BY ReportsAssumption DEF Init, JobsAreReports

LEMMA ZeroIsNoDate == 0 \notin Dates
BY ReportsAssumption DEF Dates

\* The job's worker, and nobody else, writes what becomes of it.
LEMMA SettleJobs ==
  ASSUME IInv, JobsAreReports, NEW w \in Workers, Settle(w)
  PROVE  /\ runs[w] \in Dates /\ UNCHANGED tries /\ runs' = [runs EXCEPT ![w] = 0]
         /\ at' = [at EXCEPT ![w] = "idle"] /\ UNCHANGED report
         /\ IF Fenced(w)
            THEN /\ \E s \in {"completed", "dead_lettered", "pending"} : job' = [job EXCEPT ![runs[w]] = s]
                 /\ lease' = [lease EXCEPT ![runs[w]] = Nobody]
            ELSE UNCHANGED <<job, lease>>
<1>1. runs[w] \in Dates
  BY DEF Settle, IInv, SendersHold
<1>2. (CASE at[w] = "completed" -> "completed"
         [] at[w] = "retry" /\ tries[runs[w]] >= MaxAttempts -> "dead_lettered"
         [] OTHER -> "pending") \in {"completed", "dead_lettered", "pending"}
  OBVIOUS
<1> QED
  BY <1>1, <1>2 DEF Settle, Comes

LEMMA JobsStep ==
  ASSUME IInv, JobsAreReports, [Next]_vars
  PROVE  JobsAreReports'
<1> USE ReportsAssumption, ZeroIsNoDate DEF IInv, Types, JobsAreReports
<1>1. CASE UNCHANGED vars
  BY <1>1 DEF vars, job_vars, worker_vars
<1>2. CASE Tick \/ Deactivate \/ \E d \in Dates : Ask(d) \/ Dispatch(d)
  BY <1>2 DEF Tick, Deactivate, Ask, Dispatch, Dispatched, job_vars, worker_vars
<1>3. CASE Plan
  BY <1>3 DEF Plan, Schedule, ClientLocked, worker_vars
<1>4. ASSUME NEW d \in Dates, CancelDailyReport(d) PROVE JobsAreReports'
  BY <1>4 DEF CancelDailyReport, worker_vars
<1>5. ASSUME NEW w \in Workers, NEW d \in Dates, Claim(w, d) PROVE JobsAreReports'
  <2>1. job[d] # "none"
    BY <1>5 DEF Claim
  <2> QED
    BY <1>5, <2>1 DEF Claim
<1>6. ASSUME NEW w \in Workers,
             NotScheduled(w) \/ MissingDestination(w) \/ Summarise(w) \/ Throws(w)
               \/ WaitForNext(w) \/ VictimWorker(w) \/ VictimCaller(w) \/ VictimChain(w)
      PROVE  JobsAreReports'
  BY <1>6 DEF NotScheduled, MissingDestination, Summarise, Throws, VictimWorker, VictimCaller, Cycle,
              WaitForNext, VictimChain, Chains,              Comes, job_vars, worker_vars, SendersHold
<1>7. ASSUME NEW w \in Workers, SendAndChain(w) PROVE JobsAreReports'
  <2> DEFINE d == runs[w]
  <2>1. d \in Dates /\ at[w] \in {"sending", "chaining"} /\ report[d] = "scheduled" /\ UNCHANGED <<tries, lease, runs>>
        /\ at' = [at EXCEPT ![w] = "completed"]
    BY <1>7 DEF SendAndChain, HasClient, SendersHold, Comes
  <2>2. CASE report' = [report EXCEPT ![d] = "sent"] /\ UNCHANGED job
    BY <2>1, <2>2
  <2>3. CASE /\ report' = [report EXCEPT ![d] = "sent", ![d + 1] = "scheduled"] /\ d < Last
             /\ job' = [job EXCEPT ![d + 1] = "pending"]
    <3>1. d + 1 \in Dates /\ d + 1 # d
      BY <2>1, <2>3 DEF Dates
    <3> QED
      BY <2>1, <2>3, <3>1
  <2> QED
    BY <1>7, <2>2, <2>3 DEF SendAndChain
<1>8. ASSUME NEW w \in Workers, Crash(w) PROVE JobsAreReports'
  BY <1>8 DEF Crash, Comes, job_vars
<1>9. ASSUME NEW w \in Workers, Settle(w) PROVE JobsAreReports'
  <2>1. Fenced(w) => job[runs[w]] # "none"
    BY DEF Fenced
  <2> QED
    BY <1>9, <2>1, SettleJobs
<1> QED
  BY <1>1, <1>2, <1>3, <1>4, <1>5, <1>6, <1>7, <1>8, <1>9 DEF Next, WorkerStep, DeskStep

\* A function that differs from another at one place.
LEMMA DiffersAtOne ==
  ASSUME NEW S, NEW w \in S, NEW f, NEW g, NEW x, f = [v \in S |-> f[v]], g = [v \in S |-> g[v]],
         \A v \in S \ {w} : g[v] = f[v], g[w] = x
  PROVE  g = [f EXCEPT ![w] = x]
OBVIOUS

LEMMA StartsAsLeases == Init => ReportLeases!LeasesInit
<1> SUFFICES ASSUME Init PROVE ReportLeases!LeasesInit
  OBVIOUS
<1>1. \A w \in Workers, d \in Dates : runs[w] # d
  BY ZeroIsNoDate DEF Init
<1>2. \A d \in Dates : JobState(d) = "new"
  BY DEF Init, JobState
<1>3. tries = [d \in Dates |-> 0]
  BY DEF Init
<1> QED
  BY <1>1, <1>2, <1>3 DEF ReportLeases!LeasesInit

\* A step that is not about jobs and who has them.
LEMMA NoLease ==
  ASSUME UNCHANGED <<job, tries, lease, runs>>
  PROVE  UNCHANGED ReportLeases!lease_vars
<1>1. \A d \in Dates : JobState(d)' = JobState(d)
  BY DEF JobState
<1>2. \A w \in Workers : Fenced(w)' = Fenced(w)
  BY DEF Fenced
<1> QED
  BY <1>1, <1>2 DEF ReportLeases!lease_vars

\* A job that is asked for or cancelled.
LEMMA OrdersAreOrders ==
  ASSUME IInv, JobsAreReports, NEW d \in Dates, UNCHANGED <<tries, lease, runs>>,
         \/ job[d] = "none" /\ job' = [job EXCEPT ![d] = "pending"]
         \/ job[d] \notin {"none", "completed"} /\ job' = [job EXCEPT ![d] = "cancelled"]
  PROVE  [ReportLeases!LeasesNext]_(ReportLeases!lease_vars)
<1> USE DEF IInv, Types, JobsAreReports
<1>0. CASE job[d] = "cancelled"
  <2>1. job' = job
    BY <1>0
  <2> QED
    BY <2>1, NoLease
<1>1. CASE job[d] # "cancelled"
  <2>1. <<JobState(d), JobState(d)'>> \in ReportLeases!Orders(d) /\ JobState(d)' # JobState(d)
    BY <1>1 DEF JobState, ReportLeases!Orders
  <2>2. \A e \in Dates \ {d} : JobState(e)' = JobState(e)
    BY DEF JobState
  <2>3. \A e \in Dates : JobState(e)' \in {"new", "open", "over", "withdrawn"}
    BY DEF JobState
  <2>4. \A w \in Workers : runs[w] \in Dates => (Fenced(w)' <=> Fenced(w) /\ runs[w] # d)
    BY DEF Fenced
  <2>5. ReportLeases!Order
    BY <2>1, <2>2, <2>3, <2>4 DEF ReportLeases!Order
  <2> QED
    BY <2>5 DEF ReportLeases!LeasesNext
<1> QED
  BY <1>0, <1>1

\* A worker that claims a job.
LEMMA ClaimsAreTaken ==
  ASSUME IInv, JobsAreReports, NEW w \in Workers, NEW c \in Dates, Claim(w, c)
  PROVE  ReportLeases!Take(w, {c})
<1> USE DEF IInv, Types, JobsAreReports
<1>1. /\ job' = [job EXCEPT ![c] = "processing"] /\ job[c] \in {"pending", "processing"}
      /\ tries' = [tries EXCEPT ![c] = @ + 1] /\ lease' = [lease EXCEPT ![c] = w]
      /\ runs' = [runs EXCEPT ![w] = c] /\ runs[w] = 0
  BY DEF Claim
<1>2. \A d \in Dates : JobState(d)' = JobState(d)
  BY <1>1 DEF JobState
<1>3. JobState(c) = "open"
  BY <1>1 DEF JobState
<1>4. \A d \in Dates : runs[w] # d /\ (runs'[w] = d <=> d = c)
  BY <1>1, ZeroIsNoDate
<1>5. Fenced(w)'
  BY <1>1 DEF Fenced
<1>6. \A v \in Workers, d \in Dates :
        v # w /\ runs[v] = d => runs'[v] = d /\ (Fenced(v)' <=> Fenced(v) /\ d # c)
  BY <1>1 DEF Fenced
<1>7. \A v \in Workers : v # w => runs'[v] = runs[v]
  BY <1>1
<1>8. tries' = [d \in Dates |-> IF d \in {c} THEN tries[d] + 1 ELSE tries[d]]
  BY <1>1
<1> DEFINE has == [v \in Workers |-> {d \in Dates : runs[v] = d}]
           holds == [v \in Workers |-> {d \in Dates : runs[v] = d /\ Fenced(v)}]
<1>9. has[w] = {} /\ has' = [has EXCEPT ![w] = {c}]
  <2>1. has[w] = {} /\ has'[w] = {c} /\ \A v \in Workers \ {w} : has'[v] = has[v]
    BY <1>4, <1>7
  <2>2. has = [v \in Workers |-> has[v]] /\ has' = [v \in Workers |-> has'[v]]
    OBVIOUS
  <2> HIDE DEF has
  <2> QED
    BY <2>1, <2>2, DiffersAtOne
<1>10. holds' = [v \in Workers |-> IF v = w THEN {c} ELSE holds[v] \ {c}]
  <2>1. holds'[w] = {c}
    BY <1>4, <1>5
  <2>2. ASSUME NEW v \in Workers, v # w PROVE holds'[v] = holds[v] \ {c}
    BY <2>2, <1>6, <1>7
  <2> QED
    BY <2>1, <2>2
<1>11. [d \in Dates |-> JobState(d)]' = [d \in Dates |-> JobState(d)]
  BY <1>2
<1>12. \A d \in {c} : [e \in Dates |-> JobState(e)][d] = "open"
  BY <1>3
<1> QED
  BY <1>8, <1>9, <1>10, <1>11, <1>12 DEF ReportLeases!Take

\* A worker that leaves its job.
LEMMA LeavingKeepsLeases ==
  ASSUME IInv, JobsAreReports, NEW w \in Workers, UNCHANGED tries,
         runs[w] \in Dates, runs' = [runs EXCEPT ![w] = 0],
         \A v \in Workers \ {w} : runs[v] \in Dates => Fenced(v)' = Fenced(v),
         \A d \in Dates : JobState(d)' # JobState(d) =>
            runs[w] = d /\ Fenced(w) /\ JobState(d)' = "over"
  PROVE  ReportLeases!Leave(w)
<1> USE ZeroIsNoDate DEF IInv, Types, JobsAreReports
<1> DEFINE state == [d \in Dates |-> JobState(d)]
           has == [v \in Workers |-> {d \in Dates : runs[v] = d}]
           holds == [v \in Workers |-> {d \in Dates : runs[v] = d /\ Fenced(v)}]
<1>1. has'[w] = {} /\ holds'[w] = {}
  OBVIOUS
<1>2. has' = [has EXCEPT ![w] = has'[w]]
  <2>1. /\ \A v \in Workers \ {w} : has'[v] = has[v]
        /\ has = [v \in Workers |-> has[v]] /\ has' = [v \in Workers |-> has'[v]]
    OBVIOUS
  <2> HIDE DEF has
  <2> QED
    BY <2>1, DiffersAtOne
<1>3. holds' = [holds EXCEPT ![w] = holds'[w]]
  <2>1. \A v \in Workers \ {w} : holds'[v] = holds[v]
    OBVIOUS
  <2>2. holds = [v \in Workers |-> holds[v]] /\ holds' = [v \in Workers |-> holds'[v]]
    OBVIOUS
  <2> HIDE DEF holds
  <2> QED
    BY <2>1, <2>2, DiffersAtOne
<1>4. state' = [d \in Dates |-> IF d \in holds[w] \ holds'[w] /\ state'[d] # state[d]
                                THEN "over" ELSE state[d]]
  OBVIOUS
<1> QED
  BY <1>1, <1>2, <1>3, <1>4 DEF ReportLeases!Leave

LEMMA StepKeepsLeases ==
  ASSUME IInv, JobsAreReports, [Next]_vars
  PROVE  [ReportLeases!LeasesNext]_(ReportLeases!lease_vars)
<1> USE DEF job_vars, worker_vars
<1> DEFINE unchanged == UNCHANGED <<job, tries, lease, runs>>
<1>1. CASE unchanged
  BY <1>1, NoLease
<1>2. CASE Plan \/ \E d \in Dates : CancelDailyReport(d)
  <2>1. CASE Plan
    <3>1. CASE report[caller] = "none"
      <4>1. /\ caller \in Dates /\ job[caller] = "none" /\ UNCHANGED <<tries, lease, runs>>
            /\ job' = [job EXCEPT ![caller] = "pending"]
        BY <2>1, <3>1 DEF Plan, Schedule, ClientLocked, IInv, Types, JobsAreReports
      <4> QED
        BY <4>1, OrdersAreOrders
    <3>2. CASE report[caller] # "none"
      BY <1>1, <2>1, <3>2 DEF Plan, Schedule
    <3> QED
      BY <3>1, <3>2
  <2>2. ASSUME NEW d \in Dates, CancelDailyReport(d)
        PROVE  [ReportLeases!LeasesNext]_(ReportLeases!lease_vars)
    <3>1. /\ job[d] # "none" /\ UNCHANGED <<tries, lease, runs>>
          /\ job' = [job EXCEPT ![d] = IF @ = "completed" THEN @ ELSE "cancelled"]
      BY <2>2 DEF CancelDailyReport, JobsAreReports
    <3>2. CASE job[d] = "completed"
      <4>1. job' = job
        BY <3>1, <3>2 DEF JobsAreReports
      <4> QED
        BY <1>1, <3>1, <4>1
    <3>3. CASE job[d] # "completed"
      <4>1. job' = [job EXCEPT ![d] = "cancelled"]
        BY <3>1, <3>3
      <4> QED
        BY <3>1, <3>3, <4>1, OrdersAreOrders
    <3> QED
      BY <3>2, <3>3
  <2> QED
    BY <1>2, <2>1, <2>2
<1>3. ASSUME NEW w \in Workers, SendAndChain(w)
      PROVE  [ReportLeases!LeasesNext]_(ReportLeases!lease_vars)
  <2> DEFINE d == runs[w]
  <2>1. d \in Dates /\ UNCHANGED <<tries, lease, runs>>
    BY <1>3 DEF SendAndChain, HasClient, IInv, SendersHold
  <2>2. CASE UNCHANGED job
    BY <1>1, <2>1, <2>2
  <2>3. CASE job' = [job EXCEPT ![d + 1] = "pending"] /\ report[d + 1] = "none" /\ d < Last
    <3>1. d + 1 \in Dates /\ job[d + 1] = "none"
      BY <2>1, <2>3, ReportsAssumption DEF Dates, JobsAreReports
    <3> QED
      BY <2>1, <2>3, <3>1, OrdersAreOrders
  <2> QED
    BY <1>3, <2>2, <2>3 DEF SendAndChain
<1>4. ASSUME NEW w \in Workers, NEW d \in Dates, Claim(w, d)
      PROVE  ReportLeases!LeasesNext
  <2>1. ReportLeases!Take(w, {d}) /\ {d} \in SUBSET Dates
    BY <1>4, ClaimsAreTaken
  <2> QED
    BY <2>1 DEF ReportLeases!LeasesNext
<1>5. ASSUME NEW w \in Workers, Crash(w)
      PROVE  ReportLeases!LeasesNext
  <2>1. runs[w] \in Dates /\ runs' = [runs EXCEPT ![w] = 0] /\ UNCHANGED <<job, tries, lease>>
    BY <1>5 DEF Crash, IInv, SendersHold
  <2>2. \A v \in Workers \ {w} : Fenced(v)' = Fenced(v)
    BY <2>1 DEF Fenced, IInv, Types
  <2>3. \A d \in Dates : JobState(d)' = JobState(d)
    BY <2>1 DEF JobState
  <2>4. ReportLeases!Leave(w)
    BY <2>1, <2>2, <2>3, LeavingKeepsLeases
  <2> QED
    BY <2>4 DEF ReportLeases!LeasesNext
<1>6. ASSUME NEW w \in Workers, Settle(w)
      PROVE  ReportLeases!LeasesNext
  <2> DEFINE d == runs[w]
  <2>1. d \in Dates /\ UNCHANGED tries /\ runs' = [runs EXCEPT ![w] = 0]
    BY <1>6, SettleJobs
  <2>2. \A v \in Workers \ {w} : runs'[v] = runs[v]
    BY <2>1 DEF IInv, Types
  <2>3. CASE ~Fenced(w)
    <3>1. UNCHANGED <<job, lease>>
      BY <1>6, <2>3, SettleJobs
    <3>2. \A v \in Workers \ {w} : Fenced(v)' = Fenced(v)
      BY <2>2, <3>1 DEF Fenced
    <3>3. \A e \in Dates : JobState(e)' = JobState(e)
      BY <3>1 DEF JobState
    <3> QED
      BY <2>1, <3>2, <3>3, LeavingKeepsLeases DEF ReportLeases!LeasesNext
  <2>4. CASE Fenced(w)
    <3>1. PICK s \in {"completed", "dead_lettered", "pending"} :
            job' = [job EXCEPT ![d] = s] /\ lease' = [lease EXCEPT ![d] = Nobody]
      BY <1>6, <2>4, SettleJobs
    <3>2. ASSUME NEW v \in Workers \ {w}, runs[v] \in Dates PROVE Fenced(v)' = Fenced(v)
      <4>1. CASE runs[v] = d
        BY <2>1, <2>2, <2>4, <3>1, <4>1, ReportsAssumption DEF Fenced, JobsAreReports
      <4>2. CASE runs[v] # d
        BY <2>2, <3>1, <3>2, <4>2 DEF Fenced, JobsAreReports
      <4> QED
        BY <4>1, <4>2
    <3>3. \A e \in Dates : JobState(e)' # JobState(e) => e = d /\ JobState(e)' = "over"
      BY <2>4, <3>1 DEF JobState, Fenced, JobsAreReports
    <3> QED
      BY <2>1, <2>4, <3>2, <3>3, LeavingKeepsLeases DEF ReportLeases!LeasesNext
  <2> QED
    BY <2>3, <2>4
<1>7. ASSUME Next
      PROVE  \/ unchanged
             \/ Plan \/ \E d \in Dates : CancelDailyReport(d)
             \/ \E w \in Workers :
                  SendAndChain(w) \/ Crash(w) \/ Settle(w) \/ \E d \in Dates : Claim(w, d)
  <2>1. CASE Tick \/ Deactivate \/ \E d \in Dates : Ask(d) \/ Dispatch(d)
    BY <2>1 DEF Tick, Deactivate, Ask, Dispatch, Dispatched
  <2>2. ASSUME NEW w \in Workers,
               NotScheduled(w) \/ MissingDestination(w) \/ Summarise(w) \/ Throws(w)
                 \/ WaitForNext(w) \/ VictimWorker(w) \/ VictimCaller(w) \/ VictimChain(w)
        PROVE  unchanged
    BY <2>2 DEF NotScheduled, MissingDestination, Summarise, Throws, VictimWorker, VictimCaller,
                    WaitForNext, VictimChain
  <2> QED
    BY <1>7, <2>1, <2>2 DEF Next, WorkerStep, DeskStep
<1> QED
  BY <1>1, <1>2, <1>3, <1>4, <1>5, <1>6, <1>7 DEF vars

\* The jobs of reports are taken, held and settled as Leases says, so as the queue that
\* they are really in does it.
THEOREM ReportsKeepLeases == Spec => KeepsLeases
<1>1. Init => ReportLeases!LeasesInit
  BY StartsAsLeases
<1>2. IInv /\ JobsAreReports /\ [Next]_vars => [ReportLeases!LeasesNext]_(ReportLeases!lease_vars)
  BY StepKeepsLeases
<1>3. Init => IInv /\ JobsAreReports
  BY InitIsGood, JobsStart
<1>4. IInv /\ JobsAreReports /\ [Next]_vars => (IInv /\ JobsAreReports)'
  BY NextKeeps, JobsStep
<1> QED
  BY <1>1, <1>2, <1>3, <1>4, PTL DEF Spec, KeepsLeases, ReportLeases!LeasesSpec
=============================================================================
