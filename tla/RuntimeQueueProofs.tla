------------------------- MODULE RuntimeQueueProofs -------------------------
(***************************************************************************)
(* The safety properties of RuntimeQueue, for every set of rows and worker *)
(* processes, every naming of the processes, every batch size, max_attempts *)
(* and number of faults.                                                   *)
(*                                                                         *)
(* ExclusiveLease is not inductive: that a second lease on a row fails the *)
(* fence is only known because attempt numbers never come back.  The       *)
(* invariant says so: a lease's number is at most the row's count          *)
(* (LeasesInThePast), so a claim's is new, and hence no two processes have *)
(* the same lease (LeasesDisjoint), whatever they are called.  The last    *)
(* part is the refinement of Leases.                                       *)
(***************************************************************************)
EXTENDS RuntimeQueue, SequenceTheorems, FiniteSetTheorems, TLAPS

Attempt == [worker : Names, outcome : Outcomes \cup {"claimed"}]

\* The conjuncts of TypeOK about the rows, and those about the workers.
RowsTyped ==
  /\ status \in [Rows -> Statuses]
  /\ attempt_count \in [Rows -> Nat]
  /\ locked_by \in [Rows -> Names \cup {NoName}]
  /\ due \in [Rows -> BOOLEAN]
  /\ lapsed \in [Rows -> BOOLEAN]
  /\ attempts \in [Rows -> Seq(Attempt)]
  /\ dead_letters \in [Rows -> Nat]

WorkersTyped ==
  /\ phase \in [Workers -> Tables]
  /\ batch \in [Workers -> SUBSET Lease]
  /\ pc \in [Workers -> {"poll", "next", "record", "read", "write"}]
  /\ current \in [Workers -> Lease \cup {Idle}]
  /\ result \in [Workers -> Outcomes \cup {"none", "throws"}]
  /\ caught \in [Workers -> BOOLEAN]

\* A lease carries the number of a claim that has been made.
LeasesInThePast ==
  \A w \in Workers : \A l \in batch[w] : l.attempt <= attempt_count[l.row]

\* No two processes carry the same lease.
LeasesDisjoint ==
  \A v, w \in Workers : \A l \in batch[v] : l \in batch[w] => v = w

\* What a worker in the middle of a row knows: it still has the lease, and what
\* it is about to write is what the handler or the retry decision allows.
WorkerInTheMiddle ==
  \A w \in Workers :
    /\ pc[w] \in {"record", "read", "write"} => current[w] \in batch[w]
    /\ pc[w] = "record" => result[w] \in Outcomes \ {"retryable"}
    /\ pc[w] = "write" => result[w] \in {"retryable", "dead_lettered"}
    /\ pc[w] = "write" /\ result[w] = "retryable" => current[w].attempt < MaxAttempts
    /\ pc[w] = "write" /\ result[w] = "dead_lettered" => attempt_count[current[w].row] >= MaxAttempts

\* The first half of RetriesWithinBudget.
GrantsWithinBudget ==
  \A r \in Rows : \A n \in DOMAIN attempts[r] : attempts[r][n].outcome = "retryable" => n < MaxAttempts

\* The second half: the dead letter a reconciliation wrote is no attempt's.
Unaccounted(r) == IF status[r] = "permanently_failed" /\ Reconciled(r) THEN 1 ELSE 0
DeadLettersCounted ==
  \A r \in Rows : dead_letters[r] = Cardinality(BuriedAttempts(r)) + Unaccounted(r)

IInv ==
  /\ RowsTyped
  /\ WorkersTyped
  /\ faults \in Nat
  /\ LeasesInThePast
  /\ LeasesDisjoint
  /\ WorkerInTheMiddle
  /\ LedgerTellsStatus
  /\ GrantsWithinBudget
  /\ DeadLettersCounted

\* The conjunct of HistoryIsFinal a step has to satisfy.
KeepsHistory ==
  \A r \in Rows :
    /\ \A n \in DOMAIN attempts[r] :
         /\ n \in DOMAIN attempts'[r]
         /\ attempts[r][n].outcome # "claimed" => attempts'[r][n] = attempts[r][n]
    /\ status[r] \in Settled(Table[r]) /\ status'[r] # status[r] =>
         \/ Table[r] = "inbox" /\ status'[r] = "pending"
         \/ Table[r] = "outbox" /\ status[r] = "delivery_unknown" /\ status'[r] \in Settled("outbox")
         \/ Table[r] = "jobs" /\ status[r] # "completed" /\ status'[r] = "cancelled"

-----------------------------------------------------------------------------

\* The outcomes are statuses, and none of them is a status a claim can leave.
LEMMA OutcomeFacts ==
  /\ Outcomes = {"processed", "ignored", "retryable", "dead_lettered", "delivered",
                 "permanently_failed", "delivery_unknown", "completed"}
  /\ \A t \in Tables : HandlerOutcomes(t) \subseteq Outcomes
  /\ \A t \in Tables : Settled(t) \cap {"absent", "pending", "processing", "retryable"} = {}
  /\ \A t \in Tables : NextPhase(t) \in Tables
<1>1. Outcomes = {"processed", "ignored", "retryable", "dead_lettered", "delivered",
                  "permanently_failed", "delivery_unknown", "completed"}
  BY DEF Outcomes, HandlerOutcomes, Tables
<1>2. \A t \in Tables : HandlerOutcomes(t) \subseteq Outcomes
  BY DEF Outcomes
<1>3. \A t \in Tables : Settled(t) \cap {"absent", "pending", "processing", "retryable"} = {}
  BY DEF Settled, HandlerOutcomes, Tables
<1>4. \A t \in Tables : NextPhase(t) \in Tables
  BY DEF NextPhase, Tables
<1>5. QED
  BY <1>1, <1>2, <1>3, <1>4

\* The type invariant is what its two halves say.
LEMMA TypeHalves == TypeOK <=> RowsTyped /\ WorkersTyped /\ faults \in Nat
  BY DEF TypeOK, RowsTyped, WorkersTyped, Attempt

\* Opening an attempt that is not in the ledger yet appends it.
LEMMA OpenAttemptAppends ==
  ASSUME NEW ledger \in Seq(Attempt), NEW name \in Names
  PROVE  /\ OpenAttempt(ledger, Len(ledger) + 1, name) \in Seq(Attempt)
         /\ Len(OpenAttempt(ledger, Len(ledger) + 1, name)) = Len(ledger) + 1
         /\ OpenAttempt(ledger, Len(ledger) + 1, name)[Len(ledger) + 1]
              = [worker |-> name, outcome |-> "claimed"]
         /\ \A n \in DOMAIN ledger :
              OpenAttempt(ledger, Len(ledger) + 1, name)[n] = ledger[n]
<1> DEFINE a == [worker |-> name, outcome |-> "claimed"]
<1>1. a \in Attempt
  BY DEF Attempt
<1>2. OpenAttempt(ledger, Len(ledger) + 1, name) = Append(ledger, a)
  BY DEF OpenAttempt
<1>3. QED
  BY <1>1, <1>2

\* Closing an attempt of the ledger changes nothing else of it.
LEMMA CloseAttempt ==
  ASSUME NEW ledger \in Seq(Attempt), NEW no \in DOMAIN ledger, NEW s \in Outcomes,
         NEW closed, closed = [ledger EXCEPT ![no].outcome = s]
  PROVE  /\ closed \in Seq(Attempt)
         /\ Len(closed) = Len(ledger)
         /\ DOMAIN closed = DOMAIN ledger
         /\ closed[no].outcome = s
         /\ \A n \in DOMAIN ledger : n # no => closed[n] = ledger[n]
<1> DEFINE a == [ledger[no] EXCEPT !.outcome = s]
<1>1. ledger[no] \in Attempt
  BY ElementOfSeq
<1>2. a \in Attempt /\ a.outcome = s
  BY <1>1 DEF Attempt
<1>3. closed = [ledger EXCEPT ![no] = a]
  OBVIOUS
<1> HIDE DEF a
<1>4. no \in 1 .. Len(ledger) /\ DOMAIN ledger = 1 .. Len(ledger)
  BY LenProperties
<1>5. /\ closed \in Seq(Attempt) /\ Len(closed) = Len(ledger)
      /\ \A j \in 1 .. Len(ledger) : closed[j] = IF j = no THEN a ELSE ledger[j]
  BY <1>2, <1>3, <1>4, ExceptSeq
<1>6. DOMAIN closed = DOMAIN ledger
  BY <1>3
<1>7. QED
  BY <1>2, <1>4, <1>5, <1>6

\* While the rows stay as they are, their part holds.
LEMMA RowsAtRest ==
  ASSUME IInv, UNCHANGED row_vars
  PROVE  /\ RowsTyped' /\ LedgerTellsStatus' /\ GrantsWithinBudget' /\ DeadLettersCounted'
         /\ KeepsHistory
         /\ attempt_count' = attempt_count
<1>1. UNCHANGED <<status, attempt_count, locked_by, due, lapsed, attempts, dead_letters>>
  BY DEF row_vars
<1>2. RowsTyped' /\ LedgerTellsStatus' /\ GrantsWithinBudget' /\ KeepsHistory
  BY <1>1 DEF IInv, RowsTyped, LedgerTellsStatus, Reconciled, GrantsWithinBudget, KeepsHistory
<1>3. DeadLettersCounted'
  BY <1>1 DEF IInv, DeadLettersCounted, Unaccounted, Reconciled, BuriedAttempts
<1>4. QED
  BY <1>1, <1>2, <1>3

\* A ledger is finite, and so is any part of it.
LEMMA FiniteBuried ==
  ASSUME IInv, NEW r \in Rows
  PROVE  IsFiniteSet(BuriedAttempts(r))
<1>1. DOMAIN attempts[r] = 1 .. Len(attempts[r]) /\ Len(attempts[r]) \in Nat
  BY LenProperties DEF IInv, RowsTyped
<1>2. IsFiniteSet(1 .. Len(attempts[r]))
  BY <1>1, FS_Interval
<1>3. BuriedAttempts(r) \subseteq 1 .. Len(attempts[r])
  BY <1>1 DEF BuriedAttempts
<1>4. QED
  BY <1>2, <1>3, FS_Subset

\* A finalizer that passes the fence closes the row's last attempt; one that does
\* not changes nothing.  Either way the rows' part of the invariant survives.
LEMMA FinalizeKeeps ==
  ASSUME IInv, NEW w \in Workers, pc[w] \in {"record", "write"},
         Finalize(w, current[w], result[w])
  PROVE  /\ RowsTyped'
         /\ attempt_count' = attempt_count
         /\ LedgerTellsStatus'
         /\ GrantsWithinBudget'
         /\ DeadLettersCounted'
         /\ KeepsHistory
<1> DEFINE l == current[w]
           s == result[w]
           r == l.row
           no == attempt_count[r]
<1>1. /\ l \in batch[w] /\ l \in Lease /\ r \in Rows
      /\ s \in Outcomes
      /\ s = "retryable" => l.attempt < MaxAttempts
  BY OutcomeFacts DEF IInv, WorkerInTheMiddle, WorkersTyped, Lease
<1>2. CASE ~Holds(w, l)
  <2>1. UNCHANGED row_vars
    BY <1>2 DEF Finalize
  <2>2. QED
    BY <2>1, RowsAtRest DEF row_vars
<1>3. CASE Holds(w, l)
  <2>1. /\ status[r] = "processing" /\ no = l.attempt
        /\ status' = [status EXCEPT ![r] = s]
        /\ locked_by' = [locked_by EXCEPT ![r] = NoName]
        /\ lapsed' = [lapsed EXCEPT ![r] = FALSE]
        /\ due' = [due EXCEPT ![r] = due[r] /\ s # "retryable"]
        /\ attempts' = [attempts EXCEPT ![r] = [attempts[r] EXCEPT ![no].outcome = s]]
        /\ dead_letters' = [dead_letters EXCEPT ![r] = dead_letters[r] + IF s \in Buried THEN 1 ELSE 0]
        /\ attempt_count' = attempt_count
    BY <1>3 DEF Finalize, Holds
  <2>2. /\ attempts[r] \in Seq(Attempt) /\ Len(attempts[r]) = no /\ no \in Nat \ {0}
        /\ no \in DOMAIN attempts[r]
        /\ attempts[r][no].outcome = "claimed"
    BY <1>1, <2>1 DEF IInv, RowsTyped, LedgerTellsStatus
  <2>3. /\ attempts'[r] \in Seq(Attempt)
        /\ Len(attempts'[r]) = no
        /\ DOMAIN attempts'[r] = DOMAIN attempts[r]
        /\ attempts'[r][no].outcome = s
        /\ \A n \in DOMAIN attempts[r] : n # no => attempts'[r][n] = attempts[r][n]
        /\ \A q \in Rows : q # r => attempts'[q] = attempts[q]
    <3>1. attempts'[r] = [attempts[r] EXCEPT ![no].outcome = s]
      BY <1>1, <2>1 DEF IInv, RowsTyped
    <3>2. \A q \in Rows : q # r => attempts'[q] = attempts[q]
      BY <2>1 DEF IInv, RowsTyped
    <3>3. /\ attempts'[r] \in Seq(Attempt)
          /\ Len(attempts'[r]) = Len(attempts[r])
          /\ DOMAIN attempts'[r] = DOMAIN attempts[r]
          /\ attempts'[r][no].outcome = s
          /\ \A n \in DOMAIN attempts[r] : n # no => attempts'[r][n] = attempts[r][n]
      <4> HIDE DEF s, no, r
      <4>1. QED
        BY <1>1, <2>2, <3>1, CloseAttempt
    <3>4. QED
      BY <2>2, <3>2, <3>3
  <2>4. RowsTyped'
    <3>1. attempts' \in [Rows -> Seq(Attempt)]
      BY <1>1, <2>1, <2>3 DEF IInv, RowsTyped
    <3>2. QED
      BY <1>1, <2>1, <3>1 DEF IInv, RowsTyped, Statuses
  <2>5. LedgerTellsStatus'
    <3> SUFFICES ASSUME NEW q \in Rows
                 PROVE  /\ Len(attempts'[q]) = attempt_count'[q]
                        /\ status'[q] = "absent" => attempt_count'[q] = 0
                        /\ status'[q] = "processing" => /\ attempt_count'[q] > 0
                                                        /\ attempts'[q][attempt_count'[q]].outcome = "claimed"
                        /\ status'[q] \in Outcomes =>
                             /\ attempt_count'[q] > 0
                             /\ attempts'[q][attempt_count'[q]].outcome = status'[q] \/ Reconciled(q)'
      BY DEF LedgerTellsStatus
    <3>1. CASE q = r
      <4>1. status'[q] = s /\ attempt_count'[q] = no
        BY <1>1, <2>1, <3>1 DEF IInv, RowsTyped
      <4>2. s # "absent" /\ s # "processing"
        BY <1>1, OutcomeFacts
      <4>3. QED
        BY <2>2, <2>3, <3>1, <4>1, <4>2
    <3>2. CASE q # r
      BY <2>1, <2>3, <3>2 DEF IInv, RowsTyped, LedgerTellsStatus, Reconciled
    <3>3. QED
      BY <3>1, <3>2
  <2>6. GrantsWithinBudget'
    BY <1>1, <2>1, <2>2, <2>3 DEF IInv, GrantsWithinBudget
  <2>7. KeepsHistory
    <3> SUFFICES ASSUME NEW q \in Rows
                 PROVE  /\ \A n \in DOMAIN attempts[q] :
                             /\ n \in DOMAIN attempts'[q]
                             /\ attempts[q][n].outcome # "claimed" => attempts'[q][n] = attempts[q][n]
                        /\ status[q] \in Settled(Table[q]) => status'[q] = status[q]
      BY DEF KeepsHistory
    <3>1. CASE q = r
      BY <1>1, <2>1, <2>2, <2>3, <3>1, OutcomeFacts, QueueAssumption
    <3>2. CASE q # r
      BY <2>1, <2>3, <3>2 DEF IInv, RowsTyped
    <3>3. QED
      BY <3>1, <3>2
  <2>8. DeadLettersCounted'
    <3> SUFFICES ASSUME NEW q \in Rows
                 PROVE  dead_letters'[q] = Cardinality(BuriedAttempts(q)') + Unaccounted(q)'
      BY DEF DeadLettersCounted
    <3>1. CASE q # r
      <4>1. BuriedAttempts(q)' = BuriedAttempts(q) /\ dead_letters'[q] = dead_letters[q]
        BY <2>1, <2>3, <3>1 DEF BuriedAttempts, IInv, RowsTyped
      <4>2. Unaccounted(q)' = Unaccounted(q)
        BY <2>1, <2>3, <3>1 DEF Unaccounted, Reconciled, IInv, RowsTyped
      <4>3. QED
        BY <4>1, <4>2 DEF IInv, DeadLettersCounted
    <3>0. ASSUME q = r
          PROVE  /\ dead_letters[q] = Cardinality(BuriedAttempts(q)) /\ dead_letters[q] \in Nat
                 /\ Unaccounted(q)' = 0
      <4>1. Unaccounted(q) = 0
        BY <2>1, <3>0 DEF Unaccounted
      <4>2. status'[q] = s /\ attempt_count'[q] = no /\ attempts'[q][no].outcome = s
        BY <1>1, <2>1, <2>3, <3>0 DEF IInv, RowsTyped
      <4>3. Unaccounted(q)' = 0
        BY <4>2 DEF Unaccounted, Reconciled
      <4>4. dead_letters[q] = Cardinality(BuriedAttempts(q)) + Unaccounted(q) /\ dead_letters[q] \in Nat
        BY DEF IInv, DeadLettersCounted, RowsTyped
      <4>5. Cardinality(BuriedAttempts(q)) \in Nat
        BY FiniteBuried, FS_CardinalityType
      <4>6. QED
        BY <4>1, <4>3, <4>4, <4>5
    <3>2. CASE q = r /\ s \notin Buried
      <4>1. BuriedAttempts(q)' = BuriedAttempts(q)
        BY <2>2, <2>3, <3>2 DEF BuriedAttempts, Buried
      <4>2. dead_letters'[q] = dead_letters[q]
        BY <2>1, <3>0, <3>2 DEF IInv, RowsTyped
      <4>3. QED
        BY <3>0, <3>2, <4>1, <4>2
    <3>3. CASE q = r /\ s \in Buried
      <4>1. /\ BuriedAttempts(q)' = BuriedAttempts(q) \cup {no}
            /\ no \notin BuriedAttempts(q)
        BY <2>2, <2>3, <3>3 DEF BuriedAttempts, Buried
      <4>2. IsFiniteSet(BuriedAttempts(q))
        BY FiniteBuried
      <4>3. dead_letters'[q] = dead_letters[q] + 1
        BY <2>1, <3>0, <3>3 DEF IInv, RowsTyped
      <4>4. Cardinality(BuriedAttempts(q) \cup {no}) = Cardinality(BuriedAttempts(q)) + 1
        BY <4>1, <4>2, FS_AddElement
      <4>5. QED
        BY <3>0, <3>3, <4>1, <4>3, <4>4
    <3>4. QED
      BY <3>1, <3>2, <3>3
  <2>9. QED
    BY <2>1, <2>4, <2>5, <2>6, <2>7, <2>8
<1>4. QED
  BY <1>2, <1>3


\* The parts of the invariant about the workers.
WorkersOK == WorkersTyped /\ LeasesInThePast /\ LeasesDisjoint /\ WorkerInTheMiddle

\* A worker that is done with a row, or with its whole batch, only drops leases.
LEMMA DroppingLeases ==
  ASSUME IInv, NEW w \in Workers, Proceed(w) \/ Abandon(w), attempt_count' = attempt_count
  PROVE  WorkersOK'
<1>1. /\ batch' \in [Workers -> SUBSET Lease]
      /\ \A v \in Workers : batch'[v] \subseteq batch[v]
      /\ \A v \in Workers : v # w => batch'[v] = batch[v]
  <2>1. CASE Proceed(w)
    BY <2>1 DEF Proceed, IInv, WorkersTyped
  <2>2. CASE Abandon(w)
    BY <2>2 DEF Abandon, IInv, WorkersTyped
  <2>3. QED
    BY <2>1, <2>2
<1>2. /\ pc' \in [Workers -> {"poll", "next", "record", "read", "write"}]
      /\ pc'[w] \in {"poll", "next"}
      /\ \A v \in Workers : v # w => pc'[v] = pc[v] /\ current'[v] = current[v] /\ result'[v] = result[v]
  <2>1. CASE Proceed(w)
    BY <2>1 DEF Proceed, IInv, WorkersTyped
  <2>2. CASE Abandon(w)
    BY <2>2 DEF Abandon, IInv, WorkersTyped
  <2>3. QED
    BY <2>1, <2>2
<1>3. WorkersTyped'
  <2>1. CASE Proceed(w)
    BY <1>1, <1>2, <2>1, OutcomeFacts DEF Proceed, IInv, WorkersTyped
  <2>2. CASE Abandon(w)
    BY <1>1, <1>2, <2>2, OutcomeFacts DEF Abandon, IInv, WorkersTyped, Tables
  <2>3. QED
    BY <2>1, <2>2
<1>4. LeasesInThePast' /\ LeasesDisjoint'
  BY <1>1 DEF IInv, LeasesInThePast, LeasesDisjoint
<1>5. WorkerInTheMiddle'
  BY <1>1, <1>2 DEF IInv, WorkerInTheMiddle
<1>6. QED
  BY <1>3, <1>4, <1>5 DEF WorkersOK

\* While no claim is made and the workers stay where they are, their part holds.
LEMMA WorkersAtRest ==
  ASSUME IInv, UNCHANGED worker_vars, attempt_count' = attempt_count
  PROVE  WorkersOK'
BY DEF WorkersOK, IInv, worker_vars, WorkersTyped, LeasesInThePast, LeasesDisjoint, WorkerInTheMiddle

\* A claim opens the next attempt of each of its rows, under numbers no lease has.
LEMMA ClaimKeeps ==
  ASSUME IInv, NEW w \in Workers, Claim(w)
  PROVE  IInv' /\ KeepsHistory
<1>1. PICK S \in SUBSET ClaimableOf(phase[w]) :
       /\ status' = [r \in Rows |-> IF r \in S THEN "processing" ELSE status[r]]
       /\ attempt_count' = [r \in Rows |-> IF r \in S THEN attempt_count[r] + 1 ELSE attempt_count[r]]
       /\ locked_by' = [r \in Rows |-> IF r \in S THEN NameOf[w] ELSE locked_by[r]]
       /\ lapsed' = [r \in Rows |-> IF r \in S THEN FALSE ELSE lapsed[r]]
       /\ attempts' = [r \in Rows |-> IF r \in S
                                      THEN OpenAttempt(attempts[r], attempt_count'[r], NameOf[w])
                                      ELSE attempts[r]]
       /\ batch' = [batch EXCEPT ![w] = {[row |-> r, attempt |-> attempt_count'[r]] : r \in S}]
  BY DEF Claim
<1>2. /\ pc[w] = "poll" /\ pc' = [pc EXCEPT ![w] = "next"]
      /\ UNCHANGED <<due, dead_letters, phase, current, result, caught, faults>>
  BY DEF Claim
<1>3. /\ S \subseteq Rows
      /\ \A r \in S : status[r] \in {"pending", "retryable", "processing"}
      /\ NameOf[w] \in Names
  BY QueueAssumption DEF ClaimableOf, Claimable
<1>4. \A r \in Rows : /\ attempts[r] \in Seq(Attempt) /\ Len(attempts[r]) = attempt_count[r]
                      /\ attempt_count[r] \in Nat
                      /\ DOMAIN attempts[r] = 1 .. attempt_count[r]
  <2> SUFFICES ASSUME NEW r \in Rows
               PROVE  /\ attempts[r] \in Seq(Attempt) /\ Len(attempts[r]) = attempt_count[r]
                      /\ attempt_count[r] \in Nat
                      /\ DOMAIN attempts[r] = 1 .. attempt_count[r]
    OBVIOUS
  <2>1. attempts[r] \in Seq(Attempt) /\ Len(attempts[r]) = attempt_count[r] /\ attempt_count[r] \in Nat
    BY DEF IInv, RowsTyped, LedgerTellsStatus
  <2>2. QED
    BY <2>1, LenProperties
<1>5. \A r \in Rows :
        /\ attempts'[r] \in Seq(Attempt)
        /\ Len(attempts'[r]) = attempt_count'[r]
        /\ DOMAIN attempts'[r] = 1 .. attempt_count'[r]
        /\ r \in S => attempts'[r][attempt_count'[r]].outcome = "claimed"
        /\ \A n \in DOMAIN attempts[r] : attempts'[r][n] = attempts[r][n]
  <2> SUFFICES ASSUME NEW r \in Rows
               PROVE  /\ attempts'[r] \in Seq(Attempt)
                      /\ Len(attempts'[r]) = attempt_count'[r]
                      /\ DOMAIN attempts'[r] = 1 .. attempt_count'[r]
                      /\ r \in S => attempts'[r][attempt_count'[r]].outcome = "claimed"
                      /\ \A n \in DOMAIN attempts[r] : attempts'[r][n] = attempts[r][n]
    OBVIOUS
  <2>1. CASE r \notin S
    BY <1>1, <1>4, <2>1
  <2>2. CASE r \in S
    <3>1. attempt_count'[r] = Len(attempts[r]) + 1
      BY <1>1, <1>4, <2>2
    <3>2. attempts'[r] = OpenAttempt(attempts[r], Len(attempts[r]) + 1, NameOf[w])
      BY <1>1, <2>2, <3>1
    <3>3. /\ attempts'[r] \in Seq(Attempt)
          /\ Len(attempts'[r]) = Len(attempts[r]) + 1
          /\ attempts'[r][Len(attempts[r]) + 1] = [worker |-> NameOf[w], outcome |-> "claimed"]
          /\ \A n \in DOMAIN attempts[r] : attempts'[r][n] = attempts[r][n]
      BY <1>3, <1>4, <3>2, OpenAttemptAppends
    <3>4. DOMAIN attempts'[r] = 1 .. Len(attempts'[r])
      BY <3>3, LenProperties
    <3>5. QED
      BY <3>1, <3>3, <3>4
  <2>3. QED
    BY <2>1, <2>2
<1>6. RowsTyped'
  <2>1. attempts' \in [Rows -> Seq(Attempt)]
    BY <1>1, <1>5
  <2>2. status' \in [Rows -> Statuses]
    BY <1>1 DEF IInv, RowsTyped, Statuses
  <2>3. attempt_count' \in [Rows -> Nat]
    BY <1>1, <1>4
  <2>4. locked_by' \in [Rows -> Names \cup {NoName}]
    BY <1>1, <1>3 DEF IInv, RowsTyped
  <2>5. lapsed' \in [Rows -> BOOLEAN]
    BY <1>1 DEF IInv, RowsTyped
  <2>6. QED
    BY <1>2, <2>1, <2>2, <2>3, <2>4, <2>5 DEF IInv, RowsTyped
<1>7. LedgerTellsStatus'
  <2> SUFFICES ASSUME NEW r \in Rows
               PROVE  /\ Len(attempts'[r]) = attempt_count'[r]
                      /\ status'[r] = "absent" => attempt_count'[r] = 0
                      /\ status'[r] = "processing" => /\ attempt_count'[r] > 0
                                                      /\ attempts'[r][attempt_count'[r]].outcome = "claimed"
                      /\ status'[r] \in Outcomes =>
                           /\ attempt_count'[r] > 0
                           /\ attempts'[r][attempt_count'[r]].outcome = status'[r] \/ Reconciled(r)'
    BY DEF LedgerTellsStatus
  <2>1. CASE r \in S
    BY <1>1, <1>4, <1>5, <2>1, OutcomeFacts
  <2>2. CASE r \notin S
    BY <1>1, <1>4, <1>5, <2>2 DEF IInv, LedgerTellsStatus, Reconciled
  <2>3. QED
    BY <2>1, <2>2
<1>8. GrantsWithinBudget'
  BY <1>1, <1>4, <1>5 DEF IInv, GrantsWithinBudget
<1>9. KeepsHistory
  BY <1>1, <1>3, <1>4, <1>5, OutcomeFacts, QueueAssumption DEF KeepsHistory
<1>10. \A r \in Rows : attempt_count[r] <= attempt_count'[r] /\ attempt_count'[r] \in Nat
  BY <1>1, <1>4
<1>11. /\ batch' \in [Workers -> SUBSET Lease]
       /\ \A v \in Workers : v # w => batch'[v] = batch[v]
       /\ \A l \in batch'[w] : l.row \in S /\ l.attempt = attempt_count[l.row] + 1
                               /\ l.attempt = attempt_count'[l.row]
  <2>1. /\ batch \in [Workers -> SUBSET Lease]
        /\ batch' = [batch EXCEPT ![w] = {[row |-> r, attempt |-> attempt_count'[r]] : r \in S}]
    BY <1>1 DEF IInv, WorkersTyped
  <2>2. {[row |-> r, attempt |-> attempt_count'[r]] : r \in S} \subseteq Lease
    BY <1>3, <1>10 DEF Lease
  <2>3. \A r \in S : attempt_count'[r] = attempt_count[r] + 1
    BY <1>1, <1>3
  <2>4. batch'[w] = {[row |-> r, attempt |-> attempt_count'[r]] : r \in S}
    BY <2>1
  <2>5. \A l \in batch'[w] : \E r \in S : l = [row |-> r, attempt |-> attempt_count'[r]]
    BY <2>4
  <2>6. QED
    BY <2>1, <2>2, <2>3, <2>5
<1>12. WorkersTyped'
  BY <1>2, <1>11 DEF IInv, WorkersTyped
<1>13. LeasesInThePast'
  BY <1>4, <1>10, <1>11 DEF IInv, LeasesInThePast, WorkersTyped, Lease
<1>14. LeasesDisjoint'
  <2> SUFFICES ASSUME NEW v \in Workers, NEW u \in Workers, NEW l \in batch'[v], l \in batch'[u]
               PROVE  v = u
    BY DEF LeasesDisjoint
  <2>1. \A x \in Workers \ {w} : l \in batch'[x] => l.attempt <= attempt_count[l.row] /\ l.row \in Rows
    BY <1>11 DEF IInv, LeasesInThePast, WorkersTyped, Lease
  <2>2. l \in batch'[w] => l.attempt = attempt_count[l.row] + 1
    BY <1>11
  <2>3. CASE v = w \/ u = w
    BY <1>4, <2>1, <2>2, <2>3
  <2>4. CASE v # w /\ u # w
    BY <1>11, <2>4 DEF IInv, LeasesDisjoint
  <2>5. QED
    BY <2>3, <2>4
<1>15. WorkerInTheMiddle'
  <2> SUFFICES ASSUME NEW v \in Workers
               PROVE  /\ pc'[v] \in {"record", "read", "write"} => current'[v] \in batch'[v]
                      /\ pc'[v] = "record" => result'[v] \in Outcomes \ {"retryable"}
                      /\ pc'[v] = "write" => result'[v] \in {"retryable", "dead_lettered"}
                      /\ pc'[v] = "write" /\ result'[v] = "retryable" => current'[v].attempt < MaxAttempts
                      /\ pc'[v] = "write" /\ result'[v] = "dead_lettered"
                           => attempt_count'[current'[v].row] >= MaxAttempts
    BY DEF WorkerInTheMiddle
  <2>1. CASE v = w
    BY <1>2, <2>1 DEF IInv, WorkersTyped
  <2>2. CASE v # w
    <3>1. pc'[v] = pc[v] /\ current'[v] = current[v] /\ result'[v] = result[v] /\ batch'[v] = batch[v]
      BY <1>2, <1>11, <2>2 DEF IInv, WorkersTyped
    <3>2. pc[v] = "write" => current[v].row \in Rows
      BY DEF IInv, WorkerInTheMiddle, WorkersTyped, Lease
    <3>3. QED
      BY <1>4, <1>10, <3>1, <3>2, QueueAssumption DEF IInv, WorkerInTheMiddle
  <2>3. QED
    BY <2>1, <2>2
<1>16. DeadLettersCounted'
  <2> SUFFICES ASSUME NEW r \in Rows
               PROVE  dead_letters'[r] = Cardinality(BuriedAttempts(r)') + Unaccounted(r)'
    BY DEF DeadLettersCounted
  <2>1. BuriedAttempts(r)' = BuriedAttempts(r)
    <3>1. CASE r \in S
      BY <1>1, <1>4, <1>5, <3>1 DEF BuriedAttempts, Buried
    <3>2. CASE r \notin S
      BY <1>1, <3>2 DEF BuriedAttempts
    <3>3. QED
      BY <3>1, <3>2
  <2>2. Unaccounted(r)' = Unaccounted(r)
    <3>1. CASE r \in S
      BY <1>1, <1>3, <3>1 DEF Unaccounted
    <3>2. CASE r \notin S
      BY <1>1, <3>2 DEF Unaccounted, Reconciled
    <3>3. QED
      BY <3>1, <3>2
  <2>3. QED
    BY <1>2, <2>1, <2>2 DEF IInv, DeadLettersCounted
<1>17. QED
  BY <1>2, <1>6, <1>7, <1>8, <1>9, <1>12, <1>13, <1>14, <1>15, <1>16 DEF IInv


\* The handler's result puts the worker in the middle of the row it took.
LEMMA HandleKeeps ==
  ASSUME IInv, NEW w \in Workers, Handle(w)
  PROVE  IInv' /\ KeepsHistory
<1>1. PICK l \in batch[w] : \E o \in {"throws"} \cup HandlerOutcomes(Table[l.row]) :
       /\ current' = [current EXCEPT ![w] = l]
       /\ result' = [result EXCEPT ![w] = o]
       /\ pc' = [pc EXCEPT ![w] = IF o \in {"throws", "retryable"} THEN "read" ELSE "record"]
       /\ caught' = [caught EXCEPT ![w] = o = "throws"]
  BY DEF Handle
<1>2. PICK o \in {"throws"} \cup HandlerOutcomes(Table[l.row]) :
       /\ current' = [current EXCEPT ![w] = l]
       /\ result' = [result EXCEPT ![w] = o]
       /\ pc' = [pc EXCEPT ![w] = IF o \in {"throws", "retryable"} THEN "read" ELSE "record"]
       /\ caught' = [caught EXCEPT ![w] = o = "throws"]
  BY <1>1
<1>3. l \in Lease /\ o \in {"throws"} \cup Outcomes
  BY <1>1, <1>2, OutcomeFacts, QueueAssumption DEF IInv, WorkersTyped, Lease
<1>4. UNCHANGED <<row_vars, phase, batch, faults>>
  BY DEF Handle
<1>5. /\ RowsTyped' /\ LedgerTellsStatus' /\ GrantsWithinBudget' /\ DeadLettersCounted'
      /\ KeepsHistory /\ attempt_count' = attempt_count
  BY <1>4, RowsAtRest
<1>6. WorkersTyped'
  BY <1>2, <1>3, <1>4 DEF IInv, WorkersTyped
<1>7. LeasesInThePast' /\ LeasesDisjoint'
  BY <1>4, <1>5 DEF IInv, LeasesInThePast, LeasesDisjoint
<1>8. WorkerInTheMiddle'
  BY <1>2, <1>3, <1>4, <1>5 DEF IInv, WorkerInTheMiddle, WorkersTyped
<1>9. QED
  BY <1>4, <1>5, <1>6, <1>7, <1>8 DEF IInv

\* The retry decision: the count read is no smaller than the lease's number, and
\* the row's count never gets smaller than the count read.
LEMMA ReadAttemptsKeeps ==
  ASSUME IInv, NEW w \in Workers, ReadAttempts(w)
  PROVE  IInv' /\ KeepsHistory
<1> DEFINE l == current[w]
           verdict == IF attempt_count[l.row] >= MaxAttempts THEN "dead_lettered" ELSE "retryable"
<1>1. /\ pc[w] = "read"
      /\ result' = [result EXCEPT ![w] = verdict]
      /\ pc' = [pc EXCEPT ![w] = "write"]
      /\ UNCHANGED <<row_vars, phase, batch, current, caught, faults>>
  BY DEF ReadAttempts
<1>2. /\ l \in batch[w] /\ l \in Lease
      /\ l.attempt <= attempt_count[l.row] /\ attempt_count[l.row] \in Nat
  BY <1>1 DEF IInv, WorkerInTheMiddle, LeasesInThePast, WorkersTyped, RowsTyped, Lease
<1>3. /\ RowsTyped' /\ LedgerTellsStatus' /\ GrantsWithinBudget' /\ DeadLettersCounted'
      /\ KeepsHistory /\ attempt_count' = attempt_count
  BY <1>1, RowsAtRest
<1>4. WorkersTyped'
  BY <1>1, OutcomeFacts DEF IInv, WorkersTyped
<1>5. LeasesInThePast' /\ LeasesDisjoint'
  BY <1>1, <1>3 DEF IInv, LeasesInThePast, LeasesDisjoint
<1>6. WorkerInTheMiddle'
  <2> SUFFICES ASSUME NEW v \in Workers
               PROVE  /\ pc'[v] \in {"record", "read", "write"} => current'[v] \in batch'[v]
                      /\ pc'[v] = "record" => result'[v] \in Outcomes \ {"retryable"}
                      /\ pc'[v] = "write" => result'[v] \in {"retryable", "dead_lettered"}
                      /\ pc'[v] = "write" /\ result'[v] = "retryable" => current'[v].attempt < MaxAttempts
                      /\ pc'[v] = "write" /\ result'[v] = "dead_lettered"
                           => attempt_count'[current'[v].row] >= MaxAttempts
    BY DEF WorkerInTheMiddle
  <2>1. CASE v = w
    <3>1. pc'[v] = "write" /\ result'[v] = verdict /\ current'[v] = l /\ batch'[v] = batch[v]
      BY <1>1, <2>1 DEF IInv, WorkersTyped
    <3>2. QED
      BY <1>2, <1>3, <2>1, <3>1, QueueAssumption DEF Lease
  <2>2. CASE v # w
    BY <1>1, <1>3, <2>2 DEF IInv, WorkersTyped, WorkerInTheMiddle
  <2>3. QED
    BY <2>1, <2>2
<1>7. QED
  BY <1>1, <1>3, <1>4, <1>5, <1>6 DEF IInv

\* A failed statement may or may not have taken effect; the worker keeps its row
\* for the catch branch or drops its batch.
LEMMA StatementFailsKeeps ==
  ASSUME IInv, NEW w \in Workers, StatementFails(w)
  PROVE  IInv' /\ KeepsHistory
<1>1. /\ RowsTyped' /\ LedgerTellsStatus' /\ GrantsWithinBudget' /\ DeadLettersCounted'
      /\ KeepsHistory /\ attempt_count' = attempt_count
  <2>1. CASE UNCHANGED row_vars
    BY <2>1, RowsAtRest
  <2>2. CASE pc[w] # "read" /\ Finalize(w, current[w], result[w])
    BY <2>2, FinalizeKeeps DEF StatementFails
  <2>3. QED
    BY <2>1, <2>2 DEF StatementFails
<1>2. faults' \in Nat
  BY DEF StatementFails, IInv
<1>3. WorkersOK'
  <2>1. CASE caught[w]
    BY <1>1, <2>1, DroppingLeases DEF StatementFails
  <2>2. CASE ~caught[w]
    <3>1. /\ pc[w] \in {"record", "read", "write"}
          /\ caught' = [caught EXCEPT ![w] = TRUE]
          /\ pc' = [pc EXCEPT ![w] = "read"]
          /\ UNCHANGED <<phase, batch, current, result>>
      BY <2>2 DEF StatementFails
    <3>2. WorkersTyped'
      BY <3>1 DEF IInv, WorkersTyped
    <3>3. LeasesInThePast' /\ LeasesDisjoint'
      BY <1>1, <3>1 DEF IInv, LeasesInThePast, LeasesDisjoint
    <3>4. WorkerInTheMiddle'
      BY <1>1, <3>1 DEF IInv, WorkersTyped, WorkerInTheMiddle
    <3>5. QED
      BY <3>2, <3>3, <3>4 DEF WorkersOK
  <2>3. QED
    BY <2>1, <2>2
<1>4. QED
  BY <1>1, <1>2, <1>3 DEF IInv, WorkersOK

\* What happens to a row outside the workers leaves its ledger and count alone.
LEMMA RowStepKeeps ==
  ASSUME IInv, NEW r \in Rows,
         Insert(r) \/ BecomeDue(r) \/ Lapse(r) \/ Replay(r) \/ Cancel(r)
  PROVE  IInv' /\ KeepsHistory
<1>1. /\ UNCHANGED <<attempt_count, attempts, dead_letters, worker_vars>>
      /\ faults' \in Nat
      /\ RowsTyped'
      /\ \A q \in Rows : \/ status'[q] = status[q]
                         \/ status'[q] = "pending" /\ (status[q] = "absent" \/ Table[q] = "inbox")
                         \/ status'[q] = "cancelled" /\ Table[q] = "jobs"
      /\ \A q \in Rows : status[q] \in Settled(Table[q]) /\ status'[q] # status[q] =>
           \/ Table[q] = "inbox" /\ status'[q] = "pending"
           \/ Table[q] = "jobs" /\ status[q] # "completed" /\ status'[q] = "cancelled"
  <2>1. CASE Insert(r)
    <3>1. status[r] \notin Settled(Table[r])
      BY <2>1, OutcomeFacts, QueueAssumption DEF Insert
    <3>2. QED
      BY <2>1, <3>1 DEF Insert, IInv, RowsTyped, Statuses
  <2>2. CASE BecomeDue(r)
    BY <2>2 DEF BecomeDue, IInv, RowsTyped
  <2>3. CASE Lapse(r)
    BY <2>3 DEF Lapse, IInv, RowsTyped
  <2>4. CASE Replay(r)
    BY <2>4 DEF Replay, IInv, RowsTyped, Statuses
  <2>5. CASE Cancel(r)
    BY <2>5 DEF Cancel, IInv, RowsTyped, Statuses
  <2>6. QED
    BY <2>1, <2>2, <2>3, <2>4, <2>5
<1>2. RowsTyped'
  BY <1>1
<1>3. LedgerTellsStatus'
  BY <1>1, OutcomeFacts DEF IInv, LedgerTellsStatus, Reconciled
<1>4. GrantsWithinBudget'
  BY <1>1 DEF IInv, GrantsWithinBudget
<1>5. KeepsHistory
  BY <1>1 DEF KeepsHistory
<1>6. WorkersOK'
  BY <1>1, WorkersAtRest
<1>7. DeadLettersCounted'
  <2>1. \A q \in Rows : BuriedAttempts(q)' = BuriedAttempts(q)
    BY <1>1 DEF BuriedAttempts
  <2>2. \A q \in Rows : Unaccounted(q)' = Unaccounted(q)
    BY <1>1 DEF Unaccounted, Reconciled
  <2>3. QED
    BY <1>1, <2>1, <2>2 DEF IInv, DeadLettersCounted
<1>8. QED
  BY <1>1, <1>2, <1>3, <1>4, <1>5, <1>6, <1>7 DEF IInv, WorkersOK

\* A reconciliation settles a command its last attempt left open, and accounts for
\* the dead letter itself.
LEMMA ReconcileKeeps ==
  ASSUME IInv, NEW r \in Rows, Reconcile(r)
  PROVE  IInv' /\ KeepsHistory
<1>1. PICK s \in {"delivered", "permanently_failed"} :
        /\ status' = [status EXCEPT ![r] = s]
        /\ dead_letters' = [dead_letters EXCEPT ![r] = dead_letters[r] + IF s \in Buried THEN 1 ELSE 0]
  BY DEF Reconcile
<1>2. /\ Table[r] = "outbox" /\ status[r] = "delivery_unknown"
      /\ locked_by' = [locked_by EXCEPT ![r] = NoName]
      /\ lapsed' = [lapsed EXCEPT ![r] = FALSE]
      /\ UNCHANGED <<attempt_count, due, attempts, worker_vars, faults>>
  BY DEF Reconcile
<1>3. /\ attempt_count[r] > 0
      /\ attempts[r][attempt_count[r]].outcome = "delivery_unknown"
  BY <1>2, OutcomeFacts DEF IInv, LedgerTellsStatus, Reconciled
<1>4. /\ status'[r] = s /\ Reconciled(r)'
      /\ \A q \in Rows : q # r => status'[q] = status[q] /\ dead_letters'[q] = dead_letters[q]
  BY <1>1, <1>2, <1>3 DEF Reconciled, IInv, RowsTyped
<1>5. RowsTyped'
  BY <1>1, <1>2, OutcomeFacts DEF IInv, RowsTyped, Statuses
<1>6. LedgerTellsStatus'
  <2> SUFFICES ASSUME NEW q \in Rows
               PROVE  /\ Len(attempts'[q]) = attempt_count'[q]
                      /\ status'[q] = "absent" => attempt_count'[q] = 0
                      /\ status'[q] = "processing" => /\ attempt_count'[q] > 0
                                                      /\ attempts'[q][attempt_count'[q]].outcome = "claimed"
                      /\ status'[q] \in Outcomes =>
                           /\ attempt_count'[q] > 0
                           /\ attempts'[q][attempt_count'[q]].outcome = status'[q] \/ Reconciled(q)'
    BY DEF LedgerTellsStatus
  <2>1. CASE q = r
    BY <1>2, <1>3, <1>4, <2>1 DEF IInv, LedgerTellsStatus
  <2>2. CASE q # r
    BY <1>2, <1>4, <2>2 DEF IInv, LedgerTellsStatus, Reconciled
  <2>3. QED
    BY <2>1, <2>2
<1>7. GrantsWithinBudget'
  BY <1>2 DEF IInv, GrantsWithinBudget
<1>8. KeepsHistory
  <2>1. s \in Settled("outbox")
    BY DEF Settled, HandlerOutcomes
  <2>2. QED
    BY <1>2, <1>4, <2>1 DEF KeepsHistory
<1>9. WorkersOK'
  BY <1>2, WorkersAtRest
<1>10. DeadLettersCounted'
  <2> SUFFICES ASSUME NEW q \in Rows
               PROVE  dead_letters'[q] = Cardinality(BuriedAttempts(q)') + Unaccounted(q)'
    BY DEF DeadLettersCounted
  <2>1. BuriedAttempts(q)' = BuriedAttempts(q)
    BY <1>2 DEF BuriedAttempts
  <2>2. CASE q = r
    <3>1. dead_letters[q] = Cardinality(BuriedAttempts(q)) + 0 /\ dead_letters[q] \in Nat
      BY <1>2, <2>2 DEF IInv, DeadLettersCounted, Unaccounted, RowsTyped
    <3>2. dead_letters'[q] = dead_letters[q] + IF s \in Buried THEN 1 ELSE 0
      BY <1>1, <2>2 DEF IInv, RowsTyped
    <3>3. Unaccounted(q)' = IF s \in Buried THEN 1 ELSE 0
      BY <1>4, <2>2 DEF Unaccounted, Buried
    <3>4. Cardinality(BuriedAttempts(q)) \in Nat
      BY FiniteBuried, FS_CardinalityType
    <3>5. QED
      BY <2>1, <3>1, <3>2, <3>3, <3>4
  <2>3. CASE q # r
    <3>1. Unaccounted(q)' = Unaccounted(q)
      BY <1>2, <1>4, <2>3 DEF Unaccounted, Reconciled
    <3>2. QED
      BY <1>4, <2>1, <2>3, <3>1 DEF IInv, DeadLettersCounted
  <2>4. QED
    BY <2>2, <2>3
<1>11. QED
  BY <1>2, <1>5, <1>6, <1>7, <1>8, <1>9, <1>10 DEF IInv, WorkersOK

-----------------------------------------------------------------------------

\* The invariant holds of the empty queues.
LEMMA InitOK == Init => IInv
<1> SUFFICES ASSUME Init PROVE IInv
  OBVIOUS
<1>1. RowsTyped
  BY DEF Init, RowsTyped, Statuses
<1>2. WorkersTyped /\ faults \in Nat
  BY DEF Init, WorkersTyped, Tables
<1>3. LeasesInThePast /\ LeasesDisjoint /\ WorkerInTheMiddle
  BY DEF Init, LeasesInThePast, LeasesDisjoint, WorkerInTheMiddle
<1>4. LedgerTellsStatus /\ GrantsWithinBudget
  BY OutcomeFacts DEF Init, LedgerTellsStatus, GrantsWithinBudget
<1>5. DeadLettersCounted
  <2>1. \A r \in Rows : BuriedAttempts(r) = {} /\ Unaccounted(r) = 0
    BY DEF Init, BuriedAttempts, Unaccounted
  <2>2. Cardinality({}) = 0
    BY FS_EmptySet
  <2>3. \A r \in Rows : dead_letters[r] = 0
    BY DEF Init
  <2>4. QED
    BY <2>1, <2>2, <2>3 DEF DeadLettersCounted
<1>6. QED
  BY <1>1, <1>2, <1>3, <1>4, <1>5 DEF IInv

\* Every step keeps the invariant and the history.
LEMMA StepOK == IInv /\ [Next]_vars => IInv' /\ KeepsHistory
<1> SUFFICES ASSUME IInv, [Next]_vars PROVE IInv' /\ KeepsHistory
  OBVIOUS
<1>1. ASSUME NEW w \in Workers, Claim(w) PROVE IInv' /\ KeepsHistory
  BY <1>1, ClaimKeeps
<1>2. ASSUME NEW w \in Workers, EmptyClaim(w) PROVE IInv' /\ KeepsHistory
  <2>1. /\ UNCHANGED row_vars /\ UNCHANGED <<batch, pc, current, result, caught, faults>>
        /\ phase' = [phase EXCEPT ![w] = NextPhase(phase[w])]
    BY <1>2 DEF EmptyClaim
  <2>2. WorkersTyped'
    BY <2>1, OutcomeFacts DEF IInv, WorkersTyped
  <2>3. LeasesInThePast' /\ LeasesDisjoint' /\ WorkerInTheMiddle'
    BY <2>1, RowsAtRest DEF IInv, LeasesInThePast, LeasesDisjoint, WorkerInTheMiddle
  <2>4. QED
    BY <2>1, <2>2, <2>3, RowsAtRest DEF IInv
<1>3. ASSUME NEW w \in Workers, Handle(w) PROVE IInv' /\ KeepsHistory
  BY <1>3, HandleKeeps
<1>4. ASSUME NEW w \in Workers, Record(w) \/ WriteRetry(w) PROVE IInv' /\ KeepsHistory
  <2>1. /\ pc[w] \in {"record", "write"}
        /\ Finalize(w, current[w], result[w]) /\ Proceed(w) /\ UNCHANGED faults
    BY <1>4 DEF Record, WriteRetry
  <2>2. QED
    BY <2>1, FinalizeKeeps, DroppingLeases DEF IInv, WorkersOK
<1>5. ASSUME NEW w \in Workers, ReadAttempts(w) PROVE IInv' /\ KeepsHistory
  BY <1>5, ReadAttemptsKeeps
<1>6. ASSUME NEW w \in Workers, StatementFails(w) PROVE IInv' /\ KeepsHistory
  BY <1>6, StatementFailsKeeps
<1>7. ASSUME NEW w \in Workers, Crash(w) PROVE IInv' /\ KeepsHistory
  <2>1. UNCHANGED row_vars /\ Abandon(w) /\ faults' \in Nat
    BY <1>7 DEF Crash, IInv
  <2>2. QED
    BY <2>1, RowsAtRest, DroppingLeases DEF IInv, WorkersOK
<1>8. ASSUME NEW r \in Rows,
             Insert(r) \/ BecomeDue(r) \/ Lapse(r) \/ Replay(r) \/ Cancel(r)
      PROVE  IInv' /\ KeepsHistory
  BY <1>8, RowStepKeeps
<1>9. ASSUME NEW r \in Rows, Reconcile(r) PROVE IInv' /\ KeepsHistory
  BY <1>9, ReconcileKeeps
<1>10. CASE UNCHANGED vars
  <2>1. UNCHANGED row_vars /\ UNCHANGED worker_vars /\ UNCHANGED faults
    BY <1>10 DEF vars
  <2>2. QED
    BY <2>1, RowsAtRest, WorkersAtRest DEF IInv, WorkersOK
<1>11. QED
  BY <1>1, <1>2, <1>3, <1>4, <1>5, <1>6, <1>7, <1>8, <1>9, <1>10 DEF Next

\* The inductive invariant implies the properties the runs check.
LEMMA InvariantImplies ==
  ASSUME IInv
  PROVE  TypeOK /\ ExclusiveLease /\ RetryDecisionCurrent /\ RetriesWithinBudget
<1>1. TypeOK
  BY TypeHalves DEF IInv
<1>2. ExclusiveLease
  <2> SUFFICES ASSUME NEW v \in Workers, NEW w \in Workers,
                      NEW k \in batch[v], NEW l \in batch[w],
                      k.row = l.row, Holds(v, k), Holds(w, l)
               PROVE  v = w /\ k = l
    BY DEF ExclusiveLease
  <2>1. k \in Lease /\ l \in Lease
    BY DEF IInv, WorkersTyped
  <2>2. k.attempt = l.attempt
    BY DEF Holds
  <2>3. k = l
    BY <2>1, <2>2 DEF Lease
  <2>4. QED
    BY <2>3 DEF IInv, LeasesDisjoint
<1>3. RetryDecisionCurrent
  <2> SUFFICES ASSUME NEW w \in Workers, pc[w] = "write", Holds(w, current[w])
               PROVE  result[w] = "dead_lettered" <=> attempt_count[current[w].row] >= MaxAttempts
    BY DEF RetryDecisionCurrent
  <2>1. current[w] \in Lease /\ attempt_count[current[w].row] = current[w].attempt
    BY DEF IInv, WorkersTyped, WorkerInTheMiddle, Holds
  <2>2. QED
    BY <2>1, QueueAssumption DEF IInv, WorkerInTheMiddle, Lease
<1>4. RetriesWithinBudget
  BY DEF IInv, GrantsWithinBudget, DeadLettersCounted, Unaccounted, RetriesWithinBudget
<1>5. QED
  BY <1>1, <1>2, <1>3, <1>4

\* Every behaviour of the queues satisfies the inductive invariant.
THEOREM InductiveInvariant == Spec => []IInv
<1>1. Init => IInv
  BY InitOK
<1>2. IInv /\ [Next]_vars => IInv'
  BY StepOK
<1>3. QED
  BY <1>1, <1>2, PTL DEF Spec

\* Type correctness of the rows and of the workers' loops.
THEOREM TypeCorrectness == Spec => []TypeOK
<1>1. IInv => TypeOK
  BY InvariantImplies
<1>2. QED
  BY <1>1, InductiveInvariant, PTL

\* The fence of runtime.ts:39-63 admits one lease per row, for every number of
\* workers and even when they share a name.
THEOREM FenceIsExclusive == Spec => []ExclusiveLease
<1>1. IInv => ExclusiveLease
  BY InvariantImplies
<1>2. QED
  BY <1>1, InductiveInvariant, PTL

\* The ledger, the status and the number of dead letters never disagree, and
\* retry() grants no attempt beyond max_attempts.
THEOREM LedgerIsFaithful == Spec => [](LedgerTellsStatus /\ RetriesWithinBudget)
<1>1. IInv => LedgerTellsStatus /\ RetriesWithinBudget
  BY InvariantImplies DEF IInv
<1>2. QED
  BY <1>1, InductiveInvariant, PTL

\* The unlocked read that retry() decides on is as good as one at its write.
THEOREM RetryReadIsSafe == Spec => []RetryDecisionCurrent
<1>1. IInv => RetryDecisionCurrent
  BY InvariantImplies
<1>2. QED
  BY <1>1, InductiveInvariant, PTL

\* Finished attempts and settled rows stay as they are, replays and
\* cancellations apart.
THEOREM HistoryStands == Spec => HistoryIsFinal
<1>1. IInv /\ [Next]_vars => [KeepsHistory]_vars
  BY StepOK
<1>2. KeepsHistory <=>
        (\A r \in Rows :
           /\ \A n \in DOMAIN attempts[r] :
                /\ n \in DOMAIN attempts'[r]
                /\ attempts[r][n].outcome # "claimed" => attempts'[r][n] = attempts[r][n]
           /\ status[r] \in Settled(Table[r]) /\ status'[r] # status[r] =>
                \/ Table[r] = "inbox" /\ status'[r] = "pending"
                \/ Table[r] = "outbox" /\ status[r] = "delivery_unknown" /\ status'[r] \in Settled("outbox")
                \/ Table[r] = "jobs" /\ status[r] # "completed" /\ status'[r] = "cancelled")
  BY DEF KeepsHistory
<1>3. QED
  BY <1>1, <1>2, InductiveInvariant, PTL DEF Spec, HistoryIsFinal

-----------------------------------------------------------------------------
(* The queue that this model has implements Leases. *)

\* A function that differs from another at one place.
LEMMA DiffersAtOne ==
  ASSUME NEW S, NEW w \in S, NEW f, NEW g, NEW x, f = [v \in S |-> f[v]], g = [v \in S |-> g[v]],
         \A v \in S \ {w} : g[v] = f[v], g[w] = x
  PROVE  g = [f EXCEPT ![w] = x]
OBVIOUS

\* A worker that asks for rows has none, and only jobs are cancelled.
LeasesKept ==
  /\ \A w \in Workers : pc[w] = "poll" => batch[w] = {}
  /\ \A r \in Rows : status[r] = "cancelled" => Table[r] = "jobs"

\* The rows a worker believes to have, and those that it holds.
Has(w) == {l.row : l \in batch[w]}
Held(w) == {l.row : l \in {k \in batch[w] : Holds(w, k)}}

LEMMA StartsAsLeases == Init => RowLeases!LeasesInit /\ LeasesKept
<1> SUFFICES ASSUME Init PROVE RowLeases!LeasesInit /\ LeasesKept
  OBVIOUS
<1>1. \A w \in Workers : Has(w) = {} /\ Held(w) = {}
  BY DEF Init, Has, Held
<1>2. \A r \in Rows : RowState(r) = "new"
  BY DEF Init, RowState
<1>3. LeasesKept
  BY DEF Init, LeasesKept
<1>4. attempt_count = [r \in Rows |-> 0]
  BY DEF Init
<1> QED
  BY <1>1, <1>2, <1>3, <1>4 DEF RowLeases!LeasesInit, Has, Held

\* What a finalizer writes, or nothing.
Finalizes(w) ==
  \/ UNCHANGED <<status, locked_by>>
  \/ \E l \in batch[w], s \in Outcomes :
       /\ Holds(w, l)
       /\ status' = [status EXCEPT ![l.row] = s]
       /\ locked_by' = [locked_by EXCEPT ![l.row] = NoName]

\* The worker goes on with the leases in its batch, or with some of them.
KeepsSome(w) ==
  /\ batch' \in [Workers -> SUBSET Lease] /\ batch'[w] \subseteq batch[w]
  /\ \A v \in Workers \ {w} : batch'[v] = batch[v]

LEMMA FinalizingKeepsLeases ==
  ASSUME IInv, NEW w \in Workers, Finalizes(w), KeepsSome(w), UNCHANGED attempt_count
  PROVE  RowLeases!Leave(w)
<1> DEFINE state_ == [r \in Rows |-> RowState(r)]
           has == [v \in Workers |-> Has(v)]
           holds == [v \in Workers |-> Held(v)]
<1>0. RowsTyped /\ WorkersTyped /\ ExclusiveLease
  BY InvariantImplies DEF IInv
<1>1. \A v \in Workers : \A k \in batch[v] : k \in Lease /\ k.row \in Rows
  BY <1>0 DEF WorkersTyped, Lease
<1>2. \A v \in Workers \ {w} : \A k \in batch[v] : Holds(v, k)' <=> Holds(v, k)
  <2>1. CASE UNCHANGED <<status, locked_by>>
    BY <2>1 DEF Holds
  <2>2. ASSUME NEW l \in batch[w], NEW s \in Outcomes, Holds(w, l),
               status' = [status EXCEPT ![l.row] = s],
               locked_by' = [locked_by EXCEPT ![l.row] = NoName],
               NEW v \in Workers \ {w}, NEW k \in batch[v]
        PROVE  Holds(v, k)' <=> Holds(v, k)
    <3>1. CASE k.row = l.row
      <4>1. ~Holds(v, k)
        BY <1>0, <2>2, <3>1 DEF ExclusiveLease
      <4>2. status'[k.row] # "processing"
        BY <1>0, <1>1, <2>2, <3>1, OutcomeFacts DEF RowsTyped
      <4> QED
        BY <4>1, <4>2 DEF Holds
    <3>2. CASE k.row # l.row
      BY <1>0, <1>1, <2>2, <3>2 DEF Holds, RowsTyped
    <3> QED
      BY <3>1, <3>2
  <2> QED
    BY <2>1, <2>2 DEF Finalizes
<1>3. \A k \in batch[w] : Holds(w, k)' => Holds(w, k)
  <2>1. CASE UNCHANGED <<status, locked_by>>
    BY <2>1 DEF Holds
  <2>2. ASSUME NEW l \in batch[w], NEW s \in Outcomes, Holds(w, l),
               status' = [status EXCEPT ![l.row] = s],
               locked_by' = [locked_by EXCEPT ![l.row] = NoName],
               NEW k \in batch[w], Holds(w, k)'
        PROVE  Holds(w, k)
    <3>1. k.row # l.row
      BY <1>0, <1>1, <2>2, OutcomeFacts DEF Holds, RowsTyped
    <3> QED
      BY <1>0, <1>1, <2>2, <3>1 DEF Holds, RowsTyped
  <2> QED
    BY <2>1, <2>2 DEF Finalizes
<1>4. \A r \in Rows : RowState(r)' # RowState(r) =>
        r \in Held(w) /\ r \notin Held(w)' /\ RowState(r)' = "over"
  <2>1. CASE UNCHANGED <<status, locked_by>>
    BY <2>1 DEF RowState
  <2>2. ASSUME NEW l \in batch[w], NEW s \in Outcomes, Holds(w, l),
               status' = [status EXCEPT ![l.row] = s],
               locked_by' = [locked_by EXCEPT ![l.row] = NoName],
               NEW r \in Rows, RowState(r)' # RowState(r)
        PROVE  r \in Held(w) /\ r \notin Held(w)' /\ RowState(r)' = "over"
    <3>1. r = l.row
      BY <1>0, <1>1, <2>2 DEF RowState, RowsTyped
    <3>2. status[r] = "processing" /\ status'[r] = s
      BY <1>0, <1>1, <2>2, <3>1 DEF Holds, RowsTyped
    <3>3. RowState(r)' = "over"
      BY <2>2, <3>2, OutcomeFacts DEF RowState
    <3>4. status'[r] # "processing"
      BY <3>2, OutcomeFacts
    <3>5. \A k \in batch'[w] : Holds(w, k)' => k.row # r
      BY <3>4 DEF Holds
    <3> QED
      BY <2>2, <3>1, <3>3, <3>5 DEF Held
  <2> QED
    BY <2>1, <2>2 DEF Finalizes
<1>5. \A v \in Workers \ {w} : Has(v)' = Has(v) /\ Held(v)' = Held(v)
  <2>1. ASSUME NEW v \in Workers \ {w} PROVE Has(v)' = Has(v)
    BY DEF KeepsSome, Has
  <2>2. ASSUME NEW v \in Workers \ {w} PROVE Held(v)' = Held(v)
    <3>1. batch'[v] = batch[v]
      BY DEF KeepsSome
    <3>2. {k \in batch[v] : Holds(v, k)}' = {k \in batch[v] : Holds(v, k)}
      BY <1>2, <3>1
    <3> QED
      BY <3>2 DEF Held
  <2> QED
    BY <2>1, <2>2
<1>6. Has(w)' \subseteq Has(w) /\ Held(w)' \subseteq Held(w) /\ Held(w)' \subseteq Has(w)'
  BY <1>3 DEF KeepsSome, Has, Held
<1>7. has' = [has EXCEPT ![w] = has'[w]] /\ holds' = [holds EXCEPT ![w] = holds'[w]]
  <2>1. /\ \A v \in Workers \ {w} : has'[v] = has[v] /\ holds'[v] = holds[v]
        /\ has = [v \in Workers |-> has[v]] /\ has' = [v \in Workers |-> has'[v]]
        /\ holds = [v \in Workers |-> holds[v]] /\ holds' = [v \in Workers |-> holds'[v]]
    BY <1>5
  <2> HIDE DEF has, holds
  <2> QED
    BY <2>1, DiffersAtOne
<1>8. state_' = [r \in Rows |-> IF r \in holds[w] \ holds'[w] /\ state_'[r] # state_[r]
                                THEN "over" ELSE state_[r]]
  BY <1>4
<1>9. has'[w] \subseteq has[w] /\ holds'[w] \subseteq holds[w] \cap has'[w]
  BY <1>6
<1> QED
  BY <1>7, <1>8, <1>9 DEF RowLeases!Leave, Has, Held

\* A worker that claims rows.
LEMMA ClaimsAreTaken ==
  ASSUME IInv, LeasesKept, NEW w \in Workers, Claim(w)
  PROVE  \E S \in SUBSET Rows : RowLeases!Take(w, S)
<1>1. PICK S \in SUBSET ClaimableOf(phase[w]) :
       /\ S # {}
       /\ status' = [r \in Rows |-> IF r \in S THEN "processing" ELSE status[r]]
       /\ attempt_count' = [r \in Rows |-> IF r \in S THEN attempt_count[r] + 1 ELSE attempt_count[r]]
       /\ locked_by' = [r \in Rows |-> IF r \in S THEN NameOf[w] ELSE locked_by[r]]
       /\ batch' = [batch EXCEPT ![w] = {[row |-> r, attempt |-> attempt_count'[r]] : r \in S}]
  BY DEF Claim
<1>2. /\ S \in SUBSET Rows
      /\ \A r \in S : status[r] \in {"pending", "retryable", "processing"}
  BY DEF ClaimableOf, Claimable
<1>3. \A r \in S : RowState(r) = "open"
  BY <1>2 DEF RowState
<1>4. [r \in Rows |-> RowState(r)]' = [r \in Rows |-> RowState(r)]
  <2>1. \A r \in Rows : RowState(r)' = RowState(r)
    BY <1>1, <1>2 DEF RowState
  <2> QED
    BY <2>1
<1>5. /\ batch'[w] = {[row |-> r, attempt |-> attempt_count'[r]] : r \in S}
      /\ \A v \in Workers : v # w => batch'[v] = batch[v]
  BY <1>1 DEF IInv, WorkersTyped
<1>51. /\ \A l \in batch'[w] : l.row \in S /\ l.attempt = attempt_count'[l.row]
       /\ \A r \in S : \E l \in batch'[w] : l.row = r
  <2>1. ASSUME NEW l \in batch'[w] PROVE l.row \in S /\ l.attempt = attempt_count'[l.row]
    <3>1. PICK r \in S : l = [row |-> r, attempt |-> attempt_count'[r]]
      BY <1>5, <2>1
    <3> QED
      BY <3>1
  <2>2. ASSUME NEW r \in S PROVE \E l \in batch'[w] : l.row = r
    <3>1. [row |-> r, attempt |-> attempt_count'[r]] \in batch'[w]
      BY <1>5, <2>2
    <3> QED
      BY <3>1
  <2> QED
    BY <2>1, <2>2
<1>6. Has(w) = {} /\ Has(w)' = S
  <2>1. Has(w) = {}
    BY DEF Claim, LeasesKept, Has
  <2>2. Has(w)' = S
    BY <1>51 DEF Has
  <2> QED
    BY <2>1, <2>2
<1>7. Held(w)' = S
  <2>1. \A l \in batch'[w] : Holds(w, l)' /\ l.row \in S
    BY <1>1, <1>2, <1>51 DEF Holds
  <2> QED
    BY <1>51, <2>1 DEF Held
<1>8. ASSUME NEW v \in Workers, v # w PROVE Has(v)' = Has(v) /\ Held(v)' = Held(v) \ S
  <2>1. batch'[v] = batch[v]
    BY <1>5, <1>8
  <2>2. \A k \in batch[v] : k \in Lease /\ k.attempt <= attempt_count[k.row]
    BY DEF IInv, WorkersTyped, LeasesInThePast
  <2>3. \A k \in batch[v] : Holds(v, k)' <=> Holds(v, k) /\ k.row \notin S
    <3> SUFFICES ASSUME NEW k \in batch[v] PROVE Holds(v, k)' <=> Holds(v, k) /\ k.row \notin S
      OBVIOUS
    <3>1. k.row \in Rows /\ k.attempt \in Nat /\ attempt_count[k.row] \in Nat
      BY <2>2 DEF Lease, IInv, RowsTyped
    <3>2. CASE k.row \in S
      <4>1. attempt_count'[k.row] # k.attempt
        BY <1>1, <2>2, <3>1, <3>2
      <4> QED
        BY <3>2, <4>1 DEF Holds
    <3>3. CASE k.row \notin S
      BY <1>1, <3>1, <3>3 DEF Holds
    <3> QED
      BY <3>2, <3>3
  <2>4. Has(v)' = Has(v)
    BY <2>1 DEF Has
  <2>5. Held(v)' = Held(v) \ S
    BY <2>1, <2>3 DEF Held
  <2> QED
    BY <2>4, <2>5
<1> DEFINE has == [v \in Workers |-> Has(v)]
           holds == [v \in Workers |-> Held(v)]
<1>9. has' = [has EXCEPT ![w] = S]
  <2>1. /\ has'[w] = S /\ \A v \in Workers \ {w} : has'[v] = has[v]
        /\ has = [v \in Workers |-> has[v]] /\ has' = [v \in Workers |-> has'[v]]
    BY <1>6, <1>8
  <2> HIDE DEF has
  <2> QED
    BY <2>1, DiffersAtOne
<1>10. holds' = [v \in Workers |-> IF v = w THEN S ELSE holds[v] \ S]
  BY <1>7, <1>8
<1>11. has[w] = {}
  BY <1>6
<1>12. \A r \in S : [q \in Rows |-> RowState(q)][r] = "open"
  BY <1>2, <1>3
<1>13. RowLeases!Take(w, S)
  BY <1>1, <1>4, <1>9, <1>10, <1>11, <1>12 DEF RowLeases!Take, Has, Held
<1> QED
  BY <1>2, <1>13

\* A step that is not about rows and who has them.
LEMMA NoLease ==
  ASSUME UNCHANGED <<status, locked_by, attempt_count, batch>>
  PROVE  UNCHANGED RowLeases!lease_vars
<1>1. \A r \in Rows : RowState(r)' = RowState(r)
  BY DEF RowState
<1>2. \A w \in Workers : \A l \in batch[w] : Holds(w, l)' = Holds(w, l)
  BY DEF Holds
<1>3. \A w \in Workers : Has(w)' = Has(w) /\ Held(w)' = Held(w)
  BY <1>2 DEF Has, Held
<1> QED
  BY <1>1, <1>3 DEF RowLeases!lease_vars, Has, Held

\* A row is put back, cancelled or settled from outside, whoever has it.
LEMMA RowStepKeepsLeases ==
  ASSUME IInv, LeasesKept, NEW r \in Rows, Insert(r) \/ Replay(r) \/ Cancel(r) \/ Reconcile(r)
  PROVE  RowLeases!LeasesNext \/ UNCHANGED RowLeases!lease_vars
<1> DEFINE state_ == [q \in Rows |-> RowState(q)]
           has == [v \in Workers |-> Has(v)]
           holds == [v \in Workers |-> Held(v)]
<1>0. RowsTyped /\ WorkersTyped /\ ExclusiveLease
  BY InvariantImplies DEF IInv
<1>1. /\ UNCHANGED <<attempt_count, batch>> /\ status'[r] # "processing"
      /\ \A q \in Rows : q # r => status'[q] = status[q] /\ locked_by'[q] = locked_by[q]
  BY <1>0 DEF Insert, Replay, Cancel, Reconcile, RowsTyped, worker_vars
<1>2. \A v \in Workers : \A k \in batch[v] : k \in Lease /\ k.row \in Rows
  BY <1>0 DEF WorkersTyped, Lease
<1>3. \A v \in Workers : \A k \in batch[v] : Holds(v, k)' <=> Holds(v, k) /\ k.row # r
  BY <1>1, <1>2 DEF Holds
<1>4. \A v \in Workers : Has(v)' = Has(v) /\ Held(v)' = Held(v) \ {r}
  <2>1. \A v \in Workers : Has(v)' = Has(v)
    BY <1>1 DEF Has
  <2>2. ASSUME NEW v \in Workers PROVE Held(v)' = Held(v) \ {r}
    BY <1>1, <1>3 DEF Held
  <2> QED
    BY <2>1, <2>2
<1>5. \A q \in Rows : q # r => RowState(q)' = RowState(q)
  BY <1>1 DEF RowState
<1>6. has' = has
  BY <1>4
<1>7. CASE RowState(r)' # RowState(r)
  <2>1. <<RowState(r), RowState(r)'>> \in RowLeases!Orders(r)
    BY <1>0, <1>7 DEF RowLeases!Orders, Insert, Replay, Cancel, Reconcile, RowState, RowsTyped, LeasesKept
  <2>2. state_' \in [Rows -> {"new", "open", "over", "withdrawn"}]
    BY DEF RowState
  <2>3. \A q \in Rows : state_'[q] # state_[q] => <<state_[q], state_'[q]>> \in RowLeases!Orders(q)
    BY <1>5, <2>1
  <2>4. holds' = [v \in Workers |-> {q \in holds[v] : state_'[q] = state_[q]}]
    <3>1. \A v \in Workers : Held(v) \subseteq Rows
      BY <1>2 DEF Held
    <3> QED
      BY <1>4, <1>5, <1>7, <3>1
  <2>5. RowLeases!Order
    BY <1>1, <1>6, <2>2, <2>3, <2>4 DEF RowLeases!Order, Has, Held
  <2> QED
    BY <2>5 DEF RowLeases!LeasesNext
<1>8. CASE RowState(r)' = RowState(r) /\ \A v \in Workers : r \notin Held(v)
  <2>1. state_' = state_ /\ holds' = holds
    BY <1>4, <1>5, <1>8
  <2> QED
    BY <1>1, <1>6, <2>1 DEF RowLeases!lease_vars, Has, Held
<1>9. ASSUME NEW w \in Workers, r \in Held(w), RowState(r)' = RowState(r)
      PROVE  RowLeases!Leave(w)
  <2>1. \A v \in Workers : v # w => r \notin Held(v)
    BY <1>0, <1>9 DEF Held, ExclusiveLease
  <2>2. state_' = [q \in Rows |-> IF q \in holds[w] \ holds'[w] /\ state_'[q] # state_[q]
                                   THEN "over" ELSE state_[q]]
    BY <1>5, <1>9
  <2>3. has' = [has EXCEPT ![w] = has'[w]] /\ holds' = [holds EXCEPT ![w] = holds'[w]]
    <3>1. /\ \A v \in Workers \ {w} : has'[v] = has[v] /\ holds'[v] = holds[v]
          /\ has = [v \in Workers |-> has[v]] /\ has' = [v \in Workers |-> has'[v]]
          /\ holds = [v \in Workers |-> holds[v]] /\ holds' = [v \in Workers |-> holds'[v]]
      BY <1>4, <2>1
    <3> HIDE DEF has, holds
    <3> QED
      BY <3>1, DiffersAtOne
  <2>4. has'[w] \subseteq has[w] /\ holds'[w] \subseteq holds[w] \cap has'[w]
    BY <1>4 DEF Held, Has
  <2> QED
    BY <1>1, <2>2, <2>3, <2>4 DEF RowLeases!Leave, Has, Held
<1> QED
  BY <1>7, <1>8, <1>9 DEF RowLeases!LeasesNext

LEMMA StepKeepsLeases ==
  ASSUME IInv, LeasesKept, [Next]_vars
  PROVE  [RowLeases!LeasesNext]_(RowLeases!lease_vars)
<1> USE DEF row_vars, worker_vars
<1> DEFINE unchanged == UNCHANGED <<status, locked_by, attempt_count, batch>>
<1>1. CASE unchanged
  BY <1>1, NoLease
<1>2. ASSUME NEW w \in Workers, Claim(w)
      PROVE  RowLeases!LeasesNext
  BY <1>2, ClaimsAreTaken DEF RowLeases!LeasesNext
<1>3. ASSUME NEW w \in Workers, Finalizes(w), KeepsSome(w), UNCHANGED attempt_count
      PROVE  RowLeases!LeasesNext
  BY <1>3, FinalizingKeepsLeases DEF RowLeases!LeasesNext
<1>4. ASSUME NEW w \in Workers, pc[w] \in {"record", "write"}, Finalize(w, current[w], result[w])
      PROVE  Finalizes(w) /\ UNCHANGED attempt_count
  <2>1. current[w] \in batch[w] /\ result[w] \in Outcomes
    BY <1>4, OutcomeFacts DEF IInv, WorkerInTheMiddle
  <2> QED
    BY <1>4, <2>1 DEF Finalize, Finalizes
<1>5. ASSUME NEW w \in Workers, Proceed(w) \/ Abandon(w) \/ UNCHANGED batch
      PROVE  KeepsSome(w)
  BY <1>5 DEF Proceed, Abandon, KeepsSome, IInv, WorkersTyped
<1>6. ASSUME NEW w \in Workers, Record(w) \/ WriteRetry(w)
      PROVE  RowLeases!LeasesNext
  BY <1>3, <1>4, <1>5, <1>6 DEF Record, WriteRetry
<1>7. ASSUME NEW w \in Workers, StatementFails(w)
      PROVE  RowLeases!LeasesNext
  <2>1. Finalizes(w) /\ UNCHANGED attempt_count
    <3>1. CASE UNCHANGED row_vars
      BY <3>1 DEF Finalizes
    <3>2. CASE pc[w] # "read" /\ Finalize(w, current[w], result[w])
      BY <1>4, <1>7, <3>2 DEF StatementFails
    <3> QED
      BY <1>7, <3>1, <3>2 DEF StatementFails
  <2>2. KeepsSome(w)
    BY <1>5, <1>7 DEF StatementFails
  <2> QED
    BY <1>3, <2>1, <2>2
<1>8. ASSUME NEW w \in Workers, Crash(w)
      PROVE  RowLeases!LeasesNext
  BY <1>3, <1>5, <1>8 DEF Crash, Finalizes
<1>9. ASSUME NEW w \in Workers, EmptyClaim(w) \/ Handle(w) \/ ReadAttempts(w)
      PROVE  unchanged
  BY <1>9 DEF EmptyClaim, Handle, ReadAttempts
<1>10. ASSUME NEW r \in Rows, BecomeDue(r) \/ Lapse(r)
       PROVE  unchanged
  BY <1>10 DEF BecomeDue, Lapse
<1>11. ASSUME NEW r \in Rows, Insert(r) \/ Replay(r) \/ Cancel(r) \/ Reconcile(r)
       PROVE  [RowLeases!LeasesNext]_(RowLeases!lease_vars)
  BY <1>11, RowStepKeepsLeases
<1>12. CASE UNCHANGED vars
  BY <1>1, <1>12 DEF vars
<1> HIDE DEF unchanged
<1> QED
  BY <1>1, <1>2, <1>6, <1>7, <1>8, <1>9, <1>10, <1>11, <1>12 DEF Next

LEMMA LeasesStayKept ==
  ASSUME IInv, LeasesKept, [Next]_vars
  PROVE  LeasesKept'
<1> USE DEF LeasesKept
<1>0. RowsTyped /\ WorkersTyped /\ IInv'
  BY StepOK DEF IInv
<1>1. \A w \in Workers : pc'[w] = "poll" => batch'[w] = {}
  <2>1. ASSUME NEW w \in Workers, Claim(w) \/ Handle(w) \/ ReadAttempts(w)
        PROVE  /\ pc'[w] # "poll" /\ \A v \in Workers : v # w => pc'[v] = pc[v] /\ batch'[v] = batch[v]
    <3>1. CASE Claim(w)
      BY <1>0, <3>1 DEF Claim, WorkersTyped
    <3>2. CASE Handle(w)
      BY <1>0, <3>2 DEF Handle, WorkersTyped
    <3>3. CASE ReadAttempts(w)
      BY <1>0, <3>3 DEF ReadAttempts, WorkersTyped
    <3> QED
      BY <2>1, <3>1, <3>2, <3>3
  <2>2. ASSUME NEW w \in Workers, Proceed(w) \/ Abandon(w)
        PROVE  /\ pc'[w] = "poll" => batch'[w] = {}
               /\ \A v \in Workers : v # w => pc'[v] = pc[v] /\ batch'[v] = batch[v]
    BY <1>0, <2>2 DEF Proceed, Abandon, WorkersTyped
  <2>3. ASSUME NEW w \in Workers, StatementFails(w), ~caught[w]
        PROVE  /\ pc'[w] # "poll" /\ \A v \in Workers : v # w => pc'[v] = pc[v] /\ batch'[v] = batch[v]
    BY <1>0, <2>3 DEF StatementFails, WorkersTyped
  <2>4. ASSUME NEW w \in Workers, Record(w) \/ WriteRetry(w) \/ Crash(w) \/ (StatementFails(w) /\ caught[w])
        PROVE  Proceed(w) \/ Abandon(w)
    BY <2>4 DEF Record, WriteRetry, Crash, StatementFails
  <2>5. ASSUME NEW w \in Workers, EmptyClaim(w) PROVE UNCHANGED <<pc, batch>>
    BY <2>5 DEF EmptyClaim
  <2>6. ASSUME NEW r \in Rows,
               Insert(r) \/ BecomeDue(r) \/ Lapse(r) \/ Replay(r) \/ Cancel(r) \/ Reconcile(r)
        PROVE  UNCHANGED <<pc, batch>>
    BY <2>6 DEF Insert, BecomeDue, Lapse, Replay, Cancel, Reconcile, worker_vars
  <2>7. CASE UNCHANGED vars
    BY <2>7 DEF vars, worker_vars
  <2> QED
    BY <2>1, <2>2, <2>3, <2>4, <2>5, <2>6, <2>7 DEF Next
<1>2. \A r \in Rows : status'[r] = "cancelled" => Table[r] = "jobs"
  <2>1. ASSUME NEW w \in Workers, Finalizes(w)
        PROVE  \A r \in Rows : status'[r] = "cancelled" => Table[r] = "jobs"
    BY <1>0, <2>1, OutcomeFacts DEF Finalizes, RowsTyped
  <2>2. ASSUME NEW w \in Workers, Claim(w)
        PROVE  \A r \in Rows : status'[r] = "cancelled" => Table[r] = "jobs"
    BY <2>2 DEF Claim
  <2>3. ASSUME NEW w \in Workers, EmptyClaim(w) \/ Handle(w) \/ ReadAttempts(w) \/ Crash(w)
        PROVE  UNCHANGED status
    BY <2>3 DEF EmptyClaim, Handle, ReadAttempts, Crash, row_vars
  <2>4. ASSUME NEW w \in Workers, Record(w) \/ WriteRetry(w) \/ StatementFails(w)
        PROVE  Finalizes(w)
    <3>1. CASE UNCHANGED row_vars
      BY <3>1 DEF Finalizes, row_vars
    <3>2. CASE pc[w] \in {"record", "write"} /\ Finalize(w, current[w], result[w])
      <4>1. current[w] \in batch[w] /\ result[w] \in Outcomes
        BY <3>2, OutcomeFacts DEF IInv, WorkerInTheMiddle
      <4> QED
        BY <3>2, <4>1 DEF Finalize, Finalizes, row_vars
    <3> QED
      BY <2>4, <3>1, <3>2 DEF Record, WriteRetry, StatementFails
  <2>5. ASSUME NEW r \in Rows,
               Insert(r) \/ BecomeDue(r) \/ Lapse(r) \/ Replay(r) \/ Cancel(r) \/ Reconcile(r)
        PROVE  \A q \in Rows : status'[q] = "cancelled" => Table[q] = "jobs"
    BY <1>0, <2>5 DEF Insert, BecomeDue, Lapse, Replay, Cancel, Reconcile, RowsTyped
  <2>6. CASE UNCHANGED vars
    BY <2>6 DEF vars, row_vars
  <2> QED
    BY <2>1, <2>2, <2>3, <2>4, <2>5, <2>6 DEF Next
<1> QED
  BY <1>1, <1>2

\* The rows of the three tables, claimed by the batch by workers that may share a name,
\* replayed, cancelled and reconciled by others, are taken, held and settled as Leases
\* says: leaseFence makes the word of one worker count at most (runtime.ts:39-63).
THEOREM QueueKeepsLeases == Spec => KeepsLeases
<1>1. Init => RowLeases!LeasesInit /\ IInv /\ LeasesKept
  BY StartsAsLeases, InitOK
<1>2. IInv /\ LeasesKept /\ [Next]_vars => [RowLeases!LeasesNext]_(RowLeases!lease_vars)
  BY StepKeepsLeases
<1>3. IInv /\ LeasesKept /\ [Next]_vars => (IInv /\ LeasesKept)'
  BY StepOK, LeasesStayKept
<1> QED
  BY <1>1, <1>2, <1>3, PTL DEF Spec, KeepsLeases, RowLeases!LeasesSpec
=============================================================================
