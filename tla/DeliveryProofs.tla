--------------------------- MODULE DeliveryProofs ---------------------------
(***************************************************************************)
(* Types of Delivery, that what is confirmed exists, that a message shows  *)
(* the furthest of its reports, and that nothing is accepted twice but for *)
(* a fault: for any number of commands, workers, attempts and faults.      *)
(*                                                                         *)
(* ConfirmedExists needs to know that a worker that was told 'delivered'   *)
(* holds an id the provider gave (AnswersAreTrue); the furthest report,    *)
(* that nothing is processed before the message has an id (ReportsNameIds).*)
(* AcceptedOnce counts chances: each command that waits or has lost its    *)
(* worker is one, each worker that is yet to send it or to ask for another *)
(* attempt is one.  A step that makes a chance uses one up, or is a fault. *)
(* The last part shows that the commands are a queue that keeps Leases.    *)
(***************************************************************************)
EXTENDS Delivery, FiniteSetTheorems, TLAPS

\* A worker at work has a command; one that was told 'delivered' has an id that exists.
AnswersAreTrue == \A w \in Workers :
  /\ at[w] # "idle" => runs[w] \in Commands
  /\ at[w] = "record" /\ answer[w] = "delivered" => id[w] \in 1 .. accepted[runs[w]]

\* A report names an id, and was processed when the message had it.
ReportsNameIds ==
  /\ \A r \in reports : r.id # 0
  /\ \A r \in applied : given[r.command] # 0

IInv == DeliveryTypeOK /\ AnswersAreTrue /\ ConfirmedExists /\ ReportsNameIds /\ FurthestReportStands

-----------------------------------------------------------------------------
(* Types. *)

LEMMA CommandTypes == Texts \subseteq Commands /\ Visits \subseteq Commands /\ Texts \cap Visits = {}
BY DeliveryAssumption DEF Commands

LEMMA OutcomeType ==
  ASSUME NEW w \in Workers
  PROVE  Outcome(w) \in {"delivered", "delivery_unknown", "permanently_failed", "dead_lettered", "retryable"}
BY DEF Outcome

LEMMA InitIsGood == Init => IInv
<1> SUFFICES ASSUME Init PROVE IInv
  OBVIOUS
<1> USE DeliveryAssumption DEF Init
<1>1. DeliveryTypeOK
  BY DEF DeliveryTypeOK, Settled, Statuses, Reports
<1>2. AnswersAreTrue /\ ReportsNameIds
  BY DEF AnswersAreTrue, ReportsNameIds
<1>3. ConfirmedExists
  BY CommandTypes DEF ConfirmedExists
<1>4. FurthestReportStands
  BY CommandTypes DEF FurthestReportStands
<1> QED
  BY <1>1, <1>2, <1>3, <1>4 DEF IInv

\* What a request writes, and what the dashboard does before it makes one.
LEMMA AskingTypes ==
  ASSUME DeliveryTypeOK, AnswersAreTrue,
         \/ \E c \in Commands : Enqueue(c)
         \/ \E c \in Texts : Reply(c) \/ CheckWindow(c) \/ SendText(c) \/ SendTemplate(c)
                               \/ WindowEnds(c) \/ Forget(c)
  PROVE  DeliveryTypeOK' /\ AnswersAreTrue'
<1> USE CommandTypes DEF DeliveryTypeOK, command_vars, worker_vars, report_vars, notice_vars
<1>1. CASE \E c \in Commands : Enqueue(c)
  BY <1>1 DEF Enqueue, Request, AnswersAreTrue
<1>2. ASSUME NEW c \in Texts, Reply(c) \/ CheckWindow(c) \/ WindowEnds(c) \/ Forget(c)
      PROVE  DeliveryTypeOK' /\ AnswersAreTrue'
  BY <1>2 DEF Reply, CheckWindow, WindowEnds, Forget, Done, AnswersAreTrue
<1>3. ASSUME NEW c \in Texts, SendText(c) \/ SendTemplate(c)
      PROVE  DeliveryTypeOK' /\ AnswersAreTrue'
  <2>1. \/ Request(c) \/ UNCHANGED <<state, shown>>
    BY <1>3 DEF SendText, SendTemplate
  <2>2. state' \in [Commands -> {"none", "pending", "retryable", "processing"} \cup Settled]
        /\ shown' \in [Commands -> {"none", "queued", "accepted", "booked", "confirmed"} \cup Statuses]
    BY <2>1 DEF Request
  <2>3. notice' \in [Texts -> {"idle", "asked", "checked", "refused"}] /\ ahead' \in [Texts -> BOOLEAN]
    BY <1>3 DEF SendText, SendTemplate, Done
  <2>4. UNCHANGED <<tries, lease, given, worker_vars, accepted, report_vars, faults>>
    BY <1>3 DEF SendText, SendTemplate
  <2> QED
    BY <2>2, <2>3, <2>4 DEF AnswersAreTrue
<1> QED
  BY <1>1, <1>2, <1>3

\* Claims, leases and crashes.
LEMMA LeasingTypes ==
  ASSUME DeliveryTypeOK, AnswersAreTrue,
         \/ \E c \in Commands, w \in Workers : Claim(w, c)
         \/ \E c \in Commands : Expire(c)
         \/ \E w \in Workers : Lapse(w) \/ Crash(w)
  PROVE  DeliveryTypeOK' /\ AnswersAreTrue'
<1> USE DeliveryAssumption, CommandTypes DEF DeliveryTypeOK, command_vars, worker_vars, report_vars, notice_vars
<1>1. ASSUME NEW c \in Commands, NEW w \in Workers, Claim(w, c)
      PROVE  DeliveryTypeOK' /\ AnswersAreTrue'
  BY <1>1 DEF Claim, AnswersAreTrue
<1>2. ASSUME NEW c \in Commands, Expire(c)
      PROVE  DeliveryTypeOK' /\ AnswersAreTrue'
  BY <1>2 DEF Expire, AnswersAreTrue
<1>3. ASSUME NEW w \in Workers, Lapse(w)
      PROVE  DeliveryTypeOK' /\ AnswersAreTrue'
  BY <1>3 DEF Lapse, AnswersAreTrue
<1>4. ASSUME NEW w \in Workers, Crash(w)
      PROVE  DeliveryTypeOK' /\ AnswersAreTrue'
  BY <1>4 DEF Crash, Leaves, AnswersAreTrue
<1> QED
  BY <1>1, <1>2, <1>3, <1>4

\* The calls to the provider.
LEMMA CallTypes ==
  ASSUME DeliveryTypeOK, AnswersAreTrue, NEW w \in Workers,
         Check(w) \/ Succeed(w) \/ Lost(w) \/ Reject(w) \/ Mislead(w) \/ RecordFails(w)
  PROVE  DeliveryTypeOK' /\ AnswersAreTrue'
<1> USE CommandTypes DEF DeliveryTypeOK, AnswersAreTrue, command_vars, worker_vars, report_vars, notice_vars
<1>1. runs[w] \in Commands
  BY DEF Check, Succeed, Lost, Reject, Mislead, RecordFails
<1>2. CASE Check(w) \/ Reject(w)
  BY <1>2 DEF Check, Reject, Hears
<1>3. CASE Succeed(w)
  BY <1>1, <1>3 DEF Succeed, Accepts, Hears
<1>4. CASE Lost(w) \/ Mislead(w)
  <2>1. /\ accepted' \in [Commands -> Nat]
        /\ \A c \in Commands : accepted[c] <= accepted'[c]
    BY <1>1, <1>4 DEF Lost, Mislead, Accepts
  <2>2. \E a \in {"unknown", "retryable", "refused"} :
           answer' = [answer EXCEPT ![w] = a] /\ at' = [at EXCEPT ![w] = "record"]
    BY <1>4 DEF Lost, Mislead, Hears
  <2>3. faults' \in 0 .. MaxFaults
    BY <1>4, DeliveryAssumption DEF Lost, Mislead
  <2>4. UNCHANGED <<command_vars, given, shown, runs, id, report_vars, notice_vars>>
    BY <1>4 DEF Lost, Mislead
  <2>5. DeliveryTypeOK'
    BY <2>1, <2>2, <2>3, <2>4
  <2>6. ASSUME NEW v \in Workers
        PROVE  /\ at'[v] # "idle" => runs'[v] \in Commands
               /\ at'[v] = "record" /\ answer'[v] = "delivered" => id'[v] \in 1 .. accepted'[runs'[v]]
    <3>1. CASE v = w
      BY <1>1, <2>2, <2>4, <3>1
    <3>2. CASE v # w
      BY <2>1, <2>2, <2>4, <3>2
    <3> QED
      BY <3>1, <3>2
  <2> QED
    BY <2>5, <2>6
<1>5. CASE RecordFails(w)
  BY <1>5, DeliveryAssumption DEF RecordFails
<1> QED
  BY <1>2, <1>3, <1>4, <1>5

\* What is recorded of the answers, and the reports.
LEMMA RecordTypes ==
  ASSUME DeliveryTypeOK, AnswersAreTrue,
         \/ \E w \in Workers : Record(w)
         \/ \E c \in Commands : Reconcile(c)
         \/ \E c \in Texts, s \in Told : Report(c, s)
         \/ \E r \in reports : Apply(r) \/ Bury(r)
  PROVE  DeliveryTypeOK' /\ AnswersAreTrue'
<1> USE CommandTypes DEF DeliveryTypeOK, command_vars, worker_vars, report_vars, notice_vars
<1>1. ASSUME NEW w \in Workers, Record(w)
      PROVE  DeliveryTypeOK' /\ AnswersAreTrue'
  <2>1. runs[w] \in Commands
    BY <1>1 DEF Record, AnswersAreTrue
  <2>2. state' \in [Commands -> {"none", "pending", "retryable", "processing"} \cup Settled]
    BY <1>1, <2>1, OutcomeType DEF Record, Settled
  <2>3. given' \in [Commands -> Nat]
        /\ shown' \in [Commands -> {"none", "queued", "accepted", "booked", "confirmed"} \cup Statuses]
    BY <1>1, <2>1 DEF Record, MarkDelivered
  <2> QED
    BY <1>1, <2>2, <2>3 DEF Record, Leaves, AnswersAreTrue
<1>2. ASSUME NEW c \in Commands, Reconcile(c)
      PROVE  DeliveryTypeOK' /\ AnswersAreTrue'
  BY <1>2 DEF Reconcile, MarkDelivered, Settled, AnswersAreTrue
<1>3. ASSUME NEW c \in Texts, NEW s \in Told, Report(c, s)
      PROVE  DeliveryTypeOK' /\ AnswersAreTrue'
  BY <1>3, DeliveryAssumption DEF Report, Reports, AnswersAreTrue
<1>4. ASSUME NEW r \in reports, Apply(r) \/ Bury(r)
      PROVE  DeliveryTypeOK' /\ AnswersAreTrue'
  BY <1>4 DEF Apply, Applied, Bury, Reports, AnswersAreTrue
<1> QED
  BY <1>1, <1>2, <1>3, <1>4

-----------------------------------------------------------------------------
(* What is confirmed exists. *)

\* Steps that leave the state's being 'delivered', the ids and what is confirmed alone.
LEMMA ConfirmedKept ==
  ASSUME DeliveryTypeOK, ConfirmedExists, UNCHANGED given,
         \A c \in Commands : state'[c] = "delivered" <=> state[c] = "delivered",
         \A c \in Visits : shown'[c] = "confirmed" <=> shown[c] = "confirmed",
         \A c \in Commands : accepted'[c] \in Nat /\ accepted[c] <= accepted'[c]
  PROVE  ConfirmedExists'
<1> SUFFICES ASSUME NEW c \in Commands
             PROVE  /\ state'[c] = "delivered" <=> given'[c] # 0
                    /\ given'[c] <= accepted'[c]
                    /\ c \in Visits => (shown'[c] = "confirmed" <=> given'[c] # 0)
  BY DEF ConfirmedExists
<1>1. given[c] \in Nat /\ accepted[c] \in Nat /\ given[c] <= accepted[c]
  BY DEF DeliveryTypeOK, ConfirmedExists
<1>2. given'[c] = given[c]
  OBVIOUS
<1>3. given'[c] <= accepted'[c]
  BY <1>1, <1>2
<1> QED
  BY <1>2, <1>3 DEF ConfirmedExists

LEMMA MarkConfirms ==
  ASSUME DeliveryTypeOK, ConfirmedExists, NEW c \in Commands, NEW n \in 1 .. accepted[c],
         state' = [state EXCEPT ![c] = "delivered"], MarkDelivered(c, n), UNCHANGED accepted
  PROVE  ConfirmedExists'
<1> SUFFICES ASSUME NEW d \in Commands
             PROVE  /\ state'[d] = "delivered" <=> given'[d] # 0
                    /\ given'[d] <= accepted'[d]
                    /\ d \in Visits => (shown'[d] = "confirmed" <=> given'[d] # 0)
  BY DEF ConfirmedExists
<1> USE CommandTypes DEF DeliveryTypeOK, MarkDelivered, ConfirmedExists
<1>1. CASE d = c
  <2>1. given'[c] = n /\ n # 0 /\ n <= accepted'[c] /\ state'[c] = "delivered"
    OBVIOUS
  <2>2. c \in Visits => shown'[c] = "confirmed"
    OBVIOUS
  <2> QED
    BY <1>1, <2>1, <2>2
<1>2. CASE d # c
  BY <1>2
<1> QED
  BY <1>1, <1>2

LEMMA ConfirmedStep ==
  ASSUME IInv, [Next]_delivery_vars
  PROVE  ConfirmedExists'
<1> USE CommandTypes DEF IInv
<1>1. CASE UNCHANGED delivery_vars
  BY <1>1 DEF ConfirmedExists, delivery_vars, command_vars
<1>2. ASSUME NEW c \in Commands, Request(c), UNCHANGED <<given, accepted>>
      PROVE  ConfirmedExists'
  BY <1>2, ConfirmedKept DEF Request, DeliveryTypeOK, ConfirmedExists
<1>3. ASSUME NEW c \in Texts,
             Reply(c) \/ CheckWindow(c) \/ SendText(c) \/ SendTemplate(c) \/ WindowEnds(c) \/ Forget(c)
      PROVE  ConfirmedExists'
  <2>1. CASE UNCHANGED <<state, shown, given, accepted>>
    BY <2>1 DEF ConfirmedExists
  <2>2. CASE Request(c) /\ UNCHANGED <<given, accepted>>
    BY <1>2, <2>2
  <2> QED
    BY <1>3, <2>1, <2>2
    DEF Reply, CheckWindow, SendText, SendTemplate, WindowEnds, Forget, command_vars
<1>4. ASSUME NEW c \in Commands, Enqueue(c)
      PROVE  ConfirmedExists'
  BY <1>2, <1>4 DEF Enqueue
<1>5. ASSUME NEW c \in Commands, NEW w \in Workers, Claim(w, c)
      PROVE  ConfirmedExists'
  BY <1>5, ConfirmedKept DEF Claim, DeliveryTypeOK
<1>6. ASSUME NEW c \in Commands, Expire(c)
      PROVE  ConfirmedExists'
  BY <1>6, ConfirmedKept DEF Expire, DeliveryTypeOK
<1>7. ASSUME NEW w \in Workers, Lapse(w)
      PROVE  ConfirmedExists'
  BY <1>7, ConfirmedKept DEF Lapse, Fenced, DeliveryTypeOK
<1>8. ASSUME NEW w \in Workers, Crash(w) \/ Check(w) \/ Reject(w) \/ RecordFails(w)
      PROVE  ConfirmedExists'
  BY <1>8 DEF Crash, Check, Reject, RecordFails, command_vars, ConfirmedExists
<1>9. ASSUME NEW w \in Workers, Succeed(w) \/ Lost(w) \/ Mislead(w)
      PROVE  ConfirmedExists'
  <2>1. UNCHANGED <<state, shown, given>>
    BY <1>9 DEF Succeed, Lost, Mislead, command_vars
  <2>2. \A c \in Commands : accepted'[c] \in Nat /\ accepted[c] <= accepted'[c]
    BY <1>9 DEF Succeed, Lost, Mislead, Accepts, DeliveryTypeOK
  <2> QED
    BY <2>1, <2>2, ConfirmedKept
<1>10. ASSUME NEW w \in Workers, Record(w)
       PROVE  ConfirmedExists'
  <2> DEFINE c == runs[w]
  <2>1. c \in Commands /\ UNCHANGED accepted
    BY <1>10 DEF Record, AnswersAreTrue
  <2>2. CASE Fenced(w) /\ answer[w] = "delivered"
    <3>1. state' = [state EXCEPT ![c] = "delivered"] /\ MarkDelivered(c, id[w])
      BY <1>10, <2>2 DEF Record, Outcome
    <3>2. id[w] \in 1 .. accepted[c]
      BY <1>10, <2>2 DEF Record, AnswersAreTrue
    <3> QED
      BY <2>1, <3>1, <3>2, MarkConfirms
  <2>3. CASE ~(Fenced(w) /\ answer[w] = "delivered")
    <3>1. UNCHANGED <<given, shown>>
      BY <1>10, <2>3 DEF Record
    <3>2. \/ UNCHANGED state
          \/ state[c] = "processing" /\ answer[w] # "delivered" /\ state' = [state EXCEPT ![c] = Outcome(w)]
      BY <1>10, <2>3 DEF Record, Fenced
    <3>3. answer[w] # "delivered" => Outcome(w) # "delivered"
      BY DEF Outcome
    <3>4. \A d \in Commands : state'[d] = "delivered" <=> state[d] = "delivered"
      BY <2>1, <3>2, <3>3 DEF DeliveryTypeOK
    <3> QED
      BY <2>1, <3>1, <3>4, ConfirmedKept DEF DeliveryTypeOK
  <2> QED
    BY <2>2, <2>3
<1>11. ASSUME NEW c \in Commands, Reconcile(c)
       PROVE  ConfirmedExists'
  <2>1. CASE \E n \in 1 .. accepted[c] : state' = [state EXCEPT ![c] = "delivered"] /\ MarkDelivered(c, n)
    BY <1>11, <2>1, MarkConfirms DEF Reconcile
  <2>2. CASE state' = [state EXCEPT ![c] = "permanently_failed"] /\ UNCHANGED <<given, shown>>
    BY <1>11, <2>2, ConfirmedKept DEF Reconcile, DeliveryTypeOK
  <2> QED
    BY <1>11, <2>1, <2>2 DEF Reconcile
<1>12. ASSUME NEW c \in Texts, NEW s \in Told, Report(c, s)
       PROVE  ConfirmedExists'
  BY <1>12 DEF Report, command_vars, ConfirmedExists
<1>13. ASSUME NEW r \in reports, Apply(r) \/ Bury(r)
       PROVE  ConfirmedExists'
  <2>1. r.command \in Texts /\ UNCHANGED <<state, given, accepted>>
    BY <1>13 DEF Apply, Bury, DeliveryTypeOK, Reports, command_vars
  <2>2. \A c \in Visits : shown'[c] = shown[c]
    BY <1>13, <2>1 DEF Apply, Applied, Bury, DeliveryTypeOK
  <2> QED
    BY <2>1, <2>2, ConfirmedKept DEF DeliveryTypeOK
<1> QED
  BY <1>1, <1>3, <1>4, <1>5, <1>6, <1>7, <1>8, <1>9, <1>10, <1>11, <1>12, <1>13 DEF Next, WorkerStep

-----------------------------------------------------------------------------
(* A message shows the furthest of its reports. *)

\* What a message without reports shows.
Base(c) == IF state[c] = "none" THEN "none" ELSE IF given[c] = 0 THEN "queued" ELSE "accepted"

\* FurthestReportStands, report by report.
Stands(c) ==
  /\ (\A a \in applied : a.command # c) => shown[c] = Base(c)
  /\ \A a \in applied : a.command = c =>
       /\ Rank(a.status) <= Rank(shown[c])
       /\ \E b \in applied : b.command = c /\ b.status = shown[c]

LEMMA StandsIsFurthest == FurthestReportStands <=> \A c \in Texts : Stands(c)
<1>1. ASSUME NEW c \in Texts
      PROVE  Stands(c) <=>
               LET heard == {r.status : r \in {a \in applied : a.command = c}}
               IN IF heard = {} THEN shown[c] = Base(c)
                  ELSE shown[c] \in heard /\ \A s \in heard : Rank(s) <= Rank(shown[c])
  <2> DEFINE heard == {r.status : r \in {a \in applied : a.command = c}}
  <2>1. heard = {} <=> \A a \in applied : a.command # c
    OBVIOUS
  <2>2. \A s : s \in heard <=> \E a \in applied : a.command = c /\ a.status = s
    OBVIOUS
  <2>3. (\A s \in heard : Rank(s) <= Rank(shown[c]))
          <=> \A a \in applied : a.command = c => Rank(a.status) <= Rank(shown[c])
    BY <2>2
  <2> HIDE DEF heard
  <2> QED
    BY <2>1, <2>2, <2>3 DEF Stands
<1> QED
  BY <1>1 DEF FurthestReportStands, Base

LEMMA RankType == \A s : Rank(s) \in Nat
BY DEF Rank

LEMMA StandsStep ==
  ASSUME IInv, [Next]_delivery_vars
  PROVE  FurthestReportStands'
<1> DEFINE P == \A c \in Texts : Stands(c)
<1>0. P
  BY StandsIsFurthest DEF IInv
<1> SUFFICES P'
  <2>1. P' => FurthestReportStands'
    BY StandsIsFurthest, PTL
  <2> QED
    BY <2>1
<1> USE CommandTypes DEF IInv
\* Reports, ids, and what is shown stay, and so does what has been asked for.
<1>1. ASSUME UNCHANGED <<shown, given, applied>>, \A c \in Commands : state'[c] = "none" <=> state[c] = "none"
      PROVE  P'
  BY <1>0, <1>1 DEF Stands, Base
<1>2. ASSUME NEW c \in Commands, Request(c), UNCHANGED <<given, applied>>
      PROVE  P'
  <2>1. SUFFICES ASSUME NEW d \in Texts PROVE Stands(d)'
    OBVIOUS
  <2>2. CASE d = c
    <3>1. given[c] = 0 /\ \A a \in applied : a.command # c
      BY <1>2 DEF Request, ConfirmedExists, ReportsNameIds
    <3>2. shown'[c] = "queued" /\ state'[c] = "pending"
      BY <1>2, <2>2 DEF Request, DeliveryTypeOK
    <3> QED
      BY <1>2, <2>2, <3>1, <3>2 DEF Stands, Base
  <2>3. CASE d # c
    <3>1. shown'[d] = shown[d] /\ state'[d] = state[d]
      BY <1>2, <2>3 DEF Request, DeliveryTypeOK
    <3> QED
      BY <1>0, <1>2, <3>1 DEF Stands, Base
  <2> QED
    BY <2>2, <2>3
<1>3. ASSUME NEW c \in Commands, state[c] \notin {"none", "delivered"}, NEW n \in Nat \ {0},
             state' = [state EXCEPT ![c] = "delivered"], MarkDelivered(c, n), UNCHANGED applied
      PROVE  P'
  <2>1. SUFFICES ASSUME NEW d \in Texts PROVE Stands(d)'
    OBVIOUS
  <2>2. CASE d = c
    <3>1. \A a \in applied : a.command # c
      BY <1>3 DEF ConfirmedExists, ReportsNameIds
    <3>2. shown'[c] = "accepted" /\ state'[c] = "delivered" /\ given'[c] = n
      BY <1>3, <2>2 DEF MarkDelivered, DeliveryTypeOK
    <3> QED
      BY <1>3, <2>2, <3>1, <3>2 DEF Stands, Base
  <2>3. CASE d # c
    <3>1. shown'[d] = shown[d] /\ state'[d] = state[d] /\ given'[d] = given[d]
      BY <1>3, <2>3 DEF MarkDelivered, DeliveryTypeOK
    <3> QED
      BY <1>0, <1>3, <3>1 DEF Stands, Base
  <2> QED
    BY <2>2, <2>3
<1>4. CASE UNCHANGED delivery_vars
  BY <1>1, <1>4 DEF delivery_vars, command_vars, report_vars
<1>5. ASSUME NEW c \in Commands, Enqueue(c)
      PROVE  P'
  BY <1>2, <1>5 DEF Enqueue, report_vars
<1>6. ASSUME NEW c \in Texts,
             Reply(c) \/ CheckWindow(c) \/ SendText(c) \/ SendTemplate(c) \/ WindowEnds(c) \/ Forget(c)
      PROVE  P'
  <2>1. \/ UNCHANGED <<state, shown, given, applied>>
        \/ Request(c) /\ UNCHANGED <<given, applied>>
    BY <1>6
    DEF Reply, CheckWindow, SendText, SendTemplate, WindowEnds, Forget, command_vars, report_vars
  <2> QED
    BY <1>1, <1>2, <2>1
<1>7. ASSUME \/ \E c \in Commands, w \in Workers : Claim(w, c)
             \/ \E c \in Commands : Expire(c)
             \/ \E w \in Workers : Lapse(w)
      PROVE  P'
  <2>1. UNCHANGED <<shown, given, applied>>
    BY <1>7 DEF Claim, Expire, Lapse, report_vars
  <2>2. \A c \in Commands : state'[c] = "none" <=> state[c] = "none"
    BY <1>7 DEF Claim, Expire, Lapse, Fenced, DeliveryTypeOK
  <2> QED
    BY <1>1, <2>1, <2>2
<1>8. ASSUME NEW w \in Workers,
             Crash(w) \/ Check(w) \/ Succeed(w) \/ Lost(w) \/ Reject(w) \/ Mislead(w) \/ RecordFails(w)
      PROVE  P'
  BY <1>1, <1>8 DEF Crash, Check, Succeed, Lost, Reject, Mislead, RecordFails, command_vars, report_vars
<1>9. ASSUME NEW w \in Workers, Record(w)
      PROVE  P'
  <2> DEFINE c == runs[w]
  <2>1. c \in Commands /\ UNCHANGED applied
    BY <1>9 DEF Record, AnswersAreTrue, report_vars
  <2>2. CASE Fenced(w) /\ answer[w] = "delivered"
    <3>1. state' = [state EXCEPT ![c] = "delivered"] /\ MarkDelivered(c, id[w])
      BY <1>9, <2>2 DEF Record, Outcome
    <3>2. id[w] \in Nat \ {0}
      BY <1>9, <2>2 DEF Record, AnswersAreTrue, DeliveryTypeOK
    <3>3. state[c] \notin {"none", "delivered"}
      BY <2>2 DEF Fenced
    <3> HIDE DEF c
    <3> QED
      BY <1>3, <2>1, <3>1, <3>2, <3>3
  <2>3. CASE ~(Fenced(w) /\ answer[w] = "delivered")
    <3>1. UNCHANGED <<given, shown>>
      BY <1>9, <2>3 DEF Record
    <3>2. UNCHANGED state \/ (state[c] = "processing" /\ state' = [state EXCEPT ![c] = Outcome(w)])
      BY <1>9, <2>3 DEF Record, Fenced
    <3>3. \A d \in Commands : state'[d] = "none" <=> state[d] = "none"
      BY <2>1, <3>2, OutcomeType DEF DeliveryTypeOK
    <3> QED
      BY <1>1, <2>1, <3>1, <3>3
  <2> QED
    BY <2>2, <2>3
<1>10. ASSUME NEW c \in Commands, Reconcile(c)
       PROVE  P'
  <2>1. state[c] = "delivery_unknown" /\ UNCHANGED applied
    BY <1>10 DEF Reconcile, report_vars
  <2>2. CASE \E n \in 1 .. accepted[c] : state' = [state EXCEPT ![c] = "delivered"] /\ MarkDelivered(c, n)
    <3>1. PICK n \in 1 .. accepted[c] :
            state' = [state EXCEPT ![c] = "delivered"] /\ MarkDelivered(c, n)
      BY <2>2
    <3>2. n \in Nat \ {0}
      BY DEF DeliveryTypeOK
    <3> QED
      BY <1>3, <2>1, <3>1, <3>2
  <2>3. CASE state' = [state EXCEPT ![c] = "permanently_failed"] /\ UNCHANGED <<given, shown>>
    BY <1>1, <2>1, <2>3 DEF DeliveryTypeOK
  <2> QED
    BY <1>10, <2>2, <2>3 DEF Reconcile
<1>11. ASSUME NEW c \in Texts, NEW s \in Told, Report(c, s)
       PROVE  P'
  BY <1>1, <1>11 DEF Report, command_vars
<1>12. ASSUME NEW r \in reports, Bury(r)
       PROVE  P'
  BY <1>1, <1>12 DEF Bury, command_vars
<1>13. ASSUME NEW r \in reports, Apply(r)
       PROVE  P'
  <2>1. r.command \in Texts /\ r.status \in Statuses
    BY DEF DeliveryTypeOK, Reports
  <2>2. UNCHANGED <<state, given>> /\ applied' = applied \cup {r}
    BY <1>13 DEF Apply, command_vars
  <2>3. given[r.command] # 0
    BY <1>13 DEF Apply, ReportsNameIds
  <2>4. SUFFICES ASSUME NEW d \in Texts PROVE Stands(d)'
    OBVIOUS
  <2>5. CASE d # r.command
    <3>1. shown'[d] = shown[d]
      BY <1>13, <2>1, <2>5 DEF Apply, Applied, DeliveryTypeOK
    <3> QED
      BY <1>0, <2>2, <2>5, <3>1 DEF Stands, Base
  <2>6. CASE d = r.command
    <3>1. CASE Rank(r.status) >= Rank(shown[d])
      <4>1. shown'[d] = r.status
        BY <1>13, <2>6, <3>1 DEF Apply, Applied, DeliveryTypeOK
      <4> QED
        BY <1>0, <2>2, <2>6, <3>1, <4>1, RankType DEF Stands
    <3>2. CASE ~(Rank(r.status) >= Rank(shown[d]))
      <4>1. shown'[d] = shown[d]
        BY <1>13, <2>6, <3>2 DEF Apply, Applied
      <4>2. \E a \in applied : a.command = d
        <5>1. SUFFICES ASSUME \A a \in applied : a.command # d PROVE FALSE
          OBVIOUS
        <5>2. shown[d] \in {"none", "queued", "accepted"}
          BY <1>0, <5>1 DEF Stands, Base
        <5> QED
          BY <2>1, <3>2, <5>2 DEF Rank, Statuses
      <4> QED
        BY <1>0, <2>2, <2>6, <3>2, <4>1, <4>2, RankType DEF Stands
    <3> QED
      BY <3>1, <3>2
  <2> QED
    BY <2>5, <2>6
<1> QED
  BY <1>4, <1>5, <1>6, <1>7, <1>8, <1>9, <1>10, <1>11, <1>12, <1>13 DEF Next, WorkerStep

LEMMA ReportsStep ==
  ASSUME IInv, [Next]_delivery_vars
  PROVE  ReportsNameIds'
<1> USE CommandTypes DEF IInv, ReportsNameIds
\* An id that a message has stays, so it suffices to look at the reports that are new.
<1>1. ASSUME NEW c \in Commands, given[c] # 0
      PROVE  given'[c] # 0
  <2>1. ConfirmedExists' /\ state[c] = "delivered"
    BY <1>1, ConfirmedStep DEF ConfirmedExists
  <2>2. state'[c] = "delivered"
    <3>1. CASE \E w \in Workers : Record(w)
      BY <2>1, <3>1 DEF Record, Fenced, DeliveryTypeOK, AnswersAreTrue
    <3>2. CASE \E d \in Commands : Enqueue(d) \/ Expire(d) \/ Reconcile(d) \/ \E w \in Workers : Claim(w, d)
      BY <2>1, <3>2 DEF Enqueue, Request, Expire, Reconcile, Claim, DeliveryTypeOK
    <3>3. CASE \E w \in Workers : Lapse(w)
      BY <2>1, <3>3 DEF Lapse, Fenced, DeliveryTypeOK
    <3>4. CASE \E d \in Texts : SendText(d) \/ SendTemplate(d)
      BY <2>1, <3>4 DEF SendText, SendTemplate, Request, DeliveryTypeOK
    <3>5. CASE UNCHANGED state
      BY <2>1, <3>5
    <3> QED
      BY <3>1, <3>2, <3>3, <3>4, <3>5
      DEF Next, WorkerStep, Reply, CheckWindow, WindowEnds, Forget, Check, Succeed, Lost, Reject, Mislead,
          RecordFails, Crash, Report, Apply, Bury, delivery_vars, command_vars
  <2> QED
    BY <2>1, <2>2 DEF ConfirmedExists
<1>2. ASSUME NEW r \in reports PROVE r.command \in Commands
  BY DEF DeliveryTypeOK, Reports
<1>3. CASE \E c \in Texts, s \in Told : Report(c, s)
  BY <1>1, <1>2, <1>3 DEF Report, DeliveryTypeOK
<1>4. CASE \E r \in reports : Apply(r) \/ Bury(r)
  BY <1>1, <1>2, <1>4 DEF Apply, Bury, DeliveryTypeOK, command_vars
<1>5. CASE UNCHANGED report_vars
  BY <1>1, <1>2, <1>5 DEF report_vars, DeliveryTypeOK
<1> QED
  BY <1>3, <1>4, <1>5
  DEF Next, WorkerStep, Enqueue, Claim, Expire, Reconcile, Reply, CheckWindow, SendText, SendTemplate, WindowEnds, Forget,
      Check, Succeed, Lost, Reject, Mislead, Record, RecordFails, Crash, Lapse, delivery_vars

-----------------------------------------------------------------------------
(* Nothing is accepted twice but for a fault. *)

\* The worker has yet to send the command it runs, or to have it tried again.
Chance(w) == at[w] \in {"check", "send"} \/ (at[w] = "record" /\ answer[w] = "retryable")
Chances(c) == {w \in Workers : runs[w] = c /\ Chance(w)}

\* The worker that has the lease is at work on the command.
Held(c) == lease[c] \in Workers /\ runs[lease[c]] = c

\* Any worker may get it yet.
Free(c) == state[c] \in {"none", "pending", "retryable"} \/ (state[c] = "processing" /\ ~Held(c))

\* What may yet be accepted of a command.
Open(c) == Cardinality(Chances(c)) + IF Free(c) THEN 1 ELSE 0

BudgetKept == \A c \in Commands : accepted[c] + Open(c) <= 1 + faults

\* Only those at work run a command, and there is an answer to record.
IdleRunNothing == \A w \in Workers :
  /\ at[w] = "idle" => runs[w] = Nobody
  /\ at[w] = "record" => answer[w] # "none"

LEMMA ChancesFinite == \A c : IsFiniteSet(Chances(c)) /\ Cardinality(Chances(c)) \in Nat
BY DeliveryAssumption, FS_Subset, FS_CardinalityType DEF Chances

LEMMA IdleStep ==
  ASSUME IInv, IdleRunNothing, [Next]_delivery_vars
  PROVE  IdleRunNothing'
<1> USE DEF IdleRunNothing, IInv, DeliveryTypeOK
<1>1. CASE UNCHANGED <<runs, at>> /\ \A w \in Workers : answer'[w] = answer[w] \/ answer'[w] # "none"
  BY <1>1
<1>2. ASSUME NEW w \in Workers, Crash(w) \/ Record(w)
      PROVE  IdleRunNothing'
  BY <1>2 DEF Crash, Record, Leaves
<1>3. ASSUME NEW w \in Workers, NEW c \in Commands, Claim(w, c)
      PROVE  IdleRunNothing'
  BY <1>3 DEF Claim
<1>4. ASSUME NEW w \in Workers, Check(w) \/ Succeed(w) \/ Lost(w) \/ Reject(w) \/ Mislead(w)
      PROVE  IdleRunNothing'
  BY <1>4 DEF Check, Succeed, Lost, Reject, Mislead, Hears
<1> QED
  BY <1>1, <1>2, <1>3, <1>4
  DEF Next, WorkerStep, Enqueue, Expire, Reconcile, Reply, CheckWindow, SendText, SendTemplate, WindowEnds, Forget,
      RecordFails, Lapse, Report, Apply, Bury, worker_vars, delivery_vars

\* One worker's chance more, or less, is one more or less.
LEMMA OneMore ==
  ASSUME NEW c, NEW w, Chances(c)' \subseteq Chances(c) \cup {w}
  PROVE  Cardinality(Chances(c)') <= Cardinality(Chances(c)) + 1
<1>1. IsFiniteSet(Chances(c) \cup {w}) /\ Cardinality(Chances(c) \cup {w}) <= Cardinality(Chances(c)) + 1
  BY ChancesFinite, FS_AddElement
<1>2. Cardinality(Chances(c)') <= Cardinality(Chances(c) \cup {w}) /\ IsFiniteSet(Chances(c)')
  BY <1>1, FS_Subset
<1>3. /\ Cardinality(Chances(c)') \in Nat /\ Cardinality(Chances(c) \cup {w}) \in Nat
      /\ Cardinality(Chances(c)) \in Nat
  BY <1>1, <1>2, ChancesFinite, FS_CardinalityType
<1> QED
  BY <1>1, <1>2, <1>3

LEMMA NoMore ==
  ASSUME NEW c, Chances(c)' \subseteq Chances(c)
  PROVE  Cardinality(Chances(c)') <= Cardinality(Chances(c)) /\ Cardinality(Chances(c)') \in Nat
BY ChancesFinite, FS_Subset, FS_CardinalityType

LEMMA OneLess ==
  ASSUME NEW c, NEW w \in Chances(c), Chances(c)' \subseteq Chances(c) \ {w}
  PROVE  Cardinality(Chances(c)') + 1 <= Cardinality(Chances(c)) /\ Cardinality(Chances(c)') \in Nat
<1>1. IsFiniteSet(Chances(c) \ {w}) /\ Cardinality(Chances(c) \ {w}) = Cardinality(Chances(c)) - 1
  BY ChancesFinite, FS_RemoveElement
<1>2. Cardinality(Chances(c)') <= Cardinality(Chances(c) \ {w}) /\ IsFiniteSet(Chances(c)')
  BY <1>1, FS_Subset
<1>3. Cardinality(Chances(c)') \in Nat /\ Cardinality(Chances(c)) \in Nat
  BY <1>2, ChancesFinite, FS_CardinalityType
<1> QED
  BY <1>1, <1>2, <1>3

\* The books of a command: what is accepted and may yet be grows with the faults only.
LEMMA Balance ==
  ASSUME IInv, BudgetKept, NEW c \in Commands,
         NEW a \in {0, 1}, NEW k \in {-1, 0, 1}, NEW f \in {0, 1},
         accepted'[c] = accepted[c] + a, faults' = faults + f,
         Cardinality(Chances(c)') <= Cardinality(Chances(c)) + k,
         a + k + (IF Free(c)' THEN 1 ELSE 0) <= f + (IF Free(c) THEN 1 ELSE 0),
         Cardinality(Chances(c)') \in Nat
  PROVE  accepted'[c] + Open(c)' <= 1 + faults'
<1>1. accepted[c] \in Nat /\ faults \in Nat /\ Cardinality(Chances(c)) \in Nat
  BY ChancesFinite, DeliveryAssumption DEF IInv, DeliveryTypeOK
<1>2. accepted[c] + (Cardinality(Chances(c)) + IF Free(c) THEN 1 ELSE 0) <= 1 + faults
  BY DEF BudgetKept, Open
<1> DEFINE K == Cardinality(Chances(c))
           L == Cardinality(Chances(c)')
           F == IF Free(c) THEN 1 ELSE 0
           G == IF Free(c)' THEN 1 ELSE 0
<1>3. Open(c)' = L + G /\ F \in {0, 1} /\ G \in {0, 1}
  BY DEF Open
<1>4. L <= K + k /\ a + k + G <= f + F /\ accepted[c] + (K + F) <= 1 + faults /\ L \in Nat
  BY <1>2
<1> HIDE DEF K, L, F, G
<1> QED
  BY <1>1, <1>3, <1>4 DEF K

\* A step without a fault that opens nothing.
LEMMA BalanceKept ==
  ASSUME IInv, BudgetKept, NEW c \in Commands,
         accepted'[c] = accepted[c], faults' = faults,
         Chances(c)' \subseteq Chances(c), Free(c)' => Free(c)
  PROVE  accepted'[c] + Open(c)' <= 1 + faults'
<1>1. Cardinality(Chances(c)') <= Cardinality(Chances(c)) /\ Cardinality(Chances(c)') \in Nat
  BY NoMore
<1>2. accepted[c] \in Nat /\ faults \in Nat /\ Cardinality(Chances(c)) \in Nat
  BY ChancesFinite, DeliveryAssumption DEF IInv, DeliveryTypeOK
<1>3. accepted'[c] = accepted[c] + 0 /\ faults' = faults + 0
      /\ Cardinality(Chances(c)') <= Cardinality(Chances(c)) + 0
  BY <1>1, <1>2
<1>4. 0 + 0 + (IF Free(c)' THEN 1 ELSE 0) <= 0 + (IF Free(c) THEN 1 ELSE 0)
  OBVIOUS
<1> QED
  BY <1>1, <1>3, <1>4, Balance

\* A fault pays for a chance.
LEMMA FaultPays ==
  ASSUME IInv, BudgetKept, NEW c \in Commands, faults' = faults + 1,
         \/ /\ accepted'[c] = accepted[c] /\ Chances(c)' \subseteq Chances(c)
         \/ /\ accepted'[c] = accepted[c] + 1 /\ Chances(c)' \subseteq Chances(c)
            /\ Free(c)' => Free(c)
         \/ /\ accepted'[c] = accepted[c]
            /\ \E w \in Workers : Chances(c)' \subseteq Chances(c) \cup {w}
            /\ Free(c)' => Free(c)
  PROVE  accepted'[c] + Open(c)' <= 1 + faults'
<1>1. accepted[c] \in Nat /\ Cardinality(Chances(c)) \in Nat
  BY ChancesFinite DEF IInv, DeliveryTypeOK
<1>2. CASE accepted'[c] = accepted[c] /\ Chances(c)' \subseteq Chances(c)
  <2>1. accepted'[c] = accepted[c] + 0 /\ Cardinality(Chances(c)') <= Cardinality(Chances(c)) + 0
        /\ Cardinality(Chances(c)') \in Nat
    BY <1>1, <1>2, NoMore
  <2>2. 0 + 0 + (IF Free(c)' THEN 1 ELSE 0) <= 1 + (IF Free(c) THEN 1 ELSE 0)
    OBVIOUS
  <2> QED
    BY <2>1, <2>2, Balance
<1>3. CASE accepted'[c] = accepted[c] + 1 /\ Chances(c)' \subseteq Chances(c) /\ (Free(c)' => Free(c))
  <2>1. Cardinality(Chances(c)') <= Cardinality(Chances(c)) + 0 /\ Cardinality(Chances(c)') \in Nat
    BY <1>1, <1>3, NoMore
  <2>2. 1 + 0 + (IF Free(c)' THEN 1 ELSE 0) <= 1 + (IF Free(c) THEN 1 ELSE 0)
    BY <1>3
  <2> QED
    BY <1>3, <2>1, <2>2, Balance
<1>4. ASSUME accepted'[c] = accepted[c], NEW w \in Workers, Chances(c)' \subseteq Chances(c) \cup {w},
             Free(c)' => Free(c)
      PROVE  accepted'[c] + Open(c)' <= 1 + faults'
  <2>1. Cardinality(Chances(c)') <= Cardinality(Chances(c)) + 1
    BY <1>4, OneMore
  <2>2. Cardinality(Chances(c)') \in Nat
    BY <1>4, ChancesFinite, FS_AddElement, FS_Subset, FS_CardinalityType
  <2>3. 0 + 1 + (IF Free(c)' THEN 1 ELSE 0) <= 1 + (IF Free(c) THEN 1 ELSE 0)
    BY <1>4
  <2>4. accepted'[c] = accepted[c] + 0
    BY <1>1, <1>4
  <2> QED
    BY <2>1, <2>2, <2>3, <2>4, Balance
<1> QED
  BY <1>2, <1>3, <1>4

\* Steps of a worker that has the provider's answer, or not yet.
LEMMA CallBudget ==
  ASSUME IInv, BudgetKept, IdleRunNothing, NEW w \in Workers, NEW c \in Commands,
         Check(w) \/ Succeed(w) \/ Lost(w) \/ Reject(w) \/ Mislead(w) \/ RecordFails(w)
  PROVE  accepted'[c] + Open(c)' <= 1 + faults'
<1> USE DEF IInv, DeliveryTypeOK
<1>1. runs[w] \in Commands
  BY DEF AnswersAreTrue, Check, Succeed, Lost, Reject, Mislead, RecordFails
<1>2. UNCHANGED <<state, lease, runs>>
  BY DEF Check, Succeed, Lost, Reject, Mislead, RecordFails, command_vars
<1>3. Free(c)' <=> Free(c)
  BY <1>2 DEF Free, Held
<1>4. \A v \in Workers \ {w} : at'[v] = at[v] /\ answer'[v] = answer[v]
  BY DEF Check, Succeed, Lost, Reject, Mislead, RecordFails, Hears
<1>5. Chances(c)' \subseteq Chances(c) \cup {w}
  BY <1>2, <1>4 DEF Chances, Chance
<1>6. CASE Check(w) \/ Reject(w) \/ (Lost(w) /\ UNCHANGED accepted)
  <2>1. UNCHANGED <<accepted, faults>> /\ Chance(w)
    BY <1>6 DEF Check, Reject, Lost, Chance
  <2>2. Chances(c)' \subseteq Chances(c)
    BY <1>2, <1>5, <2>1 DEF Chances
  <2> QED
    BY <1>3, <2>1, <2>2, BalanceKept
<1>7. CASE Succeed(w) \/ (Lost(w) /\ Accepts(runs[w]))
  <2>1. Accepts(runs[w]) /\ faults' = faults /\ Chance(w) /\ ~Chance(w)'
    BY <1>7 DEF Succeed, Lost, Hears, Chance
  <2>2. Chances(c)' \subseteq Chances(c) \ {w}
    BY <1>5, <2>1 DEF Chances
  <2>3. CASE c = runs[w]
    <3>1. w \in Chances(c)
      BY <2>1, <2>3 DEF Chances
    <3>2. accepted'[c] = accepted[c] + 1
      BY <1>1, <2>1, <2>3 DEF Accepts
    <3>3. Cardinality(Chances(c)') <= Cardinality(Chances(c)) + (-1) /\ Cardinality(Chances(c)') \in Nat
      BY <2>2, <3>1, OneLess, ChancesFinite
    <3>4. faults' = faults + 0 /\ 1 + (-1) + (IF Free(c)' THEN 1 ELSE 0) <= 0 + (IF Free(c) THEN 1 ELSE 0)
      BY <1>3, <2>1
    <3> QED
      BY <3>2, <3>3, <3>4, Balance
  <2>4. CASE c # runs[w]
    <3>1. accepted'[c] = accepted[c]
      BY <1>1, <2>1, <2>4 DEF Accepts
    <3> QED
      BY <1>3, <2>1, <2>2, <3>1, BalanceKept
  <2> QED
    BY <2>3, <2>4
<1>8. CASE Mislead(w)
  <2>1. Accepts(runs[w]) /\ faults' = faults + 1 /\ Chance(w)
    BY <1>8 DEF Mislead, Chance
  <2>2. Chances(c)' \subseteq Chances(c)
    BY <1>2, <1>5, <2>1 DEF Chances
  <2>3. accepted'[c] = accepted[c] + 1 \/ accepted'[c] = accepted[c]
    BY <1>1, <2>1 DEF Accepts
  <2> QED
    BY <1>3, <2>1, <2>2, <2>3, FaultPays
<1>9. CASE RecordFails(w)
  <2>1. UNCHANGED accepted /\ faults' = faults + 1
    BY <1>9 DEF RecordFails
  <2> QED
    BY <1>3, <1>5, <2>1, FaultPays
<1> QED
  BY <1>6, <1>7, <1>8, <1>9 DEF Lost

LEMMA RecordBudget ==
  ASSUME IInv, BudgetKept, IdleRunNothing, NEW w \in Workers, NEW c \in Commands, Record(w)
  PROVE  accepted'[c] + Open(c)' <= 1 + faults'
<1> USE DEF IInv, DeliveryTypeOK
<1>1. /\ runs[w] \in Commands /\ at[w] = "record" /\ answer[w] # "none"
      /\ UNCHANGED <<accepted, faults, lease>> /\ Leaves(w)
  BY DEF Record, AnswersAreTrue, IdleRunNothing
<1>2. runs' = [runs EXCEPT ![w] = Nobody] /\ Nobody # c
  BY <1>1, DeliveryAssumption DEF Leaves
<1>3. Chances(c)' \subseteq Chances(c) \ {w}
  BY <1>1, <1>2 DEF Chances, Chance, Leaves
<1>4. CASE c = runs[w] /\ Fenced(w) /\ answer[w] = "retryable"
  <2>1. w \in Chances(c) /\ ~Free(c)
    BY <1>1, <1>4 DEF Chances, Chance, Free, Held, Fenced
  <2>2. Cardinality(Chances(c)') <= Cardinality(Chances(c)) + (-1) /\ Cardinality(Chances(c)') \in Nat
    BY <1>3, <2>1, OneLess, ChancesFinite
  <2>3. accepted'[c] = accepted[c] + 0 /\ faults' = faults + 0
    BY <1>1, DeliveryAssumption
  <2>4. 0 + (-1) + (IF Free(c)' THEN 1 ELSE 0) <= 0 + (IF Free(c) THEN 1 ELSE 0)
    BY <2>1
  <2> QED
    BY <2>2, <2>3, <2>4, Balance
<1>5. CASE c = runs[w] /\ Fenced(w) /\ answer[w] # "retryable"
  <2>1. Outcome(w) \in {"delivered", "delivery_unknown", "permanently_failed"}
    BY <1>1, <1>5 DEF Outcome
  <2>2. state'[c] = Outcome(w)
    BY <1>5 DEF Record
  <2>3. ~Free(c)'
    BY <2>1, <2>2 DEF Free
  <2> QED
    BY <1>1, <1>3, <2>3, BalanceKept
<1>6. CASE c # runs[w] \/ ~Fenced(w)
  <2>1. state'[c] = state[c]
    BY <1>1, <1>6 DEF Record
  <2>2. state[c] = "processing" /\ Held(c) => Held(c)'
    BY <1>1, <1>2, <1>6 DEF Held, Fenced
  <2>3. Free(c)' => Free(c)
    BY <2>1, <2>2 DEF Free
  <2> QED
    BY <1>1, <1>3, <2>3, BalanceKept
<1> QED
  BY <1>4, <1>5, <1>6

LEMMA LeaseBudget ==
  ASSUME IInv, BudgetKept, IdleRunNothing, NEW c \in Commands,
         \/ \E w \in Workers : Crash(w) \/ Lapse(w)
         \/ \E d \in Commands : Expire(d)
         \/ \E w \in Workers, d \in Commands : Claim(w, d)
  PROVE  accepted'[c] + Open(c)' <= 1 + faults'
<1> USE DEF IInv, DeliveryTypeOK
<1>1. ASSUME NEW w \in Workers, Crash(w)
      PROVE  accepted'[c] + Open(c)' <= 1 + faults'
  <2>1. Chances(c)' \subseteq Chances(c)
    BY <1>1, DeliveryAssumption DEF Crash, Leaves, Chances, Chance
  <2> QED
    BY <1>1, <2>1, FaultPays DEF Crash
<1>2. ASSUME NEW w \in Workers, Lapse(w)
      PROVE  accepted'[c] + Open(c)' <= 1 + faults'
  <2>1. Chances(c)' \subseteq Chances(c)
    BY <1>2 DEF Lapse, Chances, Chance, worker_vars
  <2> QED
    BY <1>2, <2>1, FaultPays DEF Lapse
<1>3. ASSUME NEW d \in Commands, Expire(d)
      PROVE  accepted'[c] + Open(c)' <= 1 + faults'
  <2>1. Chances(c)' \subseteq Chances(c)
    BY <1>3 DEF Expire, Chances, Chance, worker_vars
  <2>2. Free(c)' => Free(c)
    BY <1>3 DEF Expire, Free, Held, worker_vars
  <2> QED
    BY <1>3, <2>1, <2>2, BalanceKept DEF Expire
<1>4. ASSUME NEW w \in Workers, NEW d \in Commands, Claim(w, d)
      PROVE  accepted'[c] + Open(c)' <= 1 + faults'
  <2>1. /\ at[w] = "idle" /\ runs[w] = Nobody /\ Nobody # c
        /\ state[d] \in {"pending", "retryable"}
        /\ state' = [state EXCEPT ![d] = "processing"] /\ lease' = [lease EXCEPT ![d] = w]
        /\ runs' = [runs EXCEPT ![w] = d]
        /\ \A v \in Workers \ {w} : at'[v] = at[v]
        /\ UNCHANGED <<answer, accepted, faults>>
    BY <1>4, DeliveryAssumption DEF Claim, IdleRunNothing
  <2>2. Chances(c)' \subseteq Chances(c) \cup {w}
    BY <2>1 DEF Chances, Chance
  <2>3. CASE c = d
    <3>1. Free(c) /\ ~Free(c)'
      BY <2>1, <2>3 DEF Free, Held
    <3>2. Cardinality(Chances(c)') <= Cardinality(Chances(c)) + 1 /\ Cardinality(Chances(c)') \in Nat
      BY <2>2, OneMore, ChancesFinite, FS_AddElement, FS_Subset, FS_CardinalityType
    <3>3. accepted'[c] = accepted[c] + 0 /\ faults' = faults + 0
      BY <2>1, DeliveryAssumption
    <3>4. 0 + 1 + (IF Free(c)' THEN 1 ELSE 0) <= 0 + (IF Free(c) THEN 1 ELSE 0)
      BY <3>1
    <3> QED
      BY <3>2, <3>3, <3>4, Balance
  <2>4. CASE c # d
    <3>1. Chances(c)' \subseteq Chances(c)
      BY <2>1, <2>2, <2>4 DEF Chances
    <3>2. Free(c)' => Free(c)
      BY <2>1, <2>4 DEF Free, Held
    <3> QED
      BY <2>1, <3>1, <3>2, BalanceKept
  <2> QED
    BY <2>3, <2>4
<1> QED
  BY <1>1, <1>2, <1>3, <1>4

LEMMA BudgetStep ==
  ASSUME IInv, BudgetKept, IdleRunNothing, [Next]_delivery_vars
  PROVE  BudgetKept'
<1> SUFFICES ASSUME NEW c \in Commands PROVE accepted'[c] + Open(c)' <= 1 + faults'
  BY DEF BudgetKept
\* Steps that nobody at work takes part in.
<1>1. ASSUME UNCHANGED <<lease, worker_vars, accepted, faults>>,
             \A d \in Commands : state'[d] = state[d] \/ state[d] = "none" \/ state'[d] \in Settled
      PROVE  accepted'[c] + Open(c)' <= 1 + faults'
  <2>1. Chances(c)' \subseteq Chances(c)
    BY <1>1 DEF Chances, Chance, worker_vars
  <2>2. Free(c)' => Free(c)
    BY <1>1 DEF Free, Held, worker_vars, Settled
  <2> QED
    BY <1>1, <2>1, <2>2, BalanceKept
<1>2. ASSUME NEW d \in Commands, Enqueue(d) \/ Reconcile(d)
      PROVE  accepted'[c] + Open(c)' <= 1 + faults'
  BY <1>1, <1>2 DEF Enqueue, Request, Reconcile, Settled, IInv, DeliveryTypeOK
<1>3. ASSUME NEW d \in Texts, SendText(d) \/ SendTemplate(d)
      PROVE  accepted'[c] + Open(c)' <= 1 + faults'
  <2>1. UNCHANGED <<lease, worker_vars, accepted, faults>> /\ (Request(d) \/ UNCHANGED state)
    BY <1>3 DEF SendText, SendTemplate
  <2>2. \A e \in Commands : state'[e] = state[e] \/ state[e] = "none"
    BY <2>1 DEF Request, IInv, DeliveryTypeOK
  <2> QED
    BY <1>1, <2>1, <2>2
<1>4. CASE \/ UNCHANGED delivery_vars
           \/ \E d \in Texts : Reply(d) \/ CheckWindow(d) \/ WindowEnds(d) \/ Forget(d)
           \/ \E d \in Texts, t \in Told : Report(d, t)
           \/ \E r \in reports : Apply(r) \/ Bury(r)
  <2>1. UNCHANGED <<state, lease, worker_vars, accepted, faults>>
    BY <1>4 DEF delivery_vars, command_vars, Reply, CheckWindow, WindowEnds, Forget, Report, Apply, Bury
  <2> QED
    BY <1>1, <2>1
<1>5. ASSUME NEW w \in Workers, WorkerStep(w) \/ RecordFails(w)
      PROVE  accepted'[c] + Open(c)' <= 1 + faults'
  BY <1>5, CallBudget, RecordBudget DEF WorkerStep
<1>6. CASE \/ \E w \in Workers : Crash(w) \/ Lapse(w)
           \/ \E d \in Commands : Expire(d)
           \/ \E w \in Workers, d \in Commands : Claim(w, d)
  BY <1>6, LeaseBudget
<1> QED
  BY <1>2, <1>3, <1>4, <1>5, <1>6 DEF Next

LEMMA InitIsWithinBudget == Init => BudgetKept /\ IdleRunNothing
<1> SUFFICES ASSUME Init PROVE BudgetKept /\ IdleRunNothing
  OBVIOUS
<1>1. ASSUME NEW c \in Commands PROVE accepted[c] = 0 /\ Open(c) <= 1 /\ Open(c) \in Nat
  <2>1. Chances(c) = {}
    BY DEF Init, Chances, Chance
  <2>2. Cardinality(Chances(c)) = 0
    BY <2>1, FS_EmptySet
  <2> QED
    BY <2>2 DEF Open, Init
<1> QED
  BY <1>1 DEF Init, BudgetKept, IdleRunNothing

LEMMA BudgetBounds ==
  ASSUME IInv, BudgetKept
  PROVE  AcceptedOnce
<1>1. ASSUME NEW c \in Commands PROVE accepted[c] <= 1 + faults
  <2>1. accepted[c] \in Nat /\ faults \in Nat /\ Cardinality(Chances(c)) \in Nat
    BY ChancesFinite, DeliveryAssumption DEF IInv, DeliveryTypeOK
  <2> QED
    BY <2>1 DEF BudgetKept, Open
<1> QED
  BY <1>1 DEF AcceptedOnce

-----------------------------------------------------------------------------
(* The theorems. *)

LEMMA InvStep == IInv /\ [Next]_delivery_vars => IInv'
<1> SUFFICES ASSUME IInv, [Next]_delivery_vars PROVE IInv'
  OBVIOUS
<1>1. DeliveryTypeOK' /\ AnswersAreTrue'
  <2>1. CASE Next
    BY <2>1, AskingTypes, LeasingTypes, CallTypes, RecordTypes DEF IInv, Next, WorkerStep
  <2>2. CASE UNCHANGED delivery_vars
    BY <2>2 DEF IInv, DeliveryTypeOK, AnswersAreTrue, delivery_vars, command_vars, worker_vars, report_vars, notice_vars
  <2> QED
    BY <2>1, <2>2
<1> QED
  BY <1>1, ConfirmedStep, StandsStep, ReportsStep DEF IInv

\* The inductive invariant of the outbox and the providers.
THEOREM DeliveryInvariant == Spec => []IInv
BY InitIsGood, InvStep, PTL DEF Spec

\* Commands, workers, answers and reports keep their types.
THEOREM DeliveryTyped == Spec => []DeliveryTypeOK
BY DeliveryInvariant, PTL DEF IInv

\* A command is 'delivered', and an appointment confirmed, exactly when the provider's
\* id of something that it accepted is recorded, whichever worker or operator did it.
THEOREM ConfirmedIsThere == Spec => []ConfirmedExists
BY DeliveryInvariant, PTL DEF IInv

\* A message shows the furthest report that was processed, in any order and number.
THEOREM ReportsInAnyOrder == Spec => []FurthestReportStands
BY DeliveryInvariant, PTL DEF IInv

\* No call without an answer is repeated: whatever workers do to a command, the provider
\* accepts it once, and once more at most for each crash, lapse, failed statement or
\* answer that misleads.
THEOREM NothingTwice == Spec => []AcceptedOnce
<1>1. Init => IInv /\ BudgetKept /\ IdleRunNothing
  BY InitIsGood, InitIsWithinBudget
<1>2. (IInv /\ BudgetKept /\ IdleRunNothing) /\ [Next]_delivery_vars
        => (IInv /\ BudgetKept /\ IdleRunNothing)'
  BY InvStep, IdleStep, BudgetStep
<1>3. IInv /\ BudgetKept => AcceptedOnce
  BY BudgetBounds
<1> QED
  BY <1>1, <1>2, <1>3, PTL DEF Spec

-----------------------------------------------------------------------------
(* The queue that this model has implements Leases. *)

\* A function that differs from another at one place.
LEMMA DiffersAtOne ==
  ASSUME NEW S, NEW w \in S, NEW f, NEW g, NEW x, f = [v \in S |-> f[v]], g = [v \in S |-> g[v]],
         \A v \in S \ {w} : g[v] = f[v], g[w] = x
  PROVE  g = [f EXCEPT ![w] = x]
OBVIOUS

LEMMA StartsAsLeases == Init => CommandLeases!LeasesInit
<1> SUFFICES ASSUME Init PROVE CommandLeases!LeasesInit
  OBVIOUS
<1>1. \A w \in Workers, c \in Commands : runs[w] # c
  BY DeliveryAssumption DEF Init
<1>2. \A c \in Commands : CommandState(c) = "new"
  BY DEF Init, CommandState
<1>3. tries = [c \in Commands |-> 0]
  BY DEF Init
<1> QED
  BY <1>1, <1>2, <1>3 DEF CommandLeases!LeasesInit

\* A step that is not about commands and who has them.
LEMMA NoLease ==
  ASSUME UNCHANGED <<state, tries, lease, runs>>
  PROVE  UNCHANGED CommandLeases!lease_vars
<1>1. \A c \in Commands : CommandState(c)' = CommandState(c)
  BY DEF CommandState
<1>2. \A w \in Workers : Fenced(w)' = Fenced(w)
  BY DEF Fenced
<1> QED
  BY <1>1, <1>2 DEF CommandLeases!lease_vars

\* A command that is asked for.
LEMMA RequestsAreOrders ==
  ASSUME IInv, NEW c \in Commands, Request(c), UNCHANGED <<tries, lease, runs>>
  PROVE  CommandLeases!Order
<1>1. state' = [state EXCEPT ![c] = "pending"] /\ state[c] = "none"
  BY DEF Request
<1>2. CommandState(c) = "new" /\ CommandState(c)' = "open"
  BY <1>1 DEF CommandState, IInv, DeliveryTypeOK
<1>3. \A d \in Commands \ {c} : CommandState(d)' = CommandState(d)
  BY <1>1 DEF CommandState, IInv, DeliveryTypeOK
<1>4. \A d \in Commands : CommandState(d)' \in {"new", "open", "over", "withdrawn"}
  BY DEF CommandState
<1>5. \A w \in Workers : Fenced(w) => CommandState(runs[w])' = CommandState(runs[w])
  BY <1>1 DEF Fenced, CommandState, IInv, DeliveryTypeOK
<1>6. \A w \in Workers : runs[w] \in Commands => Fenced(w)' = Fenced(w)
  BY <1>1 DEF Fenced, IInv, DeliveryTypeOK
<1> QED
  BY <1>2, <1>3, <1>4, <1>5, <1>6 DEF CommandLeases!Order, CommandLeases!Orders

\* A worker that claims a command.
LEMMA ClaimsAreTaken ==
  ASSUME IInv, IdleRunNothing, NEW w \in Workers, NEW c \in Commands, Claim(w, c)
  PROVE  CommandLeases!Take(w, {c})
<1> USE DEF IInv, DeliveryTypeOK
<1>1. /\ state' = [state EXCEPT ![c] = "processing"] /\ state[c] \in {"pending", "retryable"}
      /\ tries' = [tries EXCEPT ![c] = @ + 1] /\ lease' = [lease EXCEPT ![c] = w]
      /\ runs' = [runs EXCEPT ![w] = c] /\ runs[w] = Nobody
  BY DEF Claim, IdleRunNothing
<1>2. \A d \in Commands : CommandState(d)' = CommandState(d)
  BY <1>1 DEF CommandState
<1>3. CommandState(c) = "open"
  BY <1>1 DEF CommandState
<1>4. \A d \in Commands : runs[w] # d /\ (runs'[w] = d <=> d = c)
  BY <1>1, DeliveryAssumption
<1>5. Fenced(w)'
  BY <1>1 DEF Fenced
<1>6. \A v \in Workers, d \in Commands : v # w /\ runs[v] = d => runs'[v] = d /\ (Fenced(v)' <=> Fenced(v) /\ d # c)
  BY <1>1 DEF Fenced
<1>7. \A v \in Workers : v # w => runs'[v] = runs[v]
  BY <1>1
<1>8. tries' = [d \in Commands |-> IF d \in {c} THEN tries[d] + 1 ELSE tries[d]]
  BY <1>1
<1> DEFINE has == [v \in Workers |-> {d \in Commands : runs[v] = d}]
           holds == [v \in Workers |-> {d \in Commands : runs[v] = d /\ Fenced(v)}]
<1>9. has[w] = {} /\ has' = [has EXCEPT ![w] = {c}]
  <2>1. has[w] = {} /\ has'[w] = {c} /\ \A v \in Workers \ {w} : has'[v] = has[v]
    BY <1>4, <1>7
  <2>2. has = [v \in Workers |-> has[v]] /\ has' = [v \in Workers |-> has'[v]]
    OBVIOUS
  <2> HIDE DEF has
  <2> QED
    BY <2>1, <2>2, DiffersAtOne
<1>10. holds' = [v \in Workers |-> IF v = w THEN {c} ELSE holds[v] \ {c}]
  <2>1. holds'[w] = {c}
    BY <1>4, <1>5
  <2>2. ASSUME NEW v \in Workers, v # w PROVE holds'[v] = holds[v] \ {c}
    BY <2>2, <1>6, <1>7
  <2> QED
    BY <2>1, <2>2
<1>11. [d \in Commands |-> CommandState(d)]' = [d \in Commands |-> CommandState(d)]
  BY <1>2
<1>12. \A d \in {c} : [e \in Commands |-> CommandState(e)][d] = "open"
  BY <1>3
<1> QED
  BY <1>8, <1>9, <1>10, <1>11, <1>12 DEF CommandLeases!Take

\* A worker that leaves its command, or loses its lease.
LEMMA LeavingKeepsLeases ==
  ASSUME IInv, NEW w \in Workers, UNCHANGED tries, runs' \in [Workers -> Commands \cup {Nobody}],
         runs'[w] \in {runs[w], Nobody}, \A v \in Workers \ {w} : runs'[v] = runs[v],
         \A v \in Workers \ {w} : runs[v] \in Commands => Fenced(v)' = Fenced(v),
         runs'[w] = runs[w] /\ Fenced(w)' => Fenced(w),
         \A d \in Commands : CommandState(d)' # CommandState(d) =>
            /\ runs[w] = d /\ Fenced(w) /\ (runs'[w] = Nobody \/ ~Fenced(w)')
            /\ CommandState(d)' = "over"
  PROVE  CommandLeases!Leave(w)
<1> USE DeliveryAssumption DEF IInv, DeliveryTypeOK
<1> DEFINE state_ == [d \in Commands |-> CommandState(d)]
           has == [v \in Workers |-> {d \in Commands : runs[v] = d}]
           holds == [v \in Workers |-> {d \in Commands : runs[v] = d /\ Fenced(v)}]
<1>1. has'[w] \subseteq has[w] /\ holds'[w] \subseteq holds[w] \cap has'[w]
  OBVIOUS
<1>2. has' = [has EXCEPT ![w] = has'[w]]
  <2>1. /\ \A v \in Workers \ {w} : has'[v] = has[v]
        /\ has = [v \in Workers |-> has[v]] /\ has' = [v \in Workers |-> has'[v]]
    OBVIOUS
  <2> HIDE DEF has
  <2> QED
    BY <2>1, DiffersAtOne
<1>3. holds' = [holds EXCEPT ![w] = holds'[w]]
  <2>1. \A v \in Workers \ {w} : holds'[v] = holds[v]
    OBVIOUS
  <2>2. holds = [v \in Workers |-> holds[v]] /\ holds' = [v \in Workers |-> holds'[v]]
    OBVIOUS
  <2> HIDE DEF holds
  <2> QED
    BY <2>1, <2>2, DiffersAtOne
<1>4. state_' = [d \in Commands |-> IF d \in holds[w] \ holds'[w] /\ state_'[d] # state_[d]
                                    THEN "over" ELSE state_[d]]
  OBVIOUS
<1> QED
  BY <1>1, <1>2, <1>3, <1>4 DEF CommandLeases!Leave

\* Each step of a worker at its command, or that takes it away.
LEMMA WorkersKeepLeases ==
  ASSUME IInv, NEW w \in Workers, Record(w) \/ Crash(w) \/ Lapse(w)
  PROVE  CommandLeases!Leave(w)
<1> USE DeliveryAssumption DEF IInv, DeliveryTypeOK, AnswersAreTrue
<1>1. CASE Record(w)
  <2> DEFINE c == runs[w]
  <2>1. c \in Commands /\ runs' = [runs EXCEPT ![w] = Nobody] /\ UNCHANGED <<tries, lease>>
        /\ state' = IF Fenced(w) THEN [state EXCEPT ![c] = Outcome(w)] ELSE state
    BY <1>1 DEF Record, Leaves
  <2>2. \A d \in Commands : d # c => state'[d] = state[d]
    BY <2>1
  <2>3. \A v \in Workers \ {w} : runs[v] \in Commands => Fenced(v)' = Fenced(v)
    BY <2>1, <2>2 DEF Fenced
  <2>4. \A d \in Commands : CommandState(d)' # CommandState(d) =>
           d = c /\ Fenced(w) /\ CommandState(d)' = "over"
    <3>1. Outcome(w) \in Settled \cup {"retryable"}
      BY OutcomeType DEF Settled
    <3>2. Fenced(w) => state[c] = "processing" /\ state'[c] \in Settled \cup {"retryable"}
      BY <2>1, <3>1 DEF Fenced
    <3> QED
      BY <2>1, <2>2, <3>2 DEF CommandState, Settled
  <2> QED
    BY <2>1, <2>3, <2>4, LeavingKeepsLeases
<1>2. CASE Crash(w)
  <2>1. /\ runs[w] \in Commands /\ runs' = [runs EXCEPT ![w] = Nobody]
        /\ UNCHANGED <<state, tries, lease>>
    BY <1>2 DEF Crash, Leaves, command_vars
  <2>2. \A v \in Workers \ {w} : Fenced(v)' = Fenced(v)
    BY <2>1 DEF Fenced
  <2>3. \A d \in Commands : CommandState(d)' = CommandState(d)
    BY <2>1 DEF CommandState
  <2>4. runs'[w] = Nobody /\ \A v \in Workers \ {w} : runs'[v] = runs[v]
    BY <2>1
  <2> QED
    BY <2>1, <2>2, <2>3, <2>4, LeavingKeepsLeases
<1>3. CASE Lapse(w)
  <2> DEFINE c == runs[w]
  <2>1. /\ c \in Commands /\ Fenced(w) /\ UNCHANGED <<tries, runs>>
        /\ state' = [state EXCEPT ![c] = "retryable"] /\ lease' = [lease EXCEPT ![c] = Nobody]
    BY <1>3 DEF Lapse, worker_vars
  <2>2. ~Fenced(w)' /\ \A v \in Workers \ {w} : runs[v] \in Commands => Fenced(v)' = Fenced(v)
    <3>1. lease'[c] = Nobody /\ lease[c] = w /\ w # Nobody
      BY <2>1 DEF Fenced
    <3>2. ASSUME NEW v \in Workers \ {w}, runs[v] \in Commands PROVE Fenced(v)' = Fenced(v)
      <4>1. CASE runs[v] = c
        BY <2>1, <3>1, <4>1 DEF Fenced
      <4>2. CASE runs[v] # c
        BY <2>1, <3>2, <4>2 DEF Fenced
      <4> QED
        BY <4>1, <4>2
    <3> QED
      BY <2>1, <3>1, <3>2 DEF Fenced
  <2>3. \A d \in Commands : CommandState(d)' = CommandState(d)
    BY <2>1 DEF CommandState, Fenced
  <2> QED
    BY <2>1, <2>2, <2>3, LeavingKeepsLeases
<1> QED
  BY <1>1, <1>2, <1>3

LEMMA StepKeepsLeases ==
  ASSUME IInv, IdleRunNothing, [Next]_delivery_vars
  PROVE  [CommandLeases!LeasesNext]_(CommandLeases!lease_vars)
<1> USE CommandTypes DEF command_vars, worker_vars
<1> DEFINE unchanged == UNCHANGED <<state, tries, lease, runs>>
<1>1. CASE unchanged
  BY <1>1, NoLease
<1>2. ASSUME NEW c \in Commands, Request(c), UNCHANGED <<tries, lease, runs>>
      PROVE  CommandLeases!LeasesNext
  BY <1>2, RequestsAreOrders DEF CommandLeases!LeasesNext
<1>3. ASSUME NEW c \in Texts, SendText(c) \/ SendTemplate(c)
      PROVE  [CommandLeases!LeasesNext]_(CommandLeases!lease_vars)
  <2>1. UNCHANGED <<tries, lease, runs>> /\ (Request(c) \/ UNCHANGED state)
    BY <1>3 DEF SendText, SendTemplate
  <2> QED
    BY <1>1, <1>2, <2>1
<1>4. ASSUME NEW w \in Workers, NEW c \in Commands, Claim(w, c)
      PROVE  CommandLeases!LeasesNext
  <2>1. CommandLeases!Take(w, {c}) /\ {c} \in SUBSET Commands
    BY <1>4, ClaimsAreTaken
  <2> QED
    BY <2>1 DEF CommandLeases!LeasesNext
<1>5. ASSUME NEW w \in Workers, Record(w) \/ Crash(w) \/ Lapse(w)
      PROVE  CommandLeases!LeasesNext
  BY <1>5, WorkersKeepLeases DEF CommandLeases!LeasesNext
\* A lease that nobody had, and a verdict on what was over.
<1>6. ASSUME NEW c \in Commands, Expire(c) \/ Reconcile(c)
      PROVE  UNCHANGED CommandLeases!lease_vars
  <2> USE DeliveryAssumption DEF IInv, DeliveryTypeOK
  <2>1. /\ UNCHANGED <<tries, runs>>
        /\ \A d \in Commands : d # c => state'[d] = state[d] /\ lease'[d] = lease[d]
        /\ CommandState(c)' = CommandState(c)
        /\ \A w \in Workers : runs[w] = c => ~Fenced(w) /\ ~Fenced(w)'
    BY <1>6 DEF Expire, Reconcile, CommandState, Settled, Fenced
  <2>2. \A d \in Commands : CommandState(d)' = CommandState(d)
    BY <2>1 DEF CommandState
  <2>3. \A w \in Workers : runs[w] \in Commands => Fenced(w)' = Fenced(w)
    BY <2>1 DEF Fenced
  <2> QED
    BY <2>1, <2>2, <2>3 DEF CommandLeases!lease_vars
<1>7. CASE UNCHANGED delivery_vars
  BY <1>1, <1>7 DEF delivery_vars
<1>8. ASSUME Next
      PROVE  \/ unchanged
             \/ \E c \in Commands : Enqueue(c) \/ Expire(c) \/ Reconcile(c)
             \/ \E c \in Texts : SendText(c) \/ SendTemplate(c)
             \/ \E w \in Workers : Record(w) \/ Crash(w) \/ Lapse(w) \/ \E c \in Commands : Claim(w, c)
  <2>1. ASSUME NEW c \in Texts, Reply(c) \/ CheckWindow(c) \/ WindowEnds(c) \/ Forget(c) PROVE unchanged
    BY <2>1 DEF Reply, CheckWindow, WindowEnds, Forget
  <2>2. ASSUME NEW w \in Workers, Check(w) \/ Succeed(w) \/ Lost(w) \/ Reject(w) \/ Mislead(w) \/ RecordFails(w)
        PROVE  unchanged
    BY <2>2 DEF Check, Succeed, Lost, Reject, Mislead, RecordFails
  <2>3. ASSUME NEW c \in Texts, NEW s \in Told, Report(c, s) PROVE unchanged
    BY <2>3 DEF Report
  <2>4. ASSUME NEW r \in reports, Apply(r) \/ Bury(r) PROVE unchanged
    BY <2>4 DEF Apply, Bury
  <2> QED
    BY <1>8, <2>1, <2>2, <2>3, <2>4 DEF Next, WorkerStep
<1>9. ASSUME NEW c \in Commands, Enqueue(c)
      PROVE  CommandLeases!LeasesNext
  <2>1. Request(c) /\ UNCHANGED <<tries, lease, runs>>
    BY <1>9 DEF Enqueue
  <2> QED
    BY <1>2, <2>1
<1> QED
  BY <1>1, <1>3, <1>4, <1>5, <1>6, <1>7, <1>8, <1>9

\* Whatever workers, leases and operators do to an outbox command, it is taken, held and
\* settled as Leases says: the word of a worker counts only while it alone holds the
\* command, and what is settled is not sent again.
THEOREM OutboxKeepsLeases == Spec => KeepsLeases
<1>1. Init => CommandLeases!LeasesInit
  BY StartsAsLeases
<1>2. IInv /\ IdleRunNothing /\ [Next]_delivery_vars
        => [CommandLeases!LeasesNext]_(CommandLeases!lease_vars)
  BY StepKeepsLeases
<1>3. Init => IInv /\ IdleRunNothing
  BY InitIsGood, InitIsWithinBudget
<1>4. IInv /\ IdleRunNothing /\ [Next]_delivery_vars => (IInv /\ IdleRunNothing)'
  BY InvStep, IdleStep
<1> QED
  BY <1>1, <1>2, <1>3, <1>4, PTL DEF Spec, KeepsLeases, CommandLeases!LeasesSpec
=============================================================================
