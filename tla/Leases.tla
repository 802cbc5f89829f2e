------------------------------- MODULE Leases -------------------------------
(***************************************************************************)
(* What the durable queues promise of a job, whatever leases lapse,         *)
(* processes die and statements fail.  Many workers may believe to have a   *)
(* job; one at most holds it, and what becomes of a job that is open is     *)
(* said by the one that holds it.                                           *)
(*                                                                          *)
(* RuntimeQueue keeps this promise, and so do the components that have a    *)
(* simpler queue of their own: none of these does to a job what the queue   *)
(* would not.                                                               *)
(***************************************************************************)
EXTENDS Naturals

CONSTANTS
  Jobs, Workers,
  Withdrawable,     \* the jobs that can be cancelled
  Replayable        \* the jobs that an operator can have done again

VARIABLES
  state,            \* "new", "open", "over" or "withdrawn"
  attempt,          \* how often the job was taken
  has,              \* by worker: the jobs it believes to have
  holds             \* by worker: those of them that it holds, so that its word counts

lease_vars == <<state, attempt, has, holds>>

LeasesInit ==
  /\ state = [j \in Jobs |-> "new"]
  /\ attempt = [j \in Jobs |-> 0]
  /\ has = [w \in Workers |-> {}]
  /\ holds = [w \in Workers |-> {}]

\* What may be done about a job by others than its worker.
Orders(j) ==
  {<<"new", "open">>}
  \cup (IF j \in Withdrawable THEN {"open", "over"} \X {"withdrawn"} ELSE {})
  \cup (IF j \in Replayable THEN {<<"over", "open">>} ELSE {})

\* Jobs are asked for, cancelled, replayed.  Nobody holds them then; whoever had them
\* is not told.
Order ==
  /\ state' \in [Jobs -> {"new", "open", "over", "withdrawn"}]
  /\ \A j \in Jobs : state'[j] # state[j] => <<state[j], state'[j]>> \in Orders(j)
  /\ holds' = [w \in Workers |-> {j \in holds[w] : state'[j] = state[j]}]
  /\ UNCHANGED <<attempt, has>>

\* A worker that has none takes some jobs; the ones that held them do so no more.
Take(w, S) ==
  /\ S # {} /\ has[w] = {}
  /\ \A j \in S : state[j] = "open"
  /\ attempt' = [j \in Jobs |-> IF j \in S THEN attempt[j] + 1 ELSE attempt[j]]
  /\ has' = [has EXCEPT ![w] = S]
  /\ holds' = [v \in Workers |-> IF v = w THEN S ELSE holds[v] \ S]
  /\ UNCHANGED state

\* A worker leaves jobs, or its leases lapse.  Of a job that it held, and only of such a
\* one, it may have said that it is over.
Leave(w) ==
  /\ has'[w] \subseteq has[w] /\ holds'[w] \subseteq holds[w] \cap has'[w]
  /\ has' = [has EXCEPT ![w] = has'[w]]
  /\ holds' = [holds EXCEPT ![w] = holds'[w]]
  /\ state' = [j \in Jobs |-> IF j \in holds[w] \ holds'[w] /\ state'[j] # state[j]
                              THEN "over" ELSE state[j]]
  /\ UNCHANGED attempt

LeasesNext ==
  \/ Order
  \/ \E w \in Workers : Leave(w) \/ \E S \in SUBSET Jobs : Take(w, S)

LeasesSpec == LeasesInit /\ [][LeasesNext]_lease_vars
=============================================================================
