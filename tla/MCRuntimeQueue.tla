--------------------------- MODULE MCRuntimeQueue ---------------------------
(* Small instances of RuntimeQueue for TLC. *)
EXTENDS RuntimeQueue, TLC

CONSTANTS r1, r2, w1, w2, n1, n2, none

TwoInbox == (r1 :> "inbox") @@ (r2 :> "inbox")
OutboxAndJob == (r1 :> "outbox") @@ (r2 :> "jobs")

\* Two processes under one WORKER_NAME: the fence is left with attempt numbers.
SharedName == [w \in {w1, w2} |-> n1]
OwnName == (w1 :> n1) @@ (w2 :> n2)
=============================================================================
