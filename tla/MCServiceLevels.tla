--------------------------- MODULE MCServiceLevels ---------------------------
(* Small instances of ServiceLevels for TLC. *)
EXTENDS ServiceLevels, TLC

CONSTANTS l1, p1, p2

\* The better salesperson is full, so load decides.
OneRoom == p1 :> 1 @@ p2 :> 1
FirstFull == p1 :> 1 @@ p2 :> 0
FirstBetter == <<l1, p1>> :> 8 @@ <<l1, p2>> :> 3
=============================================================================
