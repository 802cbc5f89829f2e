--------------------------- MODULE MCConversations ---------------------------
(* Small instances of Conversations for TLC. *)
EXTENDS Conversations

OneQuestion == <<"purpose">>
=============================================================================
