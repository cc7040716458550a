--------------------------- MODULE MCConversations ---------------------------
(* Instances of Conversations for TLC: the conversations.cfg file. *)
EXTENDS Conversations, TLC
=============================================================================
