---------------------------- MODULE MCChatStream ----------------------------
(* Instances of ChatStream for TLC: the chat_*.cfg files. *)
EXTENDS ChatStream
=============================================================================
