---------------------------- MODULE MCConversation ----------------------------
(* The instance of Conversation that TLC checks. *)
EXTENDS Conversation
===============================================================================
