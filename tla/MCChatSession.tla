---------------------------- MODULE MCChatSession ----------------------------
(* TLC instance of ChatSession: two turns that overlap. *)
EXTENDS ChatSession
=============================================================================
