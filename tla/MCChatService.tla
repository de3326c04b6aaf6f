--------------------------- MODULE MCChatService ---------------------------
(* Small instances of ChatService for TLC. *)
EXTENDS ChatService

(* The three limits in every order; ties included when two may be equal. *)
AllLimits == [api : 2..4, model : 2..4, idle : 2..4]
============================================================================
