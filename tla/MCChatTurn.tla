----------------------------- MODULE MCChatTurn -----------------------------
(* Two questions, so that an answer can stand under the wrong one. *)
EXTENDS ChatTurn, TLC
=============================================================================
