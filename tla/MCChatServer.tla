------------------------------ MODULE MCChatServer -----------------------------
(* The chat server with a few users, for TLC. *)
EXTENDS ChatServer
================================================================================
