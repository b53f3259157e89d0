---------------------------- MODULE MCChatServer ----------------------------
(* ChatServer for TLC.  Clients are interchangeable. *)
EXTENDS ChatServer

Symmetry == Permutations(Client)
=============================================================================
