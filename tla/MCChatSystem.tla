---------------------------- MODULE MCChatSystem ----------------------------
(* ChatSystem for TLC.  Clients are interchangeable, but liveness is       *)
(* checked without symmetry.                                               *)
EXTENDS ChatSystem
=============================================================================
