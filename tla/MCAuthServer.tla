---------------------------- MODULE MCAuthServer ----------------------------
(* AuthServer for TLC.  Peers are interchangeable, but liveness is checked *)
(* without symmetry, and the tables with one peer.                         *)
EXTENDS AuthServer
=============================================================================
