-------------------------- MODULE ChatServerClaims --------------------------
(***************************************************************************)
(* What comments and messages of main_server_select.cpp say of the server  *)
(* and its code does not keep.  Each property here is refuted by TLC.      *)
(***************************************************************************)
EXTENDS ChatServer

(* "Make sure finalMessage contains valid int for conversion", "Proven     *)
(* valid" (lines 592 and 610): no room argument that passes the check      *)
(* makes the conversion throw.                                             *)
ValidatedRoomConverts == phase # "crashed"

(* "Client has disconnected (gracefully or otherwise), need to purge their *)
(* socket from the system" (line 299): clients that leave are purged and   *)
(* nothing worse follows from their leaving.                               *)
LeavingIsHarmless == phase # "down"
=============================================================================
