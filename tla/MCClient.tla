------------------------------ MODULE MCClient ------------------------------
(* Client for TLC, with a leave word of one character: "!" and "! " leave, "!!" *)
(* is a command and " !" is not.                                           *)
EXTENDS Client

Word == <<"!">>
=============================================================================
