-------------------------- MODULE MCSessionResponse --------------------------
(***************************************************************************)
(* Small instances of SessionResponse for TLC.  Messages are numbered in   *)
(* no order of arrival; users are strings because a reply target is        *)
(* compared with the addressee of a background run.                        *)
(***************************************************************************)
EXTENDS SessionResponse

OneUser  == [m \in Msgs |-> "alice"]
TwoUsers == [m \in Msgs |-> IF m % 2 = 0 THEN "bob" ELSE "alice"]
=============================================================================
