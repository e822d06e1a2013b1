---------------------------- MODULE MCParkResume ----------------------------
(***************************************************************************)
(* Instances of ParkResume for TLC. Without symmetry: the run checks       *)
(* liveness.                                                               *)
(***************************************************************************)
EXTENDS ParkResume
=============================================================================
