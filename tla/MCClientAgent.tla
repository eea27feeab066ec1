--------------------------- MODULE MCClientAgent ---------------------------
(***************************************************************************)
(* Two application goroutines, two agents and the requests of iwd: one     *)
(* where the calls of the application are what matters, two where one      *)
(* request can be taken for the other.                                     *)
(***************************************************************************)
EXTENDS ClientAgent

=============================================================================
