--------------------------- MODULE MCStationWatch ---------------------------
(***************************************************************************)
(* One network to be connected to or not, and four signals: enough for a   *)
(* scan of another client before the command's own, and for a connect and  *)
(* a disconnect that overtake each other.                                  *)
(***************************************************************************)
EXTENDS StationWatch

=============================================================================
