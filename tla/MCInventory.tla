---------------------------- MODULE MCInventory ----------------------------
(***************************************************************************)
(* Two goroutines and two object paths.  The kinds Device and Station are  *)
(* interfaces of one object; Station is named by a second listing.  The    *)
(* objects come and go, and lose the station when their mode changes.      *)
(***************************************************************************)
EXTENDS Inventory

MCPath == {1, 2}
MCKind == {"Device", "Station"}
MCShape == {{}, {"Device"}, {"Device", "Station"}}
MCNamed == {"Station"}
MCIwdName == {"NotFound"}

=============================================================================
