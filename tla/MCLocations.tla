----------------------------- MODULE MCLocations -----------------------------
(***************************************************************************)
(* Locations of one Driver on small instances.                             *)
(***************************************************************************)
EXTENDS Locations

===============================================================================
