------------------------------ MODULE MCPlatform ------------------------------
(***************************************************************************)
(* Rides and deliveries together on small instances.                       *)
(***************************************************************************)
EXTENDS Platform, TLC

\* Drivers, Trips and Deliveries are interchangeable among themselves.
JobSymmetry ==
  Permutations(Drivers) \cup Permutations(Trips) \cup Permutations(Deliveries)

===============================================================================
