------------------------------ MODULE MCTripFeed ------------------------------
(***************************************************************************)
(* The relay with its subscribers on small instances.                      *)
(***************************************************************************)
EXTENDS TripFeed, TLC

\* Trips, Drivers and polls are interchangeable among themselves.
FeedSymmetry == Permutations(Trips) \cup Permutations(Drivers) \cup Permutations(Polls)

===============================================================================
