---------------------------- MODULE MCOutboxRelay ----------------------------
(***************************************************************************)
(* The relay on small instances.                                           *)
(***************************************************************************)
EXTENDS OutboxRelay, TLC

\* Trips, Drivers and polls are interchangeable among themselves.
RelaySymmetry == Permutations(Trips) \cup Permutations(Drivers) \cup Permutations(Polls)

===============================================================================
