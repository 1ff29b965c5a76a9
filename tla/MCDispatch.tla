------------------------------ MODULE MCDispatch ------------------------------
(***************************************************************************)
(* Ride dispatch on small instances.                                       *)
(***************************************************************************)
EXTENDS DispatchProperties

===============================================================================
