---------------------------- MODULE MCConnections ----------------------------
(***************************************************************************)
(* Sessions of one browser and its connections on small instances.         *)
(***************************************************************************)
EXTENDS Connections

===============================================================================
