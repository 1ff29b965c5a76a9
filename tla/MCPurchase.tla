------------------------------ MODULE MCPurchase ------------------------------
(***************************************************************************)
(* Quotes, Trips and payments on small instances.                          *)
(***************************************************************************)
EXTENDS Purchase, TLC

\* Customers, keys and requests are interchangeable among themselves.
PurchaseSymmetry ==
  Permutations(Callers) \cup Permutations(Keys) \cup Permutations(Calls)

===============================================================================
