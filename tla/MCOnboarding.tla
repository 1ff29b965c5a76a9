----------------------------- MODULE MCOnboarding -----------------------------
(***************************************************************************)
(* Registration and reviews on small instances.                            *)
(***************************************************************************)
EXTENDS Onboarding, TLC

OnboardingSymmetry ==
  Permutations(Emails) \cup Permutations(Operators) \cup
  Permutations(Keys) \cup Permutations(Calls) \cup Permutations(Plates)

===============================================================================
