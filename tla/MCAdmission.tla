---------------------------- MODULE MCAdmission -----------------------------
(* Admission for TLC: the catalog with limits small enough to be reached.  *)
EXTENDS Admission, TLC

MCPlanLimits ==
  [t \in Tiers |-> [type \in EventTypes |->
     CASE t = "free" -> 1 [] t = "starter" -> 2 [] OTHER -> Unlimited]]

AdmissionSymmetry == Permutations(Slots) \cup Permutations(Keys) \cup Permutations(Tenants)
=============================================================================
