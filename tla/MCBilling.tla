----------------------------- MODULE MCBilling ------------------------------
(* Billing for TLC: tenants, subscriptions and webhook requests differ in  *)
(* nothing but their names.                                                *)
EXTENDS Billing, TLC

BillingSymmetry ==
  Permutations(Tenants) \cup Permutations(Subs) \cup Permutations(Handlers)
=============================================================================
