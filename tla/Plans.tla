------------------------------- MODULE Plans -------------------------------
(***************************************************************************)
(* The plan catalog (models/plan.py) and the subscription row of a tenant  *)
(* that selects a plan from it (db/subscriptions.py).                      *)
(***************************************************************************)
EXTENDS Naturals

Tiers == {"free", "starter", "pro"}

PaidTiers == Tiers \ {"free"}

Statuses == {"active", "past_due", "canceled"}

(* get_plan_for_tenant: the tier of the plan that a row resolves to.  A    *)
(* tenant without a row has noRow.                                         *)
PlanOf(row, noRow) ==
  IF row = noRow \/ row.status # "active" THEN "free" ELSE row.tier
=============================================================================
