------------------------------- MODULE Quota -------------------------------
(***************************************************************************)
(* The monthly quota of a tenant (services/quota.py, db/usage.py): the     *)
(* plan is read, then the usage of the month, then the work is done, and   *)
(* only then the event is recorded.  Nothing reserves a place.             *)
(***************************************************************************)
EXTENDS Plans, Integers, FiniteSets

CONSTANTS
  Tenants,
  EventTypes,    \* what is metered: "ingest" and "search"
  PlanLimits,    \* the limit of each tier for each event type
  QuotaEnforced, \* quota_enforcement_enabled
  Unlimited,     \* the limit of a plan that has none
  MaxUsage       \* bound: the events recorded in a month

VARIABLES
  tier,    \* the tier of the plan that get_plan_for_tenant finds
  used,    \* the events recorded in the current month
  granted  \* the highest limit of which a check left something, per tenant
           \* and type, or Unlimited (auxiliary)

ASSUME QuotaAssumption ==
  /\ PlanLimits \in [Tiers -> [EventTypes -> Nat \cup {Unlimited}]]
  /\ Unlimited \notin Nat
  /\ QuotaEnforced \in BOOLEAN
  /\ MaxUsage \in Nat

quotaVars == <<tier, used, granted>>

GetLimit(t, type) == PlanLimits[tier[t]][type]

Allows_OneMore(limit, n) == limit = Unlimited \/ n <= limit

(* QuotaCheck.allowed                                                      *)
Allows(limit, n) == limit = Unlimited \/ n < limit

Higher(a, b) ==
  IF a = Unlimited \/ b = Unlimited THEN Unlimited ELSE IF a < b THEN b ELSE a

(* What get_usage_summary has counted lets the request go on.              *)
Grant(t, type, limit) == granted' = [granted EXCEPT ![t][type] = Higher(@, limit)]

RecordUsage(t, type) ==
  /\ used[t][type] < MaxUsage
  /\ used' = [used EXCEPT ![t][type] = @ + 1]

(* The subscription of the tenant changes: Billing.                        *)
ChangePlan(t, to) ==
  /\ tier' = [tier EXCEPT ![t] = to]
  /\ UNCHANGED <<used, granted>>

NewMonth ==
  /\ used' = [t \in Tenants |-> [type \in EventTypes |-> 0]]
  /\ UNCHANGED <<tier, granted>>

QuotaInit ==
  /\ tier = [t \in Tenants |-> "free"]
  /\ used = [t \in Tenants |-> [type \in EventTypes |-> 0]]
  /\ granted = [t \in Tenants |-> [type \in EventTypes |-> 0]]

QuotaTypeOK ==
  /\ tier \in [Tenants -> Tiers]
  /\ used \in [Tenants -> [EventTypes -> 0..MaxUsage]]
  /\ granted \in [Tenants -> [EventTypes -> Nat \cup {Unlimited}]]
=============================================================================
