\* A key of a tenant, batches of up to three URLs, two of which overlap;
\* a minute of two ticks.
SPECIFICATION Spec
CONSTANTS
  Keys = {k1}
  Limits = {1, 2}
  MinuteTicks = 2
  Skews = {0, 1}
  MaxTime = 4
  MaxSpan = 3
  Tenants = {t1}
  EventTypes = {"ingest"}
  PlanLimits <- MCPlanLimits
  QuotaEnforced = TRUE
  Unlimited = Unlimited
  MaxUsage = 3
  Slots = {s1}
  BatchConcurrency = 2
  BatchSize = 3
  KeyScopes = {{}}
  None = None
SYMMETRY AdmissionSymmetry
INVARIANTS
  TypeOK
  BucketBound
  QuotaOvershoot
CHECK_DEADLOCK FALSE
