\* Events delivered in order, and one of them again at a later time.
SPECIFICATION Spec
CONSTANTS
  Tenants = {t1, t2}
  Subs = {i1, i2}
  Handlers = {h1, h2}
  PricedTiers = {"starter", "pro"}
  StripeStatuses = {"active", "past_due"}
  StripeEnabled = TRUE
  MaxEvents = 4
  None = None
SYMMETRY BillingSymmetry
INVARIANT CancelledPlanStaysFree
CHECK_DEADLOCK FALSE
