\* Two tenants, two subscriptions, two webhook requests that overlap.
SPECIFICATION Spec
CONSTANTS
  Tenants = {t1, t2}
  Subs = {i1, i2}
  Handlers = {h1, h2}
  PricedTiers = {"starter", "pro"}
  StripeStatuses = {"active", "past_due"}
  StripeEnabled = TRUE
  MaxEvents = 4
  None = None
SYMMETRY BillingSymmetry
INVARIANTS
  TypeOK
  LinksAreOwn
  PaidPlanWasBought
  InOrderRowMirrorsStripe
CHECK_DEADLOCK FALSE
