------------------------------ MODULE Billing ------------------------------
(***************************************************************************)
(* Subscriptions bought through Stripe (api/routes/billing.py,             *)
(* services/stripe_client.py, db/subscriptions.py, api/routes/plans.py).   *)
(*                                                                         *)
(* Stripe is external.  It reports what becomes of a subscription in       *)
(* events, and delivers each of them at any time after it was sent, in any *)
(* order and any number of times.  handle_stripe_event reads the row of    *)
(* the tenant and then writes it, so that two deliveries can overlap.      *)
(*                                                                         *)
(* A checkout never names a Stripe customer, so that each subscription is  *)
(* made for a customer of its own: one id stands for the session, the      *)
(* customer and the subscription.                                          *)
(***************************************************************************)
EXTENDS Plans, Sequences

CONSTANTS
  Tenants,
  Subs,           \* the ids of Stripe sessions, customers and subscriptions
  Handlers,       \* the webhook requests in progress
  PricedTiers,    \* the tiers that have a Stripe price configured
  StripeStatuses, \* the statuses that Stripe reports
  StripeEnabled,
  MaxEvents,      \* bound: the events that Stripe sends of two subscriptions
  None            \* no row, no id, an unknown price, nothing in progress

VARIABLES
  rows,     \* the subscription row of each tenant
  stripe,   \* the sessions at Stripe, with the events sent of each so far
  handling, \* what each webhook request has read
  trail     \* the last event of each subscription that was applied, and how
            \* the events were applied so far (auxiliary)

vars == <<rows, stripe, handling, trail>>

Row == [tier : Tiers, status : Statuses, customer : Subs \cup {None}, sub : Subs \cup {None}]

(* tier: of a checkout the plan_tier of the metadata, else what the price  *)
(* of the subscription maps to; status: what Stripe reports in an update.  *)
Event ==
  [type : {"checkout"}, tier : PricedTiers, status : {None}]
  \cup
  [type : {"updated"}, tier : PricedTiers \cup {None}, status : StripeStatuses]
  \cup
  [type : {"deleted"}, tier : {None}, status : {None}]

Session == [tenant : Tenants, tier : PricedTiers, sent : Seq(Event)]

(* A subscription event after the lookup of the row: tier is the tier to   *)
(* write and n the number of the event.                                    *)
Reading ==
  [sub : Subs, n : 1..MaxEvents, tenant : Tenants, tier : Tiers, status : Statuses]

ASSUME BillingAssumption ==
  /\ PricedTiers \subseteq PaidTiers
  /\ StripeEnabled \in BOOLEAN
  /\ MaxEvents \in Nat
  /\ None \notin Tenants \cup Subs \cup Tiers
  /\ None \notin Session /\ None \notin Row /\ None \notin Reading

Sent(i) == IF stripe[i] = None THEN <<>> ELSE stripe[i].sent

MapStripeStatus(status) ==
  CASE status \in {"active", "trialing"} -> "active"
    [] status \in {"past_due", "incomplete"} -> "past_due"
    [] OTHER -> "canceled"

(* A price that is not configured leaves the tier of the row, and so does  *)
(* a cancellation.                                                         *)
TierAfter_Unmapped(e, current) == IF e.type = "deleted" THEN current ELSE e.tier

TierAfter(e, current) == IF e.tier = None THEN current ELSE e.tier

-----------------------------------------------------------------------------
CreateCheckout(t, tier) ==
  /\ StripeEnabled
  /\ tier # "free" /\ tier \in PricedTiers
  /\ \E i \in Subs :
       /\ stripe[i] = None
       /\ stripe' = [stripe EXCEPT ![i] = [tenant |-> t, tier |-> tier, sent |-> <<>>]]
  /\ UNCHANGED <<rows, handling, trail>>

Send(i, event) ==
  /\ \A j \in Subs \ {i} : Len(Sent(i)) + Len(Sent(j)) < MaxEvents
  /\ stripe' = [stripe EXCEPT ![i].sent = Append(@, event)]
  /\ UNCHANGED <<rows, handling, trail>>

(* The customer pays.                                                      *)
CompleteCheckout(i) ==
  /\ stripe[i] # None /\ Sent(i) = <<>>
  /\ Send(i, [type |-> "checkout", tier |-> stripe[i].tier, status |-> None])

(* A renewal, a failed payment, or what the customer chose in the portal.  *)
StripeUpdates(i, tier, status) ==
  /\ Sent(i) # <<>>
  /\ Sent(i)[Len(Sent(i))].type # "deleted"
  /\ Send(i, [type |-> "updated", tier |-> tier, status |-> status])

StripeCancels(i) ==
  /\ Sent(i) # <<>>
  /\ Sent(i)[Len(Sent(i))].type # "deleted"
  /\ Send(i, [type |-> "deleted", tier |-> None, status |-> None])

-----------------------------------------------------------------------------
(* set_subscription: an upsert that keeps the Stripe ids it is not given.  *)
SetSubscription_Clears(t, tier, status, customer, sub) ==
  rows' = [rows EXCEPT ![t] =
    [tier |-> tier, status |-> status, customer |-> customer, sub |-> sub]]

SetSubscription(t, tier, status, customer, sub) ==
  LET oldCustomer == IF rows[t] = None THEN None ELSE rows[t].customer
      oldSub == IF rows[t] = None THEN None ELSE rows[t].sub
  IN  rows' = [rows EXCEPT ![t] =
        [tier |-> tier, status |-> status,
         customer |-> IF customer = None THEN oldCustomer ELSE customer,
         sub |-> IF sub = None THEN oldSub ELSE sub]]

(* get_subscription_by_stripe_customer                                     *)
RowsOfCustomer_OrUnlinked(i) ==
  {t \in Tenants : rows[t] # None /\ rows[t].customer \in {i, None}}

RowsOfCustomer(i) == {t \in Tenants : rows[t] # None /\ rows[t].customer = i}

InProgress(i) == \E h \in Handlers : handling[h] # None /\ handling[h].sub = i

Follow(i, n) ==
  trail' = [trail EXCEPT ![i] =
    [last |-> IF n > @.last THEN n ELSE @.last,
     order |-> IF @.order = "reordered" \/ n > @.last + 1 THEN "reordered"
               ELSE IF n < @.last \/ @.order = "redelivered" THEN "redelivered"
               ELSE "straight"]]

(* checkout.session.completed is applied without a look at the row.        *)
ApplyCheckout(i, n) ==
  LET e == stripe[i].sent[n]
  IN  /\ StripeEnabled
      /\ n \in 1..Len(Sent(i)) /\ e.type = "checkout"
      /\ SetSubscription(stripe[i].tenant, e.tier, "active", i, i)
      /\ IF InProgress(i) THEN trail' = [trail EXCEPT ![i].order = "reordered"]
         ELSE Follow(i, n)
      /\ UNCHANGED <<stripe, handling>>

(* The other events look up the row by customer, then by the metadata.     *)
ReadRow(h, i, n) ==
  LET e == stripe[i].sent[n]
  IN  /\ StripeEnabled
      /\ handling[h] = None
      /\ n \in 1..Len(Sent(i)) /\ e.type # "checkout"
      /\ \E t \in IF RowsOfCustomer(i) = {} THEN {stripe[i].tenant} ELSE RowsOfCustomer(i) :
           LET current == IF RowsOfCustomer(i) = {} THEN "free" ELSE rows[t].tier
           IN  handling' = [handling EXCEPT ![h] =
                 [sub |-> i, n |-> n, tenant |-> t,
                  tier |-> TierAfter(e, current),
                  status |-> IF e.type = "deleted" THEN "canceled"
                             ELSE MapStripeStatus(e.status)]]
      /\ trail' = IF InProgress(i) THEN [trail EXCEPT ![i].order = "reordered"] ELSE trail
      /\ UNCHANGED <<rows, stripe>>

WriteRow(h) ==
  LET r == handling[h]
  IN  /\ r # None
      /\ SetSubscription(r.tenant, r.tier, r.status, None, r.sub)
      /\ handling' = [handling EXCEPT ![h] = None]
      /\ Follow(r.sub, r.n)
      /\ UNCHANGED stripe

(* The API dies or the database raises; Stripe delivers the event again.   *)
CutWebhook(h) ==
  /\ handling[h] # None
  /\ handling' = [handling EXCEPT ![h] = None]
  /\ UNCHANGED <<rows, stripe, trail>>

UpdateMySubscription_Free(t, tier) ==
  /\ SetSubscription(t, tier, "active", None, None)
  /\ trail' = [i \in Subs |->
       IF stripe[i] # None /\ stripe[i].tenant = t
       THEN [trail[i] EXCEPT !.order = "reordered"] ELSE trail[i]]
  /\ UNCHANGED <<stripe, handling>>

(* With Stripe a tenant may only go to FREE; its subscription goes on.     *)
UpdateMySubscription(t, tier) ==
  /\ StripeEnabled => tier = "free"
  /\ SetSubscription(t, tier, "active", None, None)
  /\ trail' = [i \in Subs |->
       IF stripe[i] # None /\ stripe[i].tenant = t
       THEN [trail[i] EXCEPT !.order = "reordered"] ELSE trail[i]]
  /\ UNCHANGED <<stripe, handling>>

-----------------------------------------------------------------------------
Init ==
  /\ rows = [t \in Tenants |-> None]
  /\ stripe = [i \in Subs |-> None]
  /\ handling = [h \in Handlers |-> None]
  /\ trail = [i \in Subs |-> [last |-> 0, order |-> "straight"]]

Next ==
  \/ \E t \in Tenants, tier \in Tiers : CreateCheckout(t, tier) \/ UpdateMySubscription(t, tier)
  \/ \E i \in Subs :
       \/ CompleteCheckout(i) \/ StripeCancels(i)
       \/ \E tier \in PricedTiers \cup {None}, status \in StripeStatuses :
            StripeUpdates(i, tier, status)
       \/ \E n \in 1..MaxEvents :
            ApplyCheckout(i, n) \/ \E h \in Handlers : ReadRow(h, i, n)
  \/ \E h \in Handlers : WriteRow(h) \/ CutWebhook(h)

Spec == Init /\ [][Next]_vars

-----------------------------------------------------------------------------
(* Rows, sessions, events and webhook requests have their shape.           *)
TypeOK ==
  /\ rows \in [Tenants -> Row \cup {None}]
  /\ DOMAIN stripe = Subs /\ \A i \in Subs : stripe[i] = None \/ stripe[i] \in Session
  /\ DOMAIN handling = Handlers
  /\ \A h \in Handlers : handling[h] = None \/ handling[h] \in Reading
  /\ trail \in [Subs -> [last : 0..MaxEvents, order : {"straight", "redelivered", "reordered"}]]

Owns(t, i) == i # None => stripe[i] # None /\ stripe[i].tenant = t

(* Whatever the order and the overlap of the deliveries, a row links to    *)
(* customers and subscriptions of its tenant only, and a webhook request   *)
(* is about the tenant that opened the session (handle_stripe_event).      *)
LinksAreOwn ==
  /\ \A t \in Tenants : rows[t] # None => Owns(t, rows[t].customer) /\ Owns(t, rows[t].sub)
  /\ \A h \in Handlers : handling[h] # None => Owns(handling[h].tenant, handling[h].sub)

(* A tenant is on a paid plan only when Stripe has reported that tier of a *)
(* subscription of that tenant, however late, twice or out of order the    *)
(* reports and the requests to go to FREE come (update_my_subscription).   *)
PaidPlanWasBought ==
  StripeEnabled =>
    \A t \in Tenants : PlanOf(rows[t], None) # "free" =>
      \E i \in Subs : Owns(t, i) /\ \E n \in DOMAIN Sent(i) : Sent(i)[n].tier = rows[t].tier

OnlySub(i) ==
  /\ stripe[i] # None
  /\ \A j \in Subs \ {i} : Sent(j) # <<>> => stripe[j].tenant # stripe[i].tenant

AllApplied(i) == Sent(i) # <<>> /\ trail[i].last = Len(Sent(i)) /\ ~InProgress(i)

(* The tier that the events of i report in the end: that of the last event *)
(* with a known price.                                                     *)
LastTier(s) ==
  s[CHOOSE n \in DOMAIN s : s[n].tier # None /\ \A k \in n + 1..Len(s) : s[k].tier = None].tier

(* The events of the only subscription of a tenant, each delivered after   *)
(* the one before, at once again or not, leave the row with the status,    *)
(* the tier and the ids that Stripe has, so that the portal opens for the  *)
(* customer who pays.                                                      *)
InOrderRowMirrorsStripe ==
  \A i \in Subs : OnlySub(i) /\ AllApplied(i) /\ trail[i].order = "straight" =>
    LET e == Sent(i)[Len(Sent(i))]
    IN  rows[stripe[i].tenant] =
          [tier |-> LastTier(Sent(i)), customer |-> i, sub |-> i,
           status |-> CASE e.type = "checkout" -> "active"
                        [] e.type = "deleted" -> "canceled"
                        [] OTHER -> MapStripeStatus(e.status)]

(* What the docstring of handle_stripe_event says: "Idempotent — safe      *)
(* under Stripe's at-least-once redelivery".  Events that were first       *)
(* applied in order, and some of them again, end a cancelled plan.         *)
CancelledPlanStaysFree ==
  \A i \in Subs :
    /\ OnlySub(i)
    /\ trail[i].order \in {"straight", "redelivered"}
    /\ AllApplied(i) /\ Sent(i)[Len(Sent(i))].type = "deleted"
    => PlanOf(rows[stripe[i].tenant], None) = "free"
=============================================================================
