--------------------------- MODULE BillingProofs ---------------------------
(***************************************************************************)
(* Theorems about Billing, for any tenants, subscriptions, prices, number  *)
(* of events and number of webhook requests in progress.                   *)
(***************************************************************************)
EXTENDS Billing, TLAPS

(* What is known about a row, and about a request that is about to write   *)
(* one, with st for what Stripe has: their ids belong to their tenant, and *)
(* their tier was bought, whether the plan is active or not.               *)
EventsOf(st, i) == IF st[i] = None THEN <<>> ELSE st[i].sent

OwnsIn(st, t, i) == i # None => st[i] # None /\ st[i].tenant = t

BoughtIn(st, t, tier) ==
  StripeEnabled /\ tier # "free" =>
    \E i \in Subs :
      OwnsIn(st, t, i) /\ \E n \in DOMAIN EventsOf(st, i) : EventsOf(st, i)[n].tier = tier

RowOK(st, t, row) ==
  row # None => OwnsIn(st, t, row.customer) /\ OwnsIn(st, t, row.sub) /\ BoughtIn(st, t, row.tier)

ReadingOK(st, r) ==
  r # None => OwnsIn(st, r.tenant, r.sub) /\ BoughtIn(st, r.tenant, r.tier)

Inv ==
  /\ TypeOK
  /\ \A t \in Tenants : RowOK(stripe, t, rows[t])
  /\ \A h \in Handlers : ReadingOK(stripe, handling[h])

(* The ways in which a step may change what Stripe has: sessions stay, of  *)
(* the same tenant, and their events are never taken back.                 *)
Evolves(st, st2) ==
  \A i \in Subs : st[i] # None =>
    /\ st2[i] # None
    /\ st2[i].tenant = st[i].tenant
    /\ \A n \in DOMAIN EventsOf(st, i) :
         n \in DOMAIN EventsOf(st2, i) /\ EventsOf(st2, i)[n] = EventsOf(st, i)[n]

-----------------------------------------------------------------------------
(* What was owned and bought stays so.                                     *)
LEMMA BoughtStays ==
  ASSUME NEW st, NEW st2, Evolves(st, st2), NEW t, NEW tier, BoughtIn(st, t, tier)
  PROVE  BoughtIn(st2, t, tier)
<1> SUFFICES ASSUME StripeEnabled, tier # "free" PROVE BoughtIn(st2, t, tier)
  BY DEF BoughtIn
<1>1. PICK i \in Subs :
        OwnsIn(st, t, i) /\ \E n \in DOMAIN EventsOf(st, i) : EventsOf(st, i)[n].tier = tier
  BY DEF BoughtIn
<1>2. PICK n \in DOMAIN EventsOf(st, i) : EventsOf(st, i)[n].tier = tier
  BY <1>1
<1>3. st[i] # None /\ st[i].tenant = t
  BY <1>1, BillingAssumption DEF OwnsIn
<1>4. n \in DOMAIN EventsOf(st2, i) /\ EventsOf(st2, i)[n].tier = tier
  BY <1>2, <1>3 DEF Evolves
<1>5. OwnsIn(st2, t, i)
  BY <1>3 DEF OwnsIn, Evolves
<1> QED
  BY <1>4, <1>5 DEF BoughtIn

LEMMA RowStays ==
  ASSUME NEW st, NEW st2, Evolves(st, st2), NEW t, NEW row \in Row \cup {None}, RowOK(st, t, row)
  PROVE  RowOK(st2, t, row)
BY BoughtStays DEF RowOK, Row, OwnsIn, Evolves

LEMMA ReadingStays ==
  ASSUME NEW st, NEW st2, Evolves(st, st2), NEW r \in Reading \cup {None}, ReadingOK(st, r)
  PROVE  ReadingOK(st2, r)
BY BoughtStays DEF ReadingOK, Reading, OwnsIn, Evolves

(* What a step may do to Stripe's side alone.                              *)
LEMMA StripeStep ==
  ASSUME Inv, Evolves(stripe, stripe'), TypeOK', UNCHANGED <<rows, handling>>
  PROVE  Inv'
<1>1. \A t \in Tenants : RowOK(stripe', t, rows[t])
  BY RowStays DEF Inv, TypeOK
<1>2. \A h \in Handlers : ReadingOK(stripe', handling[h])
  BY ReadingStays DEF Inv, TypeOK
<1> QED
  BY <1>1, <1>2 DEF Inv

(* A step that writes the row of t, and may end requests.                  *)
LEMMA RowStep ==
  ASSUME Inv, NEW t \in Tenants, NEW tier \in Tiers, NEW status \in Statuses,
         NEW customer \in Subs \cup {None}, NEW sub \in Subs \cup {None},
         SetSubscription(t, tier, status, customer, sub),
         OwnsIn(stripe, t, customer), OwnsIn(stripe, t, sub), BoughtIn(stripe, t, tier),
         UNCHANGED stripe, DOMAIN handling' = Handlers,
         \A h \in Handlers : handling'[h] \in {handling[h], None},
         trail' \in [Subs -> [last : 0..MaxEvents, order : {"straight", "redelivered", "reordered"}]]
  PROVE  Inv'
<1>1. rows' \in [Tenants -> Row \cup {None}]
  BY DEF SetSubscription, Inv, TypeOK, Row
<1>2. TypeOK'
  BY <1>1 DEF Inv, TypeOK
<1>3. \A u \in Tenants : RowOK(stripe, u, rows'[u])
  <2> SUFFICES ASSUME NEW u \in Tenants PROVE RowOK(stripe, u, rows'[u])
    OBVIOUS
  <2>1. CASE u = t
    <3>1. /\ rows'[t].tier = tier
          /\ rows'[t].customer \in {customer, None}
               \/ (rows[t] # None /\ rows'[t].customer = rows[t].customer)
          /\ rows'[t].sub \in {sub, None}
               \/ (rows[t] # None /\ rows'[t].sub = rows[t].sub)
      BY DEF SetSubscription, Inv, TypeOK
    <3>2. OwnsIn(stripe, t, None)
      BY DEF OwnsIn
    <3>3. RowOK(stripe, t, rows[t])
      BY DEF Inv
    <3>4. OwnsIn(stripe, t, rows'[t].customer)
      BY <3>1, <3>2, <3>3 DEF RowOK
    <3>5. OwnsIn(stripe, t, rows'[t].sub)
      BY <3>1, <3>2, <3>3 DEF RowOK
    <3> QED
      BY <2>1, <3>1, <3>4, <3>5 DEF RowOK
  <2>2. CASE u # t
    BY <2>2 DEF SetSubscription, Inv, TypeOK
  <2> QED
    BY <2>1, <2>2
<1>4. \A h \in Handlers : ReadingOK(stripe, handling'[h])
  BY DEF Inv, ReadingOK
<1> QED
  BY <1>2, <1>3, <1>4 DEF Inv

(* An event of i is an event that Stripe sent.                             *)
LEMMA SentType ==
  ASSUME TypeOK, NEW i \in Subs, NEW n \in 1..Len(Sent(i))
  PROVE  /\ stripe[i] \in Session /\ stripe[i] # None
         /\ n \in 1..Len(stripe[i].sent) /\ stripe[i].sent[n] \in Event
         /\ OwnsIn(stripe, stripe[i].tenant, i)
         /\ \A tier : tier = stripe[i].sent[n].tier => BoughtIn(stripe, stripe[i].tenant, tier)
<1>1. stripe[i] # None
  BY DEF Sent
<1>2. stripe[i] \in Session
  BY <1>1 DEF TypeOK
<1>3. Sent(i) = stripe[i].sent /\ stripe[i].sent \in Seq(Event) /\ EventsOf(stripe, i) = stripe[i].sent
  BY <1>1, <1>2 DEF Sent, Session, EventsOf
<1>4. n \in DOMAIN stripe[i].sent /\ stripe[i].sent[n] \in Event
  BY <1>3
<1>5. OwnsIn(stripe, stripe[i].tenant, i)
  BY <1>1 DEF OwnsIn
<1> QED
  BY <1>1, <1>2, <1>3, <1>4, <1>5 DEF BoughtIn

-----------------------------------------------------------------------------
(* What Stripe does.                                                       *)
LEMMA CreateCheckoutStep ==
  ASSUME Inv, NEW t \in Tenants, NEW tier \in Tiers, CreateCheckout(t, tier)
  PROVE  Inv'
<1>1. PICK i \in Subs :
        /\ stripe[i] = None
        /\ stripe' = [stripe EXCEPT ![i] = [tenant |-> t, tier |-> tier, sent |-> <<>>]]
  BY DEF CreateCheckout
<1>2. [tenant |-> t, tier |-> tier, sent |-> <<>>] \in Session
  BY DEF CreateCheckout, Session
<1>3. TypeOK'
  BY <1>1, <1>2 DEF Inv, TypeOK, CreateCheckout
<1>4. Evolves(stripe, stripe')
  BY <1>1 DEF Evolves, EventsOf, Inv, TypeOK
<1> QED
  BY <1>3, <1>4, StripeStep DEF CreateCheckout

LEMMA SendStep ==
  ASSUME Inv, NEW i \in Subs, NEW event \in Event, stripe[i] # None, Send(i, event)
  PROVE  Inv'
<1>0. stripe[i] \in Session /\ stripe[i].sent \in Seq(Event) /\ DOMAIN stripe = Subs
  BY DEF Inv, TypeOK, Session
<1>1. /\ stripe' = [stripe EXCEPT ![i] = [stripe[i] EXCEPT !.sent = Append(stripe[i].sent, event)]]
      /\ UNCHANGED <<rows, handling, trail>>
  BY DEF Send
<1>2. stripe'[i] = [stripe[i] EXCEPT !.sent = Append(stripe[i].sent, event)]
      /\ \A j \in Subs \ {i} : stripe'[j] = stripe[j]
  BY <1>0, <1>1
<1>3. stripe'[i] \in Session /\ stripe'[i].sent = Append(stripe[i].sent, event)
      /\ stripe'[i].tenant = stripe[i].tenant
  BY <1>0, <1>2 DEF Session
<1>4. stripe'[i] # None
  BY <1>3, BillingAssumption
<1>5. TypeOK'
  BY <1>0, <1>1, <1>2, <1>3 DEF Inv, TypeOK
<1>6. \A n \in DOMAIN stripe[i].sent :
        n \in DOMAIN stripe'[i].sent /\ stripe'[i].sent[n] = stripe[i].sent[n]
  BY <1>0, <1>3
<1>7. Evolves(stripe, stripe')
  BY <1>2, <1>3, <1>4, <1>6 DEF Evolves, EventsOf
<1> QED
  BY <1>1, <1>5, <1>7, StripeStep

LEMMA StripeSends ==
  ASSUME Inv, NEW i \in Subs,
         \/ CompleteCheckout(i) \/ StripeCancels(i)
         \/ \E tier \in PricedTiers \cup {None}, status \in StripeStatuses :
              StripeUpdates(i, tier, status)
  PROVE  Inv'
<1>0. PricedTiers \subseteq Tiers
  BY BillingAssumption DEF PaidTiers
<1>1. CASE CompleteCheckout(i)
  <2>1. stripe[i] # None /\ stripe[i].tier \in PricedTiers
    BY <1>1 DEF CompleteCheckout, Inv, TypeOK, Session
  <2>2. [type |-> "checkout", tier |-> stripe[i].tier, status |-> None] \in Event
    BY <1>0, <2>1 DEF Event
  <2> QED
    BY <1>1, <2>1, <2>2, SendStep DEF CompleteCheckout
<1>2. CASE StripeCancels(i)
  <2>1. stripe[i] # None
    BY <1>2 DEF StripeCancels, Sent
  <2>2. [type |-> "deleted", tier |-> None, status |-> None] \in Event
    BY DEF Event
  <2> QED
    BY <1>2, <2>1, <2>2, SendStep DEF StripeCancels
<1>3. ASSUME NEW tier \in PricedTiers \cup {None}, NEW status \in StripeStatuses,
             StripeUpdates(i, tier, status)
      PROVE  Inv'
  <2>1. stripe[i] # None
    BY <1>3 DEF StripeUpdates, Sent
  <2>2. [type |-> "updated", tier |-> tier, status |-> status] \in Event
    BY <1>0 DEF Event
  <2> QED
    BY <1>3, <2>1, <2>2, SendStep DEF StripeUpdates
<1> QED
  BY <1>1, <1>2, <1>3

-----------------------------------------------------------------------------
(* What the webhook does.                                                  *)
TrailType == [Subs -> [last : 0..MaxEvents, order : {"straight", "redelivered", "reordered"}]]

LEMMA FollowType ==
  ASSUME TypeOK, NEW i \in Subs, NEW n \in 1..MaxEvents, Follow(i, n)
  PROVE  trail' \in TrailType
BY BillingAssumption DEF TypeOK, TrailType, Follow

LEMMA ReorderedType ==
  ASSUME TypeOK, NEW i \in Subs
  PROVE  [trail EXCEPT ![i].order = "reordered"] \in TrailType
BY DEF TypeOK, TrailType

LEMMA ApplyCheckoutStep ==
  ASSUME Inv, NEW i \in Subs, NEW n \in 1..MaxEvents, ApplyCheckout(i, n)
  PROVE  Inv'
<1> DEFINE e == stripe[i].sent[n]
           t == stripe[i].tenant
<1>1. n \in 1..Len(Sent(i)) /\ e.type = "checkout" /\ SetSubscription(t, e.tier, "active", i, i)
  BY DEF ApplyCheckout
<1>2. t \in Tenants /\ e \in Event /\ OwnsIn(stripe, t, i) /\ BoughtIn(stripe, t, e.tier)
  BY <1>1, SentType DEF Session, Inv
<1>3. e.tier \in Tiers
  BY <1>1, <1>2, BillingAssumption DEF Event, PaidTiers
<1>4. trail' \in TrailType
  BY FollowType, ReorderedType DEF ApplyCheckout, Inv
<1>5. UNCHANGED <<stripe, handling>> /\ DOMAIN handling = Handlers
  BY DEF ApplyCheckout, Inv, TypeOK
<1> QED
  BY <1>1, <1>2, <1>3, <1>4, <1>5, RowStep DEF TrailType, Statuses

LEMMA ReadRowStep ==
  ASSUME Inv, NEW h \in Handlers, NEW i \in Subs, NEW n \in 1..MaxEvents, ReadRow(h, i, n)
  PROVE  Inv'
<1> DEFINE e == stripe[i].sent[n]
           status == IF e.type = "deleted" THEN "canceled" ELSE MapStripeStatus(e.status)
<1>1. PICK t \in IF RowsOfCustomer(i) = {} THEN {stripe[i].tenant} ELSE RowsOfCustomer(i) :
        LET current == IF RowsOfCustomer(i) = {} THEN "free" ELSE rows[t].tier
        IN  handling' = [handling EXCEPT ![h] =
              [sub |-> i, n |-> n, tenant |-> t,
               tier |-> TierAfter(e, current), status |-> status]]
  BY DEF ReadRow
<1> DEFINE current == IF RowsOfCustomer(i) = {} THEN "free" ELSE rows[t].tier
           r == [sub |-> i, n |-> n, tenant |-> t,
                 tier |-> TierAfter(e, current), status |-> status]
<1>2. /\ stripe[i] \in Session /\ e \in Event
      /\ OwnsIn(stripe, stripe[i].tenant, i) /\ BoughtIn(stripe, stripe[i].tenant, e.tier)
  BY SentType DEF ReadRow, Inv
<1>3. RowsOfCustomer(i) # {} => t \in Tenants /\ rows[t] # None /\ rows[t].customer = i
  BY <1>1 DEF RowsOfCustomer
<1>4. t \in Tenants /\ OwnsIn(stripe, t, i) /\ t = stripe[i].tenant
  <2>1. CASE RowsOfCustomer(i) = {}
    BY <1>1, <1>2, <2>1 DEF Session
  <2>2. CASE RowsOfCustomer(i) # {}
    <3>1. OwnsIn(stripe, t, rows[t].customer)
      BY <1>3, <2>2 DEF Inv, RowOK
    <3> QED
      BY <1>3, <2>2, <3>1, BillingAssumption DEF OwnsIn
  <2> QED
    BY <2>1, <2>2
<1>5. current \in Tiers /\ BoughtIn(stripe, t, current)
  BY <1>3, <1>4 DEF Inv, TypeOK, Row, RowOK, Tiers, BoughtIn
<1>6. /\ TierAfter(e, current) \in {e.tier, current}
      /\ e.tier = None => TierAfter(e, current) = current
  BY DEF TierAfter
<1>7. TierAfter(e, current) \in Tiers /\ BoughtIn(stripe, t, TierAfter(e, current))
  <2>1. e.tier \in Tiers \cup {None}
    BY <1>2, BillingAssumption DEF Event, PaidTiers
  <2> QED
    BY <1>2, <1>4, <1>5, <1>6, <2>1
<1>8. status \in Statuses
  BY DEF Statuses, MapStripeStatus
<1>9. r \in Reading /\ ReadingOK(stripe, r)
  BY <1>4, <1>7, <1>8 DEF Reading, ReadingOK
<1>10. /\ handling' = [handling EXCEPT ![h] = r]
       /\ UNCHANGED <<rows, stripe>> /\ trail' \in TrailType
  BY <1>1, ReorderedType DEF ReadRow, TrailType, Inv, TypeOK
<1>11. TypeOK'
  BY <1>9, <1>10 DEF Inv, TypeOK, TrailType
<1>12. \A k \in Handlers : ReadingOK(stripe, handling'[k])
  BY <1>9, <1>10 DEF Inv, TypeOK
<1> QED
  BY <1>10, <1>11, <1>12 DEF Inv

LEMMA WriteRowStep ==
  ASSUME Inv, NEW h \in Handlers, WriteRow(h)
  PROVE  Inv'
<1> DEFINE r == handling[h]
<1>1. r # None /\ r \in Reading /\ ReadingOK(stripe, r)
  BY DEF WriteRow, Inv, TypeOK
<1>2. OwnsIn(stripe, r.tenant, r.sub) /\ BoughtIn(stripe, r.tenant, r.tier)
      /\ OwnsIn(stripe, r.tenant, None)
  BY <1>1 DEF ReadingOK, OwnsIn
<1>3. trail' \in TrailType
  BY <1>1, FollowType DEF WriteRow, Inv, Reading
<1>4. /\ SetSubscription(r.tenant, r.tier, r.status, None, r.sub)
      /\ UNCHANGED stripe /\ DOMAIN handling' = Handlers
      /\ \A k \in Handlers : handling'[k] \in {handling[k], None}
  BY DEF WriteRow, Inv, TypeOK
<1> QED
  BY <1>1, <1>2, <1>3, <1>4, RowStep DEF Reading, TrailType

LEMMA CutWebhookStep ==
  ASSUME Inv, NEW h \in Handlers, CutWebhook(h)
  PROVE  Inv'
BY DEF Inv, TypeOK, CutWebhook, ReadingOK

LEMMA UpdateMySubscriptionStep ==
  ASSUME Inv, NEW t \in Tenants, NEW tier \in Tiers, UpdateMySubscription(t, tier)
  PROVE  Inv'
<1>1. trail' \in TrailType
  BY DEF UpdateMySubscription, Inv, TypeOK, TrailType
<1>2. OwnsIn(stripe, t, None) /\ BoughtIn(stripe, t, tier)
  BY DEF OwnsIn, BoughtIn, UpdateMySubscription
<1>3. /\ SetSubscription(t, tier, "active", None, None)
      /\ UNCHANGED <<stripe, handling>> /\ DOMAIN handling = Handlers
  BY DEF UpdateMySubscription, Inv, TypeOK
<1> QED
  BY <1>1, <1>2, <1>3, RowStep DEF TrailType, Statuses

-----------------------------------------------------------------------------
(* Whatever is delivered, twice, late or out of order, what rows and       *)
(* requests say of their tenants is true.                                  *)
THEOREM BillingInvariance == Spec => []Inv
<1>1. Init => Inv
  <2> SUFFICES ASSUME Init PROVE Inv
    OBVIOUS
  <2>1. TypeOK
    BY BillingAssumption DEF Init, TypeOK
  <2> QED
    BY <2>1 DEF Init, Inv, RowOK, ReadingOK
<1>2. Inv /\ [Next]_vars => Inv'
  <2> SUFFICES ASSUME Inv, [Next]_vars PROVE Inv'
    OBVIOUS
  <2>1. CASE UNCHANGED vars
    BY <2>1 DEF vars, Inv, TypeOK
  <2>2. CASE Next
    BY <2>2, CreateCheckoutStep, UpdateMySubscriptionStep, StripeSends, ApplyCheckoutStep,
       ReadRowStep, WriteRowStep, CutWebhookStep DEF Next
  <2> QED
    BY <2>1, <2>2
<1> QED
  BY <1>1, <1>2, PTL DEF Spec

(* Rows, sessions, events and webhook requests have their shape.           *)
THEOREM BillingTypeCorrect == Spec => []TypeOK
BY BillingInvariance, PTL DEF Inv

(* In no order of deliveries does a row link to what another tenant        *)
(* bought (handle_stripe_event).                                           *)
THEOREM LinksStayOwn == Spec => []LinksAreOwn
<1>1. Inv => LinksAreOwn
  BY DEF Inv, RowOK, ReadingOK, OwnsIn, LinksAreOwn, Owns
<1> QED
  BY <1>1, BillingInvariance, PTL

(* Nobody is on a paid plan that Stripe has not reported for a             *)
(* subscription of that tenant (handle_stripe_event,                       *)
(* update_my_subscription).                                                *)
THEOREM PaidPlansAreBought == Spec => []PaidPlanWasBought
<1>1. Inv => PaidPlanWasBought
  <2> SUFFICES ASSUME Inv, StripeEnabled, NEW t \in Tenants, PlanOf(rows[t], None) # "free"
               PROVE  \E i \in Subs :
                        Owns(t, i) /\ \E n \in DOMAIN Sent(i) : Sent(i)[n].tier = rows[t].tier
    BY DEF PaidPlanWasBought
  <2>1. rows[t] # None /\ rows[t].tier # "free"
    BY DEF PlanOf
  <2> QED
    BY <2>1 DEF Inv, RowOK, BoughtIn, OwnsIn, EventsOf, Owns, Sent
<1> QED
  BY <1>1, BillingInvariance, PTL

-----------------------------------------------------------------------------
(* Deliveries in order, each after the one before.                         *)

(* Only the first event of a subscription is a checkout, no event has been *)
(* applied or is being handled that Stripe has not sent.                   *)
DeliveriesOK(st, hd, tr) ==
  /\ \A i \in Subs :
       /\ \A n \in 1..Len(EventsOf(st, i)) : EventsOf(st, i)[n].type = "checkout" <=> n = 1
       /\ tr[i].last <= Len(EventsOf(st, i))
  /\ \A h \in Handlers : hd[h] # None => hd[h].n \in 2..Len(EventsOf(st, hd[h].sub))

OnlySubIn(st, i) ==
  /\ st[i] # None
  /\ \A j \in Subs \ {i} : EventsOf(st, j) # <<>> => st[j].tenant # st[i].tenant

StatusOf(e) ==
  CASE e.type = "checkout" -> "active"
    [] e.type = "deleted" -> "canceled"
    [] OTHER -> MapStripeStatus(e.status)

(* tier is the last known one among the first m events.                    *)
IsLastTier(s, m, tier) ==
  \E n \in 1..m : /\ s[n].tier = tier /\ tier # None
                  /\ \A k \in n + 1..m : s[k].tier = None

Mirrors(s, m, i, row) ==
  /\ row # None /\ row.customer = i /\ row.sub = i
  /\ row.status = StatusOf(s[m]) /\ IsLastTier(s, m, row.tier)

(* While the events of the only subscription of a tenant come in order,    *)
(* the row mirrors those applied so far; one request at most is about it,  *)
(* and it will write what mirrors its event.                               *)
InOrderIn(st, rw, hd, tr, i) ==
  OnlySubIn(st, i) /\ tr[i].order = "straight" =>
    /\ tr[i].last >= 1 => Mirrors(EventsOf(st, i), tr[i].last, i, rw[st[i].tenant])
    /\ \A h \in Handlers : hd[h] # None /\ hd[h].sub = i =>
         /\ \A g \in Handlers : hd[g] # None /\ hd[g].sub = i => g = h
         /\ tr[i].last >= 1 /\ hd[h].n \in {tr[i].last, tr[i].last + 1} =>
              /\ hd[h].status = StatusOf(EventsOf(st, i)[hd[h].n])
              /\ IsLastTier(EventsOf(st, i), hd[h].n, hd[h].tier)

InOrderInv ==
  /\ DeliveriesOK(stripe, handling, trail)
  /\ \A i \in Subs : InOrderIn(stripe, rows, handling, trail, i)

(* The events of a subscription are a sequence; an event has a known tier  *)
(* or none, and a checkout has one.                                        *)
LEMMA EventsType ==
  ASSUME TypeOK, NEW i \in Subs
  PROVE  /\ EventsOf(stripe, i) \in Seq(Event) /\ EventsOf(stripe, i) = Sent(i)
         /\ Len(EventsOf(stripe, i)) \in Nat
         /\ \A n \in 1..Len(EventsOf(stripe, i)) :
              /\ EventsOf(stripe, i)[n] \in Event
              /\ EventsOf(stripe, i)[n].type = "checkout" => EventsOf(stripe, i)[n].tier # None
<1>1. EventsOf(stripe, i) \in Seq(Event)
  BY DEF TypeOK, EventsOf, Session
<1>2. \A e \in Event : e.type = "checkout" => e.tier # None
  <2>1. None \notin PricedTiers
    BY BillingAssumption DEF PaidTiers
  <2> QED BY <2>1 DEF Event
<1>3. EventsOf(stripe, i) = Sent(i)
  BY DEF EventsOf, Sent
<1> HIDE DEF EventsOf
<1> QED BY <1>1, <1>2, <1>3

(* TierAfter takes the last known tier from one event to the next.         *)
LEMMA LastTierGoesOn ==
  ASSUME NEW s, NEW m \in Nat, NEW cur, IsLastTier(s, m, cur), NEW n \in {m, m + 1}, n >= 1
  PROVE  IsLastTier(s, n, TierAfter(s[n], cur))
<1>1. CASE s[n].tier # None
  BY <1>1 DEF TierAfter, IsLastTier
<1>2. CASE s[n].tier = None
  <2>1. PICK k \in 1..m : s[k].tier = cur /\ cur # None /\ \A j \in k + 1..m : s[j].tier = None
    BY DEF IsLastTier
  <2>2. k \in 1..n /\ \A j \in k + 1..n : s[j].tier = None
    BY <1>2, <2>1
  <2> QED BY <1>2, <2>1, <2>2 DEF TierAfter, IsLastTier
<1> QED BY <1>1, <1>2

(* What Stripe does changes neither what was applied nor what will be.     *)
LEMMA StripeKeepsOrder ==
  ASSUME Inv, TypeOK', InOrderInv, Evolves(stripe, stripe'), UNCHANGED <<rows, handling, trail>>,
         \A i \in Subs : stripe[i] = None => EventsOf(stripe', i) = <<>>,
         \A i \in Subs : \A n \in 1..Len(EventsOf(stripe', i)) :
           EventsOf(stripe', i)[n].type = "checkout" <=> n = 1
  PROVE  InOrderInv'
<1>1. \A i \in Subs : /\ EventsOf(stripe, i) \in Seq(Event)
                      /\ Len(EventsOf(stripe, i)) \in Nat
  BY EventsType DEF Inv
<1>2. \A i \in Subs : EventsOf(stripe', i) \in Seq(Event)
  BY DEF TypeOK, EventsOf, Session
<1>3. \A i \in Subs : stripe[i] = None => EventsOf(stripe, i) = <<>>
  BY DEF EventsOf
<1>4. ASSUME NEW i \in Subs
      PROVE  /\ Len(EventsOf(stripe, i)) <= Len(EventsOf(stripe', i))
             /\ \A n \in 1..Len(EventsOf(stripe, i)) :
                  EventsOf(stripe', i)[n] = EventsOf(stripe, i)[n]
  <2>1. CASE stripe[i] = None
    BY <1>2, <1>3, <2>1
  <2>2. CASE stripe[i] # None
    <3>1. \A n \in DOMAIN EventsOf(stripe, i) :
            n \in DOMAIN EventsOf(stripe', i) /\ EventsOf(stripe', i)[n] = EventsOf(stripe, i)[n]
      BY <2>2 DEF Evolves
    <3>2. DOMAIN EventsOf(stripe, i) = 1..Len(EventsOf(stripe, i))
          /\ DOMAIN EventsOf(stripe', i) = 1..Len(EventsOf(stripe', i))
          /\ Len(EventsOf(stripe', i)) \in Nat
      BY <1>1, <1>2
    <3>3. Len(EventsOf(stripe, i)) <= Len(EventsOf(stripe', i))
      BY <1>1, <3>1, <3>2
    <3> QED BY <3>1, <3>2, <3>3
  <2> QED BY <2>1, <2>2
<1>5. \A i \in Subs : trail[i].last \in Nat
  BY BillingAssumption DEF Inv, TypeOK
<1>6. \A h \in Handlers : handling[h] # None => handling[h].sub \in Subs /\ handling[h].n \in Nat
  BY BillingAssumption DEF Inv, TypeOK, Reading
<1>7. DeliveriesOK(stripe', handling, trail)
  <2>1. \A i \in Subs : trail[i].last <= Len(EventsOf(stripe', i))
    BY <1>1, <1>2, <1>4, <1>5 DEF InOrderInv, DeliveriesOK
  <2>2. \A h \in Handlers : handling[h] # None => handling[h].n \in 2..Len(EventsOf(stripe', handling[h].sub))
    BY <1>1, <1>2, <1>4, <1>6 DEF InOrderInv, DeliveriesOK
  <2> QED BY <2>1, <2>2 DEF DeliveriesOK
<1>8. ASSUME NEW i \in Subs
      PROVE  InOrderIn(stripe', rows, handling, trail, i)
  <2>1. CASE stripe[i] = None
    <3>1. EventsOf(stripe, i) = <<>> /\ Len(EventsOf(stripe, i)) = 0
      BY <1>3, <2>1
    <3>2. trail[i].last = 0
      BY <1>5, <3>1 DEF InOrderInv, DeliveriesOK
    <3>3. \A h \in Handlers : handling[h] # None => handling[h].sub # i
      BY <3>1 DEF InOrderInv, DeliveriesOK
    <3> QED BY <3>2, <3>3 DEF InOrderIn
  <2>2. CASE stripe[i] # None
    <3>1. SUFFICES ASSUME OnlySubIn(stripe', i), trail[i].order = "straight"
                   PROVE  InOrderIn(stripe', rows, handling, trail, i)
      BY DEF InOrderIn
    <3>2. OnlySubIn(stripe, i)
      <4> SUFFICES ASSUME NEW j \in Subs \ {i}, EventsOf(stripe, j) # <<>>
                   PROVE  stripe[j].tenant # stripe[i].tenant
        BY <2>2 DEF OnlySubIn
      <4>1. stripe[j] # None /\ stripe'[j].tenant = stripe[j].tenant
            /\ stripe'[i].tenant = stripe[i].tenant
        BY <1>3, <2>2 DEF Evolves
      <4>2. EventsOf(stripe', j) # <<>>
        BY <1>1, <1>2, <1>4
      <4> QED BY <3>1, <4>1, <4>2 DEF OnlySubIn
    <3> DEFINE s == EventsOf(stripe, i)
               s2 == EventsOf(stripe', i)
    <3>3. \A m \in 1..Len(s) : \A tier :
            IsLastTier(s, m, tier) => IsLastTier(s2, m, tier)
      <4> HIDE DEF s, s2
      <4>1. \A m \in 1..Len(s) : \A n \in 1..m : n \in 1..Len(s) /\ \A k \in n + 1..m : k \in 1..Len(s)
        OBVIOUS
      <4>2. \A n \in 1..Len(s) : s2[n] = s[n]
        BY <1>4 DEF s, s2
      <4> QED BY <4>1, <4>2 DEF IsLastTier
    <3>4. trail[i].last >= 1 => Mirrors(s2, trail[i].last, i, rows[stripe'[i].tenant])
      <4>1. trail[i].last >= 1 => trail[i].last \in 1..Len(s)
        BY <1>1, <1>5 DEF InOrderInv, DeliveriesOK
      <4>2. stripe'[i].tenant = stripe[i].tenant
        BY <2>2 DEF Evolves
      <4> QED BY <1>4, <3>1, <3>2, <3>3, <4>1, <4>2 DEF InOrderInv, InOrderIn, Mirrors
    <3>5. ASSUME NEW h \in Handlers, handling[h] # None, handling[h].sub = i
          PROVE  /\ \A g \in Handlers : handling[g] # None /\ handling[g].sub = i => g = h
                 /\ trail[i].last >= 1 /\ handling[h].n \in {trail[i].last, trail[i].last + 1} =>
                      /\ handling[h].status = StatusOf(s2[handling[h].n])
                      /\ IsLastTier(s2, handling[h].n, handling[h].tier)
      <4>1. handling[h].n \in 1..Len(s)
        BY <1>1, <3>5 DEF InOrderInv, DeliveriesOK
      <4> QED BY <1>4, <3>1, <3>2, <3>3, <3>5, <4>1 DEF InOrderInv, InOrderIn
    <3> QED BY <3>4, <3>5 DEF InOrderIn
  <2> QED BY <2>1, <2>2
<1> QED BY <1>7, <1>8 DEF InOrderInv

LEMMA CreateCheckoutKeepsOrder ==
  ASSUME Inv, TypeOK', InOrderInv, NEW t \in Tenants, NEW tier \in Tiers, CreateCheckout(t, tier)
  PROVE  InOrderInv'
<1>1. PICK i \in Subs :
        /\ stripe[i] = None
        /\ stripe' = [stripe EXCEPT ![i] = [tenant |-> t, tier |-> tier, sent |-> <<>>]]
  BY DEF CreateCheckout
<1>2. Evolves(stripe, stripe')
  BY <1>1 DEF Evolves, EventsOf, Inv, TypeOK
<1>3. /\ EventsOf(stripe', i) = <<>> /\ EventsOf(stripe, i) = <<>>
      /\ \A j \in Subs \ {i} : EventsOf(stripe', j) = EventsOf(stripe, j)
  BY <1>1 DEF EventsOf, Inv, TypeOK
<1>4. \A j \in Subs : stripe[j] = None => EventsOf(stripe', j) = <<>>
  BY <1>3 DEF EventsOf
<1>5. \A j \in Subs : \A n \in 1..Len(EventsOf(stripe', j)) :
        EventsOf(stripe', j)[n].type = "checkout" <=> n = 1
  BY <1>3 DEF InOrderInv, DeliveriesOK
<1> QED BY <1>2, <1>4, <1>5, StripeKeepsOrder DEF CreateCheckout

LEMMA SendKeepsOrder ==
  ASSUME Inv, TypeOK', InOrderInv, NEW i \in Subs, NEW event \in Event, stripe[i] # None,
         Send(i, event), event.type = "checkout" <=> Sent(i) = <<>>
  PROVE  InOrderInv'
<1> DEFINE s == stripe[i].sent
<1>1. /\ stripe[i] \in Session /\ s \in Seq(Event) /\ DOMAIN stripe = Subs
      /\ EventsOf(stripe, i) = s /\ Sent(i) = s
  BY DEF Inv, TypeOK, Session, EventsOf, Sent
<1>2. /\ stripe' = [stripe EXCEPT ![i] = [stripe[i] EXCEPT !.sent = Append(s, event)]]
      /\ UNCHANGED <<rows, handling, trail>>
  BY DEF Send
<1>3. /\ stripe'[i] = [stripe[i] EXCEPT !.sent = Append(s, event)]
      /\ \A j \in Subs \ {i} : stripe'[j] = stripe[j]
  BY <1>1, <1>2
<1>4. /\ stripe'[i] \in Session /\ stripe'[i].sent = Append(s, event)
      /\ stripe'[i].tenant = stripe[i].tenant
  <2>1. Append(s, event) \in Seq(Event)
    BY <1>1
  <2> DEFINE longer == Append(s, event)
  <2>2. stripe'[i] = [stripe[i] EXCEPT !.sent = longer] /\ longer \in Seq(Event)
    BY <1>3, <2>1
  <2> HIDE DEF longer
  <2>3. /\ stripe'[i] \in Session /\ stripe'[i].sent = longer
        /\ stripe'[i].tenant = stripe[i].tenant
    BY <1>1, <2>2 DEF Session
  <2> QED BY <2>3 DEF longer
<1>5. stripe'[i] # None
  BY <1>4, BillingAssumption
<1>6. /\ EventsOf(stripe', i) = Append(s, event)
      /\ \A j \in Subs \ {i} : EventsOf(stripe', j) = EventsOf(stripe, j)
  BY <1>3, <1>4, <1>5 DEF EventsOf
<1> HIDE DEF s
<1>7. /\ Len(Append(s, event)) = Len(s) + 1 /\ Len(s) \in Nat
      /\ \A n \in 1..Len(s) : Append(s, event)[n] = s[n]
      /\ Append(s, event)[Len(s) + 1] = event
      /\ DOMAIN s = 1..Len(s) /\ DOMAIN Append(s, event) = 1..Len(s) + 1
      /\ s = <<>> <=> Len(s) = 0
  BY <1>1
<1>8. Evolves(stripe, stripe')
  <2>1. \A n \in DOMAIN s : n \in DOMAIN Append(s, event) /\ Append(s, event)[n] = s[n]
    BY <1>7
  <2> QED BY <1>1, <1>3, <1>4, <1>5, <1>6, <2>1 DEF Evolves
<1>9. \A j \in Subs : stripe[j] = None => EventsOf(stripe', j) = <<>>
  BY <1>6 DEF EventsOf
<1>10. \A j \in Subs : \A n \in 1..Len(EventsOf(stripe', j)) :
         EventsOf(stripe', j)[n].type = "checkout" <=> n = 1
  <2>1. \A n \in 1..Len(s) : s[n].type = "checkout" <=> n = 1
    BY <1>1 DEF InOrderInv, DeliveriesOK
  <2>2. \A n \in 1..Len(s) + 1 : Append(s, event)[n].type = "checkout" <=> n = 1
    <3> TAKE n \in 1..Len(s) + 1
    <3>1. CASE n \in 1..Len(s)
      BY <1>7, <2>1, <3>1
    <3>2. CASE n = Len(s) + 1
      BY <1>1, <1>7, <3>2
    <3> QED BY <1>7, <3>1, <3>2
  <2>3. \A j \in Subs \ {i} : \A n \in 1..Len(EventsOf(stripe', j)) :
          EventsOf(stripe', j)[n].type = "checkout" <=> n = 1
    BY <1>6 DEF InOrderInv, DeliveriesOK
  <2> QED BY <1>6, <1>7, <2>2, <2>3
<1> QED BY <1>2, <1>8, <1>9, <1>10, StripeKeepsOrder

LEMMA StripeSendsInOrder ==
  ASSUME Inv, TypeOK', InOrderInv, NEW i \in Subs,
         \/ CompleteCheckout(i) \/ StripeCancels(i)
         \/ \E tier \in PricedTiers \cup {None}, status \in StripeStatuses :
              StripeUpdates(i, tier, status)
  PROVE  InOrderInv'
<1>1. CASE CompleteCheckout(i)
  <2>1. stripe[i] # None /\ stripe[i].tier \in PricedTiers
    BY <1>1 DEF CompleteCheckout, Inv, TypeOK, Session
  <2>2. [type |-> "checkout", tier |-> stripe[i].tier, status |-> None] \in Event
    BY <2>1 DEF Event
  <2> QED BY <1>1, <2>1, <2>2, SendKeepsOrder DEF CompleteCheckout
<1>2. CASE StripeCancels(i)
  <2>1. stripe[i] # None
    BY <1>2 DEF StripeCancels, Sent
  <2>2. [type |-> "deleted", tier |-> None, status |-> None] \in Event
    BY DEF Event
  <2> QED BY <1>2, <2>1, <2>2, SendKeepsOrder DEF StripeCancels
<1>3. ASSUME NEW tier \in PricedTiers \cup {None}, NEW status \in StripeStatuses,
             StripeUpdates(i, tier, status)
      PROVE  InOrderInv'
  <2>1. stripe[i] # None
    BY <1>3 DEF StripeUpdates, Sent
  <2>2. [type |-> "updated", tier |-> tier, status |-> status] \in Event
    BY DEF Event
  <2> QED BY <1>3, <2>1, <2>2, SendKeepsOrder DEF StripeUpdates
<1> QED BY <1>1, <1>2, <1>3

(* A step that has nothing to do with i.                                   *)
LEMMA Aside ==
  ASSUME InOrderInv, NEW i \in Subs, UNCHANGED stripe, trail'[i] = trail[i],
         OnlySubIn(stripe, i) => rows'[stripe[i].tenant] = rows[stripe[i].tenant],
         \A h \in Handlers : handling'[h] # None /\ handling'[h].sub = i => handling'[h] = handling[h]
  PROVE  InOrderIn(stripe, rows', handling', trail', i)
<1> SUFFICES ASSUME OnlySubIn(stripe, i), trail[i].order = "straight"
             PROVE  InOrderIn(stripe, rows', handling', trail', i)
  BY DEF InOrderIn
<1>1. InOrderIn(stripe, rows, handling, trail, i)
  BY DEF InOrderInv
<1> QED BY <1>1 DEF InOrderIn

(* Deliveries that are applied in order follow each other.                 *)
LEMMA FollowsInOrder ==
  ASSUME TypeOK, NEW i \in Subs, NEW n \in 1..MaxEvents, Follow(i, n)
  PROVE  /\ \A j \in Subs \ {i} : trail'[j] = trail[j]
         /\ trail'[i].last = IF n > trail[i].last THEN n ELSE trail[i].last
         /\ trail'[i].order = "straight" =>
              /\ trail[i].order = "straight" /\ trail'[i].last = n
              /\ n \in {trail[i].last, trail[i].last + 1}
<1>1. trail[i].last \in Nat /\ n \in Nat
  BY BillingAssumption DEF TypeOK
<1>2. \A j \in Subs \ {i} : trail'[j] = trail[j]
  BY DEF Follow, TypeOK
<1>3. trail'[i] =
        [last |-> IF n > trail[i].last THEN n ELSE trail[i].last,
         order |-> IF trail[i].order = "reordered" \/ n > trail[i].last + 1 THEN "reordered"
                   ELSE IF n < trail[i].last \/ trail[i].order = "redelivered" THEN "redelivered"
                   ELSE "straight"]
  BY DEF Follow, TypeOK
<1>4. trail[i].order \in {"straight", "redelivered", "reordered"}
  BY DEF TypeOK
<1> QED BY <1>1, <1>2, <1>3, <1>4

LEMMA WrittenRow ==
  ASSUME TypeOK, NEW t \in Tenants, NEW tier \in Tiers, NEW status \in Statuses,
         NEW customer \in Subs \cup {None}, NEW sub \in Subs \cup {None},
         SetSubscription(t, tier, status, customer, sub)
  PROVE  /\ \A u \in Tenants \ {t} : rows'[u] = rows[u]
         /\ rows'[t] # None /\ rows'[t].tier = tier /\ rows'[t].status = status
         /\ customer # None => rows'[t].customer = customer
         /\ customer = None /\ rows[t] # None => rows'[t].customer = rows[t].customer
         /\ sub # None => rows'[t].sub = sub
<1> DEFINE oldCustomer == IF rows[t] = None THEN None ELSE rows[t].customer
           oldSub == IF rows[t] = None THEN None ELSE rows[t].sub
           new == [tier |-> tier, status |-> status,
                   customer |-> IF customer = None THEN oldCustomer ELSE customer,
                   sub |-> IF sub = None THEN oldSub ELSE sub]
<1>1. rows' = [rows EXCEPT ![t] = new] /\ DOMAIN rows = Tenants
  BY DEF SetSubscription, TypeOK
<1>2. new # None
  <2>1. new \in Row
    BY DEF TypeOK, Row
  <2> QED BY <2>1, BillingAssumption
<1> QED BY <1>1, <1>2

LEMMA ApplyCheckoutInOrder ==
  ASSUME Inv, InOrderInv, NEW i \in Subs, NEW n \in 1..MaxEvents, ApplyCheckout(i, n)
  PROVE  InOrderInv'
<1> DEFINE s == EventsOf(stripe, i)
           t == stripe[i].tenant
<1>1. /\ n \in 1..Len(s) /\ s[n].type = "checkout" /\ s[n] = stripe[i].sent[n]
      /\ SetSubscription(t, s[n].tier, "active", i, i)
      /\ UNCHANGED <<stripe, handling>>
  <2>1. n \in 1..Len(Sent(i)) /\ stripe[i] # None
    BY SentType DEF ApplyCheckout, Inv
  <2>2. s = Sent(i) /\ s = stripe[i].sent
    BY <2>1 DEF EventsOf, Sent
  <2> QED BY <2>1, <2>2 DEF ApplyCheckout
<1>2. /\ s \in Seq(Event) /\ Len(s) \in Nat /\ s[n].tier # None /\ s # <<>>
  BY <1>1, EventsType DEF Inv
<1>3. n = 1
  BY <1>1 DEF InOrderInv, DeliveriesOK
<1>4. t \in Tenants /\ s[n].tier \in Tiers /\ stripe[i] # None
  BY <1>1, <1>2, SentType, EventsType, BillingAssumption DEF Inv, Session, Event, PaidTiers
<1>5. /\ \A u \in Tenants \ {t} : rows'[u] = rows[u]
      /\ rows'[t] # None /\ rows'[t].tier = s[n].tier /\ rows'[t].status = "active"
      /\ rows'[t].customer = i /\ rows'[t].sub = i
  <2>1. "active" \in Statuses /\ i # None
    BY BillingAssumption DEF Statuses
  <2> QED BY <1>1, <1>4, <2>1, WrittenRow DEF Inv
<1>6. /\ \A j \in Subs \ {i} : trail'[j] = trail[j]
      /\ trail'[i].last <= Len(s)
      /\ trail'[i].order = "straight" => trail'[i].last = 1 /\ ~InProgress(i)
  <2>1. CASE InProgress(i)
    BY <2>1 DEF ApplyCheckout, Inv, TypeOK, InOrderInv, DeliveriesOK
  <2>2. CASE ~InProgress(i)
    <3>1. Follow(i, n)
      BY <2>2 DEF ApplyCheckout
    <3> QED BY <1>1, <1>2, <1>3, <2>2, <3>1, FollowsInOrder DEF Inv, InOrderInv, DeliveriesOK
  <2> QED BY <2>1, <2>2
<1> HIDE DEF s, t
<1>7. DeliveriesOK(stripe, handling, trail')
  BY <1>6 DEF InOrderInv, DeliveriesOK, s
<1>8. InOrderIn(stripe, rows', handling, trail', i)
  <2> SUFFICES ASSUME trail'[i].order = "straight"
               PROVE  InOrderIn(stripe, rows', handling, trail', i)
    BY DEF InOrderIn
  <2>1. trail'[i].last = 1 /\ ~InProgress(i)
    BY <1>6
  <2>2. IsLastTier(s, 1, rows'[t].tier)
    BY <1>2, <1>3, <1>5 DEF IsLastTier
  <2>3. Mirrors(s, 1, i, rows'[t])
    BY <1>1, <1>3, <1>5, <2>2 DEF Mirrors, StatusOf
  <2>4. \A h \in Handlers : ~(handling[h] # None /\ handling[h].sub = i)
    BY <2>1 DEF InProgress
  <2> QED BY <2>1, <2>3, <2>4 DEF InOrderIn, s, t
<1>9. ASSUME NEW j \in Subs \ {i}
      PROVE  InOrderIn(stripe, rows', handling', trail', j)
  <2>1. OnlySubIn(stripe, j) => stripe[j].tenant # t /\ stripe[j].tenant \in Tenants
    BY <1>2 DEF OnlySubIn, s, t, Inv, TypeOK, Session
  <2>2. OnlySubIn(stripe, j) => rows'[stripe[j].tenant] = rows[stripe[j].tenant]
    BY <1>5, <2>1
  <2> QED BY <1>1, <1>6, <2>2, Aside
<1>10. stripe' = stripe /\ handling' = handling
  BY <1>1
<1>11. \A j \in Subs : InOrderIn(stripe', rows', handling', trail', j)
  BY <1>8, <1>9, <1>10
<1>12. DeliveriesOK(stripe', handling', trail')
  BY <1>7, <1>10
<1> QED BY <1>11, <1>12 DEF InOrderInv

LEMMA ReadRowInOrder ==
  ASSUME Inv, InOrderInv, NEW h \in Handlers, NEW i \in Subs, NEW n \in 1..MaxEvents,
         ReadRow(h, i, n)
  PROVE  InOrderInv'
<1> DEFINE s == EventsOf(stripe, i)
           e == stripe[i].sent[n]
           status == IF e.type = "deleted" THEN "canceled" ELSE MapStripeStatus(e.status)
<1>1. PICK t \in IF RowsOfCustomer(i) = {} THEN {stripe[i].tenant} ELSE RowsOfCustomer(i) :
        LET current == IF RowsOfCustomer(i) = {} THEN "free" ELSE rows[t].tier
        IN  handling' = [handling EXCEPT ![h] =
              [sub |-> i, n |-> n, tenant |-> t,
               tier |-> TierAfter(e, current), status |-> status]]
  BY DEF ReadRow
<1> DEFINE current == IF RowsOfCustomer(i) = {} THEN "free" ELSE rows[t].tier
           tier == TierAfter(e, current)
           r == [sub |-> i, n |-> n, tenant |-> t, tier |-> tier, status |-> status]
<1>2. /\ n \in 1..Len(Sent(i)) /\ stripe[i] # None /\ s = stripe[i].sent /\ s = Sent(i)
  <2>1. n \in 1..Len(Sent(i)) /\ stripe[i] # None
    BY SentType DEF ReadRow, Inv
  <2> QED BY <2>1 DEF EventsOf, Sent
<1>3. /\ n \in 1..Len(s) /\ e = s[n] /\ e.type # "checkout"
      /\ Len(s) \in Nat /\ handling[h] = None /\ UNCHANGED <<rows, stripe>>
  BY <1>2, EventsType DEF ReadRow, Inv
<1>4. n \in 2..Len(s)
  BY <1>3 DEF InOrderInv, DeliveriesOK
<1>5. status = StatusOf(s[n])
  BY <1>3 DEF StatusOf
<1>6. handling' = [handling EXCEPT ![h] = r]
  BY <1>1
<1>7. /\ r.sub = i /\ r.n = n /\ r.tier = tier /\ r.status = status
  OBVIOUS
<1> HIDE DEF r, status
<1>8. handling'[h] = r /\ \A g \in Handlers \ {h} : handling'[g] = handling[g]
  BY <1>6 DEF Inv, TypeOK
<1>9. /\ \A j \in Subs \ {i} : trail'[j] = trail[j]
      /\ trail'[i].last = trail[i].last
      /\ trail'[i].order = "straight" => trail'[i] = trail[i] /\ ~InProgress(i)
  BY DEF ReadRow, Inv, TypeOK
<1>10. DeliveriesOK(stripe, handling', trail')
  <2>1. \A g \in Handlers : handling'[g] # None => handling'[g].n \in 2..Len(EventsOf(stripe, handling'[g].sub))
    BY <1>4, <1>7, <1>8 DEF InOrderInv, DeliveriesOK
  <2>2. \A j \in Subs : trail'[j].last = trail[j].last
    BY <1>9
  <2> QED BY <2>1, <2>2 DEF InOrderInv, DeliveriesOK
<1>11. ASSUME OnlySubIn(stripe, i), trail'[i].order = "straight"
       PROVE  InOrderIn(stripe, rows, handling', trail', i)
  <2>1. /\ trail'[i] = trail[i] /\ trail[i].order = "straight"
        /\ \A g \in Handlers : ~(handling[g] # None /\ handling[g].sub = i)
    BY <1>9, <1>11 DEF InProgress
  <2>2. trail[i].last >= 1 => Mirrors(s, trail[i].last, i, rows[stripe[i].tenant])
    BY <1>11, <2>1 DEF InOrderInv, InOrderIn
  <2>3. ASSUME trail[i].last >= 1, n \in {trail[i].last, trail[i].last + 1}
        PROVE  IsLastTier(s, n, tier)
    <3>1. rows[stripe[i].tenant] # None /\ rows[stripe[i].tenant].customer = i
          /\ IsLastTier(s, trail[i].last, rows[stripe[i].tenant].tier)
      BY <2>2, <2>3 DEF Mirrors
    <3>2. stripe[i].tenant \in RowsOfCustomer(i)
      <4>1. stripe[i].tenant \in Tenants
        BY <1>2 DEF Inv, TypeOK, Session
      <4> QED BY <3>1, <4>1 DEF RowsOfCustomer
    <3>3. t \in Tenants /\ rows[t] # None /\ rows[t].customer = i
      BY <1>1, <3>2 DEF RowsOfCustomer
    <3>4. stripe[i].tenant = t
      <4>1. OwnsIn(stripe, t, rows[t].customer)
        BY <3>3 DEF Inv, RowOK
      <4> QED BY <3>3, <4>1, BillingAssumption DEF OwnsIn
    <3>5. current = rows[stripe[i].tenant].tier
      BY <3>2, <3>4
    <3>6. trail[i].last \in Nat /\ n >= 1
      BY BillingAssumption DEF Inv, TypeOK
    <3> QED BY <1>3, <2>3, <3>1, <3>5, <3>6, LastTierGoesOn
  <2>4. ASSUME NEW g \in Handlers, handling'[g] # None, handling'[g].sub = i
        PROVE  g = h
    BY <1>8, <2>1, <2>4
  <2> HIDE DEF tier
  <2>5. trail'[i].last >= 1 => Mirrors(EventsOf(stripe, i), trail'[i].last, i, rows[stripe[i].tenant])
    BY <2>1, <2>2
  <2>6. ASSUME NEW g \in Handlers, handling'[g] # None, handling'[g].sub = i
        PROVE  /\ \A f \in Handlers : handling'[f] # None /\ handling'[f].sub = i => f = g
               /\ trail'[i].last >= 1 /\ handling'[g].n \in {trail'[i].last, trail'[i].last + 1} =>
                    /\ handling'[g].status = StatusOf(EventsOf(stripe, i)[handling'[g].n])
                    /\ IsLastTier(EventsOf(stripe, i), handling'[g].n, handling'[g].tier)
    BY <1>5, <1>7, <1>8, <2>1, <2>3, <2>4, <2>6
  <2> QED BY <2>5, <2>6 DEF InOrderIn
<1>12. ASSUME NEW j \in Subs \ {i}
       PROVE  InOrderIn(stripe, rows', handling', trail', j)
  BY <1>3, <1>7, <1>8, <1>9, Aside
<1>13. InOrderIn(stripe, rows, handling', trail', i)
  BY <1>11 DEF InOrderIn
<1>14. stripe' = stripe /\ rows' = rows
  BY <1>3
<1>15. \A j \in Subs : InOrderIn(stripe', rows', handling', trail', j)
  BY <1>12, <1>13, <1>14
<1>16. DeliveriesOK(stripe', handling', trail')
  BY <1>10, <1>14
<1> QED BY <1>15, <1>16 DEF InOrderInv

LEMMA WriteRowInOrder ==
  ASSUME Inv, InOrderInv, NEW h \in Handlers, WriteRow(h)
  PROVE  InOrderInv'
<1>1. PICK r \in Reading : handling[h] = r
  BY DEF WriteRow, Inv, TypeOK
<1> DEFINE i == r.sub
           n == r.n
           t == r.tenant
           s == EventsOf(stripe, i)
<1>2. /\ r # None /\ r \in Reading /\ OwnsIn(stripe, t, i)
      /\ handling' = [handling EXCEPT ![h] = None] /\ UNCHANGED stripe
  BY <1>1 DEF WriteRow, Inv, TypeOK, ReadingOK
<1>3. SetSubscription(t, r.tier, r.status, None, i)
  BY <1>1 DEF WriteRow, SetSubscription
<1>4. Follow(i, n)
  BY <1>1 DEF WriteRow, Follow
<1>5. /\ i \in Subs /\ n \in 1..MaxEvents /\ t \in Tenants /\ r.tier \in Tiers
      /\ r.status \in Statuses /\ i # None
  BY <1>2, BillingAssumption DEF Reading
<1>6. stripe[i] # None /\ stripe[i].tenant = t
  BY <1>2, <1>5 DEF OwnsIn
<1>7. n \in 2..Len(s)
  BY <1>1, <1>2 DEF InOrderInv, DeliveriesOK
<1>8. Len(s) \in Nat /\ s # <<>>
  <2>1. s \in Seq(Event) /\ Len(s) \in Nat
    BY <1>5, EventsType DEF Inv
  <2> QED BY <1>7, <2>1
<1>9. /\ \A u \in Tenants \ {t} : rows'[u] = rows[u]
      /\ rows'[t] # None /\ rows'[t].tier = r.tier /\ rows'[t].status = r.status
      /\ rows[t] # None => rows'[t].customer = rows[t].customer
      /\ rows'[t].sub = i
  <2>1. TypeOK /\ None \in Subs \cup {None} /\ i \in Subs \cup {None}
    BY <1>5 DEF Inv
  <2>2. \A tier \in Tiers, status \in Statuses :
          SetSubscription(t, tier, status, None, i) =>
            /\ \A u \in Tenants \ {t} : rows'[u] = rows[u]
            /\ rows'[t] # None /\ rows'[t].tier = tier /\ rows'[t].status = status
            /\ rows[t] # None => rows'[t].customer = rows[t].customer
            /\ rows'[t].sub = i
    BY <1>5, <2>1, WrittenRow
  <2> QED BY <1>3, <1>5, <2>2
<1>10. /\ \A j \in Subs \ {i} : trail'[j] = trail[j]
       /\ trail'[i].last = IF n > trail[i].last THEN n ELSE trail[i].last
       /\ trail'[i].order = "straight" =>
            /\ trail[i].order = "straight" /\ trail'[i].last = n
            /\ n \in {trail[i].last, trail[i].last + 1}
  BY <1>5, <1>4, FollowsInOrder DEF Inv
<1>11. handling'[h] = None /\ \A g \in Handlers \ {h} : handling'[g] = handling[g]
  BY <1>2 DEF Inv, TypeOK
<1>12. trail[i].last \in Nat /\ trail[i].last <= Len(s)
  BY <1>5, BillingAssumption DEF Inv, TypeOK, InOrderInv, DeliveriesOK
<1>13. stripe' = stripe
  BY <1>2
<1>14. DeliveriesOK(stripe', handling', trail')
  <2>1. \A g \in Handlers : handling'[g] # None => handling'[g] = handling[g]
    BY <1>11
  <2>2. trail'[i].last <= Len(s)
    BY <1>7, <1>10, <1>12
  <2>3. \A j \in Subs : trail'[j].last <= Len(EventsOf(stripe, j))
    BY <1>10, <2>2 DEF InOrderInv, DeliveriesOK
  <2> QED BY <1>13, <2>1, <2>3 DEF InOrderInv, DeliveriesOK
<1>15. ASSUME OnlySubIn(stripe, i), trail'[i].order = "straight"
       PROVE  InOrderIn(stripe, rows', handling', trail', i)
  <2>1. /\ trail[i].order = "straight" /\ trail'[i].last = n /\ trail[i].last >= 1
        /\ n \in {trail[i].last, trail[i].last + 1}
    BY <1>7, <1>10, <1>12, <1>15
  <2>2. /\ Mirrors(s, trail[i].last, i, rows[t])
        /\ \A g \in Handlers : handling[g] # None /\ handling[g].sub = i => g = h
        /\ r.status = StatusOf(s[n]) /\ IsLastTier(s, n, r.tier)
    BY <1>1, <1>2, <1>5, <1>6, <1>15, <2>1 DEF InOrderInv, InOrderIn
  <2>3. Mirrors(s, n, i, rows'[t])
    BY <1>9, <2>2 DEF Mirrors
  <2>4. \A g \in Handlers : ~(handling'[g] # None /\ handling'[g].sub = i)
    BY <1>11, <2>2
  <2> QED BY <1>6, <2>1, <2>3, <2>4 DEF InOrderIn
<1>16. InOrderIn(stripe, rows', handling', trail', i)
  BY <1>15 DEF InOrderIn
<1> HIDE DEF i, n, t, s
<1>17. ASSUME NEW j \in Subs \ {i}
       PROVE  InOrderIn(stripe, rows', handling', trail', j)
  <2>1. OnlySubIn(stripe, j) => stripe[j].tenant # t /\ stripe[j].tenant \in Tenants
    BY <1>5, <1>6, <1>8 DEF OnlySubIn, s, Inv, TypeOK, Session
  <2>2. OnlySubIn(stripe, j) => rows'[stripe[j].tenant] = rows[stripe[j].tenant]
    BY <1>9, <2>1
  <2> QED BY <1>10, <1>11, <1>13, <2>2, Aside
<1>18. \A j \in Subs : InOrderIn(stripe', rows', handling', trail', j)
  BY <1>13, <1>16, <1>17
<1> QED BY <1>14, <1>18 DEF InOrderInv

LEMMA CutWebhookInOrder ==
  ASSUME Inv, InOrderInv, NEW h \in Handlers, CutWebhook(h)
  PROVE  InOrderInv'
<1>1. /\ handling'[h] = None /\ \A g \in Handlers \ {h} : handling'[g] = handling[g]
      /\ rows' = rows /\ stripe' = stripe /\ trail' = trail
  BY DEF CutWebhook, Inv, TypeOK
<1>2. \A j \in Subs : InOrderIn(stripe', rows', handling', trail', j)
  BY <1>1, Aside
<1>3. DeliveriesOK(stripe', handling', trail')
  BY <1>1 DEF InOrderInv, DeliveriesOK
<1> QED BY <1>2, <1>3 DEF InOrderInv

LEMMA UpdateMySubscriptionInOrder ==
  ASSUME Inv, InOrderInv, NEW t \in Tenants, NEW tier \in Tiers, UpdateMySubscription(t, tier)
  PROVE  InOrderInv'
<1>1. /\ handling' = handling /\ stripe' = stripe
      /\ \A u \in Tenants \ {t} : rows'[u] = rows[u]
  <2>1. "active" \in Statuses
    BY DEF Statuses
  <2>2. SetSubscription(t, tier, "active", None, None)
    BY DEF UpdateMySubscription
  <2> QED BY <2>1, <2>2, WrittenRow DEF UpdateMySubscription, Inv
<1>2. \A i \in Subs : trail'[i].last = trail[i].last
  BY DEF UpdateMySubscription, Inv, TypeOK
<1>3. \A i \in Subs : IF stripe[i] # None /\ stripe[i].tenant = t
                      THEN trail'[i].order = "reordered" ELSE trail'[i] = trail[i]
  BY DEF UpdateMySubscription, Inv, TypeOK
<1>4. ASSUME NEW i \in Subs
      PROVE  InOrderIn(stripe, rows', handling', trail', i)
  <2>1. CASE stripe[i] # None /\ stripe[i].tenant = t
    BY <1>3, <2>1 DEF InOrderIn
  <2>2. CASE ~(stripe[i] # None /\ stripe[i].tenant = t)
    <3>1. OnlySubIn(stripe, i) => stripe[i].tenant \in Tenants \ {t}
      BY <2>2 DEF OnlySubIn, Inv, TypeOK, Session
    <3> QED BY <1>1, <1>3, <2>2, <3>1, Aside
  <2> QED BY <2>1, <2>2
<1>5. DeliveriesOK(stripe', handling', trail')
  BY <1>1, <1>2 DEF InOrderInv, DeliveriesOK
<1>6. \A i \in Subs : InOrderIn(stripe', rows', handling', trail', i)
  BY <1>1, <1>4
<1> QED BY <1>5, <1>6 DEF InOrderInv

LEMMA NextInOrder ==
  ASSUME Inv, Inv', InOrderInv, [Next]_vars
  PROVE  InOrderInv'
<1>0. TypeOK'
  BY DEF Inv
<1>1. CASE UNCHANGED vars
  <2>1. rows' = rows /\ stripe' = stripe /\ handling' = handling /\ trail' = trail
    BY <1>1 DEF vars
  <2>2. DeliveriesOK(stripe', handling', trail')
        /\ \A i \in Subs : InOrderIn(stripe', rows', handling', trail', i)
    BY <2>1 DEF InOrderInv
  <2> QED BY <2>2 DEF InOrderInv
<1>2. CASE Next
  BY <1>0, <1>2, CreateCheckoutKeepsOrder, UpdateMySubscriptionInOrder, StripeSendsInOrder,
     ApplyCheckoutInOrder, ReadRowInOrder, WriteRowInOrder, CutWebhookInOrder DEF Next
<1> QED BY <1>1, <1>2

(* The events of the only subscription of a tenant, each delivered after   *)
(* the one before, at once again or not, leave the row with the status,    *)
(* the tier and the ids that Stripe has (handle_stripe_event).             *)
THEOREM RowsMirrorStripe == Spec => []InOrderRowMirrorsStripe
<1>1. ASSUME Inv, InOrderInv
      PROVE  InOrderRowMirrorsStripe
  <2> SUFFICES ASSUME NEW i \in Subs, OnlySub(i), AllApplied(i), trail[i].order = "straight"
               PROVE  LET e == Sent(i)[Len(Sent(i))]
                      IN  rows[stripe[i].tenant] =
                            [tier |-> LastTier(Sent(i)), customer |-> i, sub |-> i,
                             status |-> CASE e.type = "checkout" -> "active"
                                          [] e.type = "deleted" -> "canceled"
                                          [] OTHER -> MapStripeStatus(e.status)]
    BY DEF InOrderRowMirrorsStripe
  <2> DEFINE s == Sent(i)
             row == rows[stripe[i].tenant]
  <2>1. /\ s = EventsOf(stripe, i) /\ s \in Seq(Event) /\ s # <<>>
        /\ Len(s) \in Nat \ {0} /\ DOMAIN s = 1..Len(s) /\ trail[i].last = Len(s)
    BY <1>1, EventsType DEF AllApplied, Inv
  <2>2. OnlySubIn(stripe, i)
    BY DEF OnlySub, OnlySubIn, EventsOf, Sent
  <2>3. Mirrors(s, Len(s), i, row)
    BY <1>1, <2>1, <2>2 DEF InOrderInv, InOrderIn
  <2>4. row \in Row
    <3>1. stripe[i].tenant \in Tenants
      BY <1>1, <2>2 DEF OnlySubIn, Inv, TypeOK, Session
    <3> QED BY <1>1, <2>3, <3>1 DEF Inv, TypeOK, Mirrors
  <2> HIDE DEF s, row
  <2>5. row.tier = LastTier(s)
    <3> DEFINE IsLast(n) == s[n].tier # None /\ \A k \in n + 1..Len(s) : s[k].tier = None
    <3>1. PICK n \in DOMAIN s : IsLast(n) /\ s[n].tier = row.tier
      BY <2>1, <2>3 DEF Mirrors, IsLastTier
    <3>2. \A m \in DOMAIN s : IsLast(m) => m = n
      BY <2>1, <3>1
    <3>3. n = CHOOSE m \in DOMAIN s : IsLast(m)
      <4> HIDE DEF IsLast
      <4> QED BY <3>1, <3>2
    <3> QED BY <3>1, <3>3 DEF LastTier
  <2> QED BY <2>3, <2>4, <2>5 DEF Row, Mirrors, StatusOf, s, row
<1>2. ASSUME Init
      PROVE  InOrderInv
  <2>1. /\ \A i \in Subs : /\ EventsOf(stripe, i) = <<>> /\ stripe[i] = None
                           /\ trail[i].last = 0
        /\ \A h \in Handlers : handling[h] = None
    BY <1>2 DEF Init, EventsOf
  <2>2. DeliveriesOK(stripe, handling, trail)
    BY <2>1 DEF DeliveriesOK
  <2>3. \A i \in Subs : InOrderIn(stripe, rows, handling, trail, i)
    BY <2>1 DEF InOrderIn, OnlySubIn
  <2> QED BY <2>2, <2>3 DEF InOrderInv
<1>3. Inv /\ Inv' /\ InOrderInv /\ [Next]_vars => InOrderInv'
  BY NextInOrder
<1> QED BY <1>1, <1>2, <1>3, BillingInvariance, PTL DEF Spec
=============================================================================
