-------------------------- MODULE AdmissionProofs --------------------------
(***************************************************************************)
(* Theorems about Admission, and the RateLimiter and Quota it composes,    *)
(* for any keys, limits, clocks, tenants, plans, requests and batches.     *)
(***************************************************************************)
EXTENDS Admission, FiniteSetTheorems, TLAPS

(* The bound of one bucket b with its trace tr, top being the highest      *)
(* limit, and what it needs: a hash outlives its last stamp by a minute,   *)
(* however far that stamp ran ahead.                                       *)
BoundOf(b, tr, top) ==
  b # None => tr.spent * MinuteTicks + b.tokens <= top * (MinuteTicks + tr.span)

LivesLong(b) == b # None => b.expires >= b.last + MinuteTicks

Fresh(b, tr) == b = None => tr.spent = 0 /\ tr.span = 0

Top(l) == l \in Limits /\ \A m \in Limits : m <= l

BucketOK(b, tr) ==
  /\ LivesLong(b)
  /\ Fresh(b, tr)
  /\ \A top \in Limits : Top(top) => BoundOf(b, tr, top)

LimiterInv == LimiterTypeOK /\ \A k \in Keys : BucketOK(bucket[k], trace[k])

-----------------------------------------------------------------------------
(* Products of natural numbers grow with their factors.                    *)
LEMMA MulMono ==
  ASSUME NEW a \in Nat, NEW b \in Nat, NEW c \in Nat, NEW d \in Nat, a <= b, c <= d
  PROVE  a * c \in Nat /\ a * c <= b * d
<1>1. a * c \in Nat /\ (b - a) * c >= 0 /\ b * (d - c) >= 0
  OBVIOUS
<1>2. a * c + (b - a) * c = b * c /\ b * c + b * (d - c) = b * d
  OBVIOUS
<1> QED
  BY <1>1, <1>2

(* What the script finds of tokens is at most what the bucket had and what *)
(* the highest limit refills while its stamp moves forward; a hash that    *)
(* has expired is older than a minute.                                     *)
LEMMA RefilledBound ==
  ASSUME LimiterInv, NEW k \in Keys, NEW limit \in Limits, NEW top, Top(top),
         NEW stamp \in Nat, stamp >= now, bucket[k] # None,
         NEW forward, forward = IF stamp > bucket[k].last THEN stamp - bucket[k].last ELSE 0
  PROVE  Refilled(k, limit, stamp) <= bucket[k].tokens + top * forward
<1>0. /\ MinuteTicks \in Nat /\ limit \in Nat /\ top \in Nat /\ limit <= top /\ now \in Nat
  BY RateLimiterAssumption DEF Top, LimiterInv, LimiterTypeOK
<1>1. /\ bucket[k] \in Bucket /\ bucket[k].expires >= bucket[k].last + MinuteTicks
  BY DEF LimiterInv, LimiterTypeOK, BucketOK, LivesLong
<1>2. /\ bucket[k].tokens \in Nat /\ bucket[k].last \in Nat /\ bucket[k].expires \in Nat
      /\ forward \in Nat
  BY <1>1 DEF Bucket
<1>3. CASE Held(k)
  <2>1. forward * limit \in Nat /\ forward * limit <= forward * top
    BY <1>0, <1>2, MulMono
  <2>2. Refilled(k, limit, stamp)
          = AtMost(limit * MinuteTicks, bucket[k].tokens + forward * limit)
    BY <1>3 DEF Refilled
  <2>3. limit * MinuteTicks \in Nat /\ forward * top \in Nat /\ top * forward = forward * top
    BY <1>0, <1>2
  <2> QED
    BY <1>2, <2>1, <2>2, <2>3 DEF AtMost
<1>4. CASE ~Held(k)
  <2>1. now >= bucket[k].expires
    BY <1>0, <1>2, <1>4 DEF Held
  <2>2. MinuteTicks <= forward
    BY <1>0, <1>1, <1>2, <2>1
  <2>3. limit * MinuteTicks \in Nat /\ limit * MinuteTicks <= top * forward
    BY <1>0, <1>2, <2>2, MulMono
  <2>4. Refilled(k, limit, stamp) = limit * MinuteTicks
    BY <1>4 DEF Refilled
  <2> QED
    BY <1>0, <1>2, <2>3, <2>4
<1> QED
  BY <1>3, <1>4

LEMMA RefilledType ==
  ASSUME LimiterInv, NEW k \in Keys, NEW limit \in Limits, NEW stamp \in Nat
  PROVE  Refilled(k, limit, stamp) \in Nat
<1>0. MinuteTicks \in Nat /\ limit \in Nat /\ limit * MinuteTicks \in Nat
  BY RateLimiterAssumption
<1>1. CASE Held(k)
  <2> DEFINE elapsed == IF stamp > bucket[k].last THEN stamp - bucket[k].last ELSE 0
  <2>1. bucket[k] \in Bucket
    BY <1>1 DEF Held, LimiterInv, LimiterTypeOK
  <2>2. bucket[k].tokens \in Nat /\ elapsed \in Nat
    BY <2>1 DEF Bucket
  <2>3. elapsed * limit \in Nat
    BY <1>0, <2>2
  <2>4. Refilled(k, limit, stamp) = AtMost(limit * MinuteTicks, bucket[k].tokens + elapsed * limit)
    BY <1>1 DEF Refilled
  <2> HIDE DEF elapsed
  <2> QED
    BY <1>0, <2>2, <2>3, <2>4 DEF AtMost
<1>2. CASE ~Held(k)
  BY <1>0, <1>2 DEF Refilled
<1> QED
  BY <1>1, <1>2

(* One run of the script keeps all of it.                                  *)
LEMMA ScriptStep ==
  ASSUME LimiterInv, NEW k \in Keys, NEW limit \in Limits, NEW skew \in Skews,
         RunScript(k, limit, now + skew)
  PROVE  LimiterInv'
<1> DEFINE stamp == now + skew
           tokens == Refilled(k, limit, stamp)
           allowed == Allowed(k, limit, stamp)
           forward == IF bucket[k] # None /\ stamp > bucket[k].last
                      THEN stamp - bucket[k].last ELSE 0
           b == [tokens |-> IF allowed THEN tokens - MinuteTicks ELSE tokens,
                 last |-> stamp, expires |-> now + Ttl]
           tr == [trace[k] EXCEPT !.spent = IF allowed THEN @ + 1 ELSE @,
                                  !.span = @ + forward]
<1>0. /\ now \in Nat /\ now' = now /\ skew \in Nat /\ skew <= MinuteTicks /\ MinuteTicks \in Nat
      /\ stamp \in Nat /\ stamp >= now
  BY RateLimiterAssumption DEF LimiterInv, LimiterTypeOK, RunScript
<1>1. tokens \in Nat /\ (allowed <=> tokens >= MinuteTicks)
  BY <1>0, RefilledType DEF Allowed
<1>2. /\ bucket' = [bucket EXCEPT ![k] = b]
      /\ trace' = [trace EXCEPT ![k] = tr]
  BY DEF RunScript, LimiterInv, LimiterTypeOK, Trace
<1>3. /\ trace[k] \in Trace /\ trace[k].spent \in Nat /\ trace[k].span \in Nat
      /\ bucket[k] \in Bucket \cup {None} /\ forward \in Nat
  BY <1>0 DEF LimiterInv, LimiterTypeOK, Trace, Bucket
<1>4. /\ b \in Bucket /\ b # None
      /\ b.tokens = IF allowed THEN tokens - MinuteTicks ELSE tokens
      /\ b.last = stamp /\ b.expires = now + 2 * MinuteTicks
  BY <1>0, <1>1, RateLimiterAssumption DEF Bucket, Ttl
<1>5. /\ tr \in Trace
      /\ tr.spent = IF allowed THEN trace[k].spent + 1 ELSE trace[k].spent
      /\ tr.span = trace[k].span + forward
  <2> DEFINE spent == IF allowed THEN trace[k].spent + 1 ELSE trace[k].spent
             span == trace[k].span + forward
  <2>1. spent \in Nat /\ span \in Nat
    BY <1>3
  <2>2. tr = [trace[k] EXCEPT !.spent = spent, !.span = span]
    OBVIOUS
  <2> HIDE DEF spent, span, tr
  <2>3. tr \in Trace /\ tr.spent = spent /\ tr.span = span
    BY <1>3, <2>1, <2>2 DEF Trace
  <2> QED
    BY <2>3 DEF spent, span
<1>6. LivesLong(b) /\ Fresh(b, tr)
  BY <1>0, <1>4 DEF LivesLong, Fresh
<1>7. ASSUME NEW top \in Limits, Top(top) PROVE BoundOf(b, tr, top)
  <2>0. top \in Nat /\ limit \in Nat /\ limit <= top
    BY <1>7, RateLimiterAssumption DEF Top
  <2>1. tr.spent * MinuteTicks + b.tokens = trace[k].spent * MinuteTicks + tokens
    <3>1. (trace[k].spent + 1) * MinuteTicks = trace[k].spent * MinuteTicks + MinuteTicks
      BY <1>0, <1>3
    <3>2. trace[k].spent * MinuteTicks \in Nat
      BY <1>0, <1>3
    <3> HIDE DEF tokens, allowed, b, tr, forward, stamp
    <3> QED
      BY <1>0, <1>1, <1>4, <1>5, <3>1, <3>2
  <2>2. CASE bucket[k] = None
    <3>1. trace[k].spent = 0 /\ trace[k].span = 0
      BY <2>2 DEF LimiterInv, BucketOK, Fresh
    <3>2. tokens = limit * MinuteTicks /\ forward = 0
      BY <2>2 DEF Refilled, Held
    <3>3. limit * MinuteTicks <= top * MinuteTicks
      BY <1>0, <2>0, MulMono
    <3>4. tr.span = 0 /\ tr.spent * MinuteTicks + b.tokens = limit * MinuteTicks
      BY <1>0, <1>5, <2>0, <2>1, <3>1, <3>2
    <3> HIDE DEF tokens, allowed, b, tr, forward, stamp
    <3> QED
      BY <1>0, <2>0, <3>3, <3>4 DEF BoundOf
  <2>3. CASE bucket[k] # None
    <3>1. forward = IF stamp > bucket[k].last THEN stamp - bucket[k].last ELSE 0
      BY <2>3
    <3>2. tokens <= bucket[k].tokens + top * forward
      BY <1>0, <1>7, <2>3, <3>1, RefilledBound
    <3>3. trace[k].spent * MinuteTicks + bucket[k].tokens <= top * (MinuteTicks + trace[k].span)
      BY <1>7, <2>3 DEF LimiterInv, BucketOK, BoundOf
    <3>4. bucket[k].tokens \in Nat
      BY <1>3, <2>3 DEF Bucket
    <3> HIDE DEF tokens, allowed, b, tr, forward, stamp
    <3>5. top * (MinuteTicks + tr.span) = top * (MinuteTicks + trace[k].span) + top * forward
      BY <1>0, <1>3, <1>5, <2>0
    <3>6. /\ top * (MinuteTicks + trace[k].span) \in Nat /\ top * forward \in Nat
          /\ trace[k].spent * MinuteTicks \in Nat
      BY <1>0, <1>3, <2>0
    <3> QED
      BY <1>1, <2>1, <3>2, <3>3, <3>4, <3>5, <3>6 DEF BoundOf
  <2> QED
    BY <2>2, <2>3
<1>8. BucketOK(b, tr)
  BY <1>6, <1>7 DEF BucketOK
<1> HIDE DEF tokens, allowed, b, tr, forward, stamp
<1>9. LimiterTypeOK'
  BY <1>0, <1>2, <1>4, <1>5 DEF LimiterInv, LimiterTypeOK
<1>10. ASSUME NEW j \in Keys PROVE BucketOK(bucket'[j], trace'[j])
  <2>1. CASE j = k
    BY <1>2, <1>8, <2>1 DEF LimiterInv, LimiterTypeOK
  <2>2. CASE j # k
    BY <1>2, <2>2 DEF LimiterInv, LimiterTypeOK
  <2> QED
    BY <2>1, <2>2
<1> QED
  BY <1>9, <1>10 DEF LimiterInv

-----------------------------------------------------------------------------
(* The quota: it are the items, u the usage and g the limits granted.      *)
Works(it, p) == it[p] # None /\ it[p].at = "work"

AdmittedIn(it, t, type) ==
  {p \in PlacesOf(type) : Works(it, p) /\ it[p].tenant = t /\ it[p].type = type}

Within(it, u, g, t, type) ==
  g[t][type] # Unlimited =>
    u[t][type] + Cardinality(AdmittedIn(it, t, type)) <= g[t][type] + MostItems(type) - 1

(* An item at work has been granted a limit that is not zero, so that the  *)
(* bound still holds when a month ends.                                    *)
WorkGranted(it, g) ==
  \A p \in Places : Works(it, p) => g[it[p].tenant][it[p].type] # 0

(* A search has one item only.                                             *)
InPlace(it) == \A p \in Places : it[p] # None => p \in PlacesOf(it[p].type)

QuotaInv ==
  QuotaEnforced =>
    /\ WorkGranted(item, granted)
    /\ \A t \in Tenants, type \in EventTypes : Within(item, used, granted, t, type)

Inv == TypeOK /\ LimiterInv /\ InPlace(item) /\ QuotaInv

LEMMA PlacesFinite ==
  ASSUME NEW type
  PROVE  /\ PlacesOf(type) \subseteq Places /\ IsFiniteSet(PlacesOf(type))
         /\ Cardinality(PlacesOf(type)) = MostItems(type)
         /\ MostItems(type) \in Nat /\ MostItems(type) >= 1
<1>1. /\ IsFiniteSet(Slots) /\ Cardinality(Slots) \in Nat /\ Cardinality(Slots) # 0
      /\ BatchConcurrency \in Nat /\ BatchConcurrency >= 1
  BY AdmissionAssumption, FS_CardinalityType, FS_EmptySet
<1>2. CASE type = "search"
  <2>1. IsFiniteSet({1}) /\ Cardinality({1}) = 1
    BY FS_Singleton
  <2>2. IsFiniteSet(Slots \X {1}) /\ Cardinality(Slots \X {1}) = Cardinality(Slots) * 1
    BY <1>1, <2>1, FS_Product
  <2>3. PlacesOf(type) = Slots \X {1} /\ MostItems(type) = Cardinality(Slots) * 1
    BY <1>2 DEF PlacesOf, MostItems
  <2>4. 1 \in 1..BatchConcurrency
    BY <1>1
  <2> QED
    BY <1>1, <2>2, <2>3, <2>4 DEF Places
<1>3. CASE type # "search"
  <2>1. /\ IsFiniteSet(1..BatchConcurrency)
        /\ Cardinality(1..BatchConcurrency) = BatchConcurrency
    BY <1>1, FS_Interval
  <2>2. /\ IsFiniteSet(Places)
        /\ Cardinality(Places) = Cardinality(Slots) * BatchConcurrency
    BY <1>1, <2>1, FS_Product DEF Places
  <2>3. PlacesOf(type) = Places /\ MostItems(type) = Cardinality(Slots) * BatchConcurrency
    BY <1>3 DEF PlacesOf, MostItems
  <2>4. /\ Cardinality(Slots) * BatchConcurrency \in Nat
        /\ Cardinality(Slots) * BatchConcurrency >= 1 * 1
    BY <1>1, MulMono
  <2> QED
    BY <2>2, <2>3, <2>4
<1> QED
  BY <1>2, <1>3

LEMMA AdmittedFinite ==
  ASSUME NEW it, NEW t, NEW type
  PROVE  /\ IsFiniteSet(AdmittedIn(it, t, type))
         /\ Cardinality(AdmittedIn(it, t, type)) \in Nat
         /\ MostItems(type) \in Nat /\ MostItems(type) >= 1
         /\ Cardinality(AdmittedIn(it, t, type)) <= MostItems(type)
         /\ Cardinality(AdmittedIn(it, t, type)) = MostItems(type)
              => AdmittedIn(it, t, type) = PlacesOf(type)
<1>1. AdmittedIn(it, t, type) \in SUBSET PlacesOf(type)
  BY DEF AdmittedIn
<1> QED
  BY <1>1, PlacesFinite, FS_Subset, FS_CardinalityType

(* A step that lets no item go to work and records nothing.                *)
LEMMA QuietQuota ==
  ASSUME TypeOK, QuotaInv, UNCHANGED <<used, granted>>,
         QuotaEnforced => \A p \in Places : Works(item', p) => item'[p] = item[p]
  PROVE  QuotaInv'
<1> SUFFICES ASSUME QuotaEnforced PROVE QuotaInv'
  BY DEF QuotaInv
<1>1. WorkGranted(item', granted)
  BY DEF WorkGranted, QuotaInv, Works
<1>2. ASSUME NEW t \in Tenants, NEW type \in EventTypes
      PROVE  Within(item', used, granted, t, type)
  <2>1. AdmittedIn(item', t, type) \in SUBSET AdmittedIn(item, t, type)
    BY PlacesFinite DEF AdmittedIn, Works
  <2>2. Cardinality(AdmittedIn(item', t, type)) <= Cardinality(AdmittedIn(item, t, type))
    BY <2>1, AdmittedFinite, FS_Subset
  <2>3. used[t][type] \in Nat /\ granted[t][type] \in Nat \cup {Unlimited}
    BY QuotaAssumption DEF TypeOK, QuotaTypeOK
  <2>4. Within(item, used, granted, t, type)
    BY DEF QuotaInv
  <2> QED
    BY <2>2, <2>3, <2>4, AdmittedFinite DEF Within
<1> QED
  BY <1>1, <1>2 DEF QuotaInv

(* A check that lets an item of t go on.                                   *)
LEMMA GrantQuota ==
  ASSUME TypeOK, QuotaInv, NEW p \in Places, item[p] # None, NEW t \in Tenants, NEW type \in EventTypes,
         t = item[p].tenant, type = item[p].type,
         NEW limit \in Nat \cup {Unlimited}, Allows(limit, used[t][type]),
         Proceed(p, "work", 0), Grant(t, type, limit), UNCHANGED used
  PROVE  QuotaInv'
<1> SUFFICES ASSUME QuotaEnforced PROVE QuotaInv'
  BY DEF QuotaInv
<1> DEFINE g == Higher(granted[t][type], limit)
<1>0. /\ granted \in [Tenants -> [EventTypes -> Nat \cup {Unlimited}]]
      /\ used \in [Tenants -> [EventTypes -> Nat]]
      /\ Unlimited \notin Nat
  BY QuotaAssumption DEF TypeOK, QuotaTypeOK
<1>1. /\ granted'[t][type] = g
      /\ \A t2 \in Tenants, type2 \in EventTypes :
           t2 # t \/ type2 # type => granted'[t2][type2] = granted[t2][type2]
  BY <1>0 DEF Grant
<1>2. /\ g # 0
      /\ g # Unlimited => limit # Unlimited /\ limit <= g /\ g \in Nat
  BY <1>0 DEF Higher, Allows
<1>3. /\ \A r \in Places \ {p} : item'[r] = item[r]
      /\ item'[p].tenant = t /\ item'[p].type = type
  BY DEF Proceed, Put, TypeOK
<1>4. WorkGranted(item', granted')
  <2> SUFFICES ASSUME NEW r \in Places, Works(item', r)
               PROVE  granted'[item'[r].tenant][item'[r].type] # 0
    BY DEF WorkGranted
  <2>1. CASE r = p
    BY <1>1, <1>2, <1>3, <2>1
  <2>2. CASE r # p
    <3>1. /\ item[r] \in Item /\ Works(item, r) /\ item'[r] = item[r]
          /\ item[r].tenant \in Tenants /\ item[r].type \in EventTypes
      BY <1>3, <2>2 DEF TypeOK, Works, Item
    <3>2. granted[item[r].tenant][item[r].type] # 0
      BY <3>1 DEF QuotaInv, WorkGranted
    <3> QED
      BY <1>1, <1>2, <3>1, <3>2
  <2> QED
    BY <2>1, <2>2
<1>5. ASSUME NEW t2 \in Tenants, NEW type2 \in EventTypes
      PROVE  Within(item', used, granted', t2, type2)
  <2>1. CASE t2 = t /\ type2 = type
    <3>1. g # Unlimited => used[t][type] < limit
      BY <1>2 DEF Allows
    <3>2. used[t][type] \in Nat
      BY <1>0
    <3> HIDE DEF g
    <3> QED
      BY <1>1, <1>2, <2>1, <3>1, <3>2, AdmittedFinite DEF Within
  <2>2. CASE t2 # t \/ type2 # type
    <3>1. AdmittedIn(item', t2, type2) \in SUBSET AdmittedIn(item, t2, type2)
      BY <1>3, <2>2, PlacesFinite DEF AdmittedIn, Works
    <3>2. Cardinality(AdmittedIn(item', t2, type2)) <= Cardinality(AdmittedIn(item, t2, type2))
      BY <3>1, AdmittedFinite, FS_Subset
    <3>3. granted'[t2][type2] = granted[t2][type2]
      BY <1>1, <2>2
    <3>4. used[t2][type2] \in Nat /\ granted[t2][type2] \in Nat \cup {Unlimited}
      BY <1>0
    <3>5. Within(item, used, granted, t2, type2)
      BY DEF QuotaInv
    <3> QED
      BY <3>2, <3>3, <3>4, <3>5, AdmittedFinite DEF Within
  <2> QED
    BY <2>1, <2>2
<1>6. used' = used
  OBVIOUS
<1> QED
  BY <1>4, <1>5, <1>6 DEF QuotaInv

(* An item whose usage is recorded is no longer at work.                   *)
LEMMA RecordQuota ==
  ASSUME TypeOK, InPlace(item), QuotaInv, NEW p \in Places, Record(p)
  PROVE  QuotaInv'
<1> SUFFICES ASSUME QuotaEnforced PROVE QuotaInv'
  BY DEF QuotaInv
<1>0. /\ granted' = granted /\ granted \in [Tenants -> [EventTypes -> Nat \cup {Unlimited}]]
      /\ used \in [Tenants -> [EventTypes -> Nat]] /\ Unlimited \notin Nat
      /\ item' = [item EXCEPT ![p] = None] /\ DOMAIN item = Places
      /\ Works(item, p) /\ item[p].tenant \in Tenants /\ item[p].type \in EventTypes
  BY QuotaAssumption DEF TypeOK, QuotaTypeOK, Record, Leave, ItemAt, Works, Item
<1>1. /\ \A r \in Places \ {p} : item'[r] = item[r]
      /\ item'[p] = None
  BY <1>0
<1>2. WorkGranted(item', granted')
  BY <1>0, <1>1 DEF WorkGranted, QuotaInv, Works
<1>3. ASSUME NEW t \in Tenants, NEW type \in EventTypes
      PROVE  Within(item', used', granted', t, type)
  <2>0. used[t][type] \in Nat /\ granted[t][type] \in Nat \cup {Unlimited}
        /\ Within(item, used, granted, t, type)
    BY <1>0 DEF QuotaInv
  <2>1. CASE t = item[p].tenant /\ type = item[p].type
    <3>1. used'[t][type] = used[t][type] + 1
      BY <1>0, <2>1 DEF Record, RecordUsage
    <3>2. p \in AdmittedIn(item, t, type)
      BY <1>0, <2>1 DEF AdmittedIn, InPlace, Works
    <3>3. AdmittedIn(item', t, type) = AdmittedIn(item, t, type) \ {p}
      BY <1>1, PlacesFinite DEF AdmittedIn, Works
    <3>4. Cardinality(AdmittedIn(item', t, type)) = Cardinality(AdmittedIn(item, t, type)) - 1
      BY <3>2, <3>3, AdmittedFinite, FS_RemoveElement
    <3> QED
      BY <1>0, <2>0, <3>1, <3>4, AdmittedFinite DEF Within
  <2>2. CASE t # item[p].tenant \/ type # item[p].type
    <3>1. used'[t][type] = used[t][type]
      BY <1>0, <2>2 DEF Record, RecordUsage
    <3>2. AdmittedIn(item', t, type) = AdmittedIn(item, t, type)
      BY <1>0, <1>1, <2>2, PlacesFinite DEF AdmittedIn, Works
    <3> QED
      BY <1>0, <2>0, <3>1, <3>2 DEF Within
  <2> QED
    BY <2>1, <2>2
<1> QED
  BY <1>2, <1>3 DEF QuotaInv

(* In a new month the items at work count against an empty one.            *)
LEMMA MonthQuota ==
  ASSUME TypeOK, QuotaInv, NewMonth, UNCHANGED item
  PROVE  QuotaInv'
<1> SUFFICES ASSUME QuotaEnforced PROVE QuotaInv'
  BY DEF QuotaInv
<1>1. WorkGranted(item, granted) /\ granted' = granted
  BY DEF QuotaInv, NewMonth
<1>2. ASSUME NEW t \in Tenants, NEW type \in EventTypes
      PROVE  Within(item, used', granted, t, type)
  <2>1. used'[t][type] = 0 /\ granted[t][type] \in Nat \cup {Unlimited}
    BY DEF NewMonth, TypeOK, QuotaTypeOK
  <2>2. CASE AdmittedIn(item, t, type) = PlacesOf(type)
    <3>1. PlacesOf(type) # {}
      BY PlacesFinite, FS_EmptySet
    <3>2. granted[t][type] # 0
      BY <1>1, <2>2, <3>1, PlacesFinite DEF AdmittedIn, WorkGranted
    <3> QED
      BY <2>1, <3>2, AdmittedFinite DEF Within
  <2>3. CASE AdmittedIn(item, t, type) # PlacesOf(type)
    BY <2>1, <2>3, AdmittedFinite DEF Within
  <2> QED
    BY <2>2, <2>3
<1> QED
  BY <1>1, <1>2 DEF QuotaInv

-----------------------------------------------------------------------------
(* Types *)

LEMMA RequestParts ==
  ASSUME TypeOK, NEW s \in Slots, req[s] # None
  PROVE  /\ req[s] \in Request
         /\ req[s].tenant \in Tenants /\ req[s].type \in EventTypes
         /\ req[s].urls \in 0..BatchSize
         /\ req[s].at = "limiter" => req[s].key \in Keys /\ req[s].rate \in Limits
<1>1. req[s] \in Request
  BY DEF TypeOK
<1>2. BatchSize \in Nat
  BY AdmissionAssumption
<1> QED
  BY <1>1, <1>2 DEF Request

LEMMA ItemParts ==
  ASSUME TypeOK, NEW p \in Places, item[p] # None
  PROVE  /\ item[p] \in Item
         /\ item[p].tenant \in Tenants /\ item[p].type \in EventTypes
         /\ item[p].limit \in Nat \cup {Unlimited}
<1>1. item[p] \in Item
  BY DEF TypeOK
<1> QED
  BY <1>1 DEF Item

LEMMA PutType ==
  ASSUME TypeOK, InPlace(item), NEW p \in Places, NEW stage \in {"plan", "usage", "work"},
         NEW type \in EventTypes, NEW t \in Tenants, NEW limit \in Nat \cup {Unlimited},
         p \in PlacesOf(type), Put(p, stage, type, t, limit)
  PROVE  /\ item' \in [Places -> Item \cup {None}]
         /\ item'[p].at = stage
         /\ \A r \in Places \ {p} : item'[r] = item[r]
         /\ InPlace(item')
<1> DEFINE new == [at |-> stage, type |-> type, tenant |-> t, limit |-> limit]
<1>1. new \in Item /\ new.at = stage /\ new.type = type
  BY DEF Item
<1>2. item' = [item EXCEPT ![p] = new] /\ item \in [Places -> Item \cup {None}]
  BY DEF Put, TypeOK
<1> HIDE DEF new
<1>3. /\ item' \in [Places -> Item \cup {None}] /\ item'[p] = new
      /\ \A r \in Places \ {p} : item'[r] = item[r]
  BY <1>1, <1>2
<1> QED
  BY <1>1, <1>3 DEF InPlace

LEMMA ProceedType ==
  ASSUME TypeOK, InPlace(item), NEW p \in Places, item[p] # None,
         NEW stage \in {"plan", "usage", "work"},
         NEW limit \in Nat \cup {Unlimited}, Proceed(p, stage, limit)
  PROVE  /\ item' \in [Places -> Item \cup {None}]
         /\ item'[p].at = stage
         /\ \A r \in Places \ {p} : item'[r] = item[r]
         /\ InPlace(item')
<1>1. /\ item[p].tenant \in Tenants /\ item[p].type \in EventTypes
      /\ p \in PlacesOf(item[p].type)
  BY ItemParts DEF InPlace
<1>2. Put(p, stage, item[p].type, item[p].tenant, limit)
  BY DEF Proceed
<1> QED
  BY <1>1, <1>2, PutType

LEMMA LeaveType ==
  ASSUME TypeOK, InPlace(item), NEW p \in Places, Leave(p)
  PROVE  /\ item' \in [Places -> Item \cup {None}]
         /\ item'[p] = None
         /\ \A r \in Places \ {p} : item'[r] = item[r]
         /\ InPlace(item')
BY DEF Leave, TypeOK, InPlace

LEMMA FinishType ==
  ASSUME TypeOK, NEW s \in Slots, Finish(s)
  PROVE  req' \in [Slots -> Request \cup {None}]
BY DEF Finish, TypeOK

LEMMA ServeType ==
  ASSUME TypeOK, NEW s \in Slots, req[s] # None, Serve(s)
  PROVE  req' \in [Slots -> Request \cup {None}]
<1>1. [at |-> "serving", type |-> req[s].type, tenant |-> req[s].tenant, urls |-> req[s].urls]
        \in Request
  BY RequestParts DEF Request
<1> QED
  BY <1>1 DEF Serve, TypeOK

LEMMA GrantType ==
  ASSUME TypeOK, NEW t \in Tenants, NEW type \in EventTypes, NEW limit \in Nat \cup {Unlimited},
         Grant(t, type, limit)
  PROVE  granted' \in [Tenants -> [EventTypes -> Nat \cup {Unlimited}]]
<1>1. Higher(granted[t][type], limit) \in Nat \cup {Unlimited}
  BY DEF Higher, TypeOK, QuotaTypeOK
<1> QED
  BY <1>1 DEF Grant, TypeOK, QuotaTypeOK

(* A step that leaves the limiter and the quota alone, or moves requests   *)
(* and items without admitting one.                                        *)
LEMMA PlainStep ==
  ASSUME Inv, UNCHANGED <<limiterVars, used, granted>>,
         tier' \in [Tenants -> Tiers],
         keys' \in [Keys -> ApiKey \cup {None}],
         req' \in [Slots -> Request \cup {None}],
         item' \in [Places -> Item \cup {None}],
         InPlace(item'),
         QuotaEnforced => \A p \in Places : Works(item', p) => item'[p] = item[p]
  PROVE  Inv'
<1>1. LimiterInv'
  BY DEF Inv, LimiterInv, LimiterTypeOK, limiterVars
<1>2. TypeOK'
  BY <1>1 DEF Inv, TypeOK, LimiterInv, QuotaTypeOK
<1>3. QuotaInv'
  BY QuietQuota DEF Inv
<1> QED
  BY <1>1, <1>2, <1>3 DEF Inv, InPlace

LEMMA AdminStep ==
  ASSUME Inv, NEW k \in Keys, AdminRequest(k)
  PROVE  Inv'
<1>1. UNCHANGED <<limiterVars, quotaVars, req, item>>
  BY DEF AdminRequest, DeleteKey, CreateKey, UpdateKey
<1>2. keys' \in [Keys -> ApiKey \cup {None}]
  <2>1. CASE DeleteKey(k)
    BY <2>1 DEF DeleteKey, Inv, TypeOK
  <2>2. ASSUME NEW limit \in Limits, NEW scopes \in KeyScopes, NEW t \in Tenants,
               CreateKey(k, t, limit, scopes)
        PROVE  keys' \in [Keys -> ApiKey \cup {None}]
    BY <2>2 DEF CreateKey, Inv, TypeOK, ApiKey
  <2>3. ASSUME NEW limit \in Limits, NEW scopes \in KeyScopes, NEW enabled \in BOOLEAN,
               UpdateKey(k, limit, scopes, enabled)
        PROVE  keys' \in [Keys -> ApiKey \cup {None}]
    <3>1. keys[k] \in ApiKey
      BY <2>3 DEF UpdateKey, Inv, TypeOK
    <3> QED
      BY <2>3, <3>1 DEF UpdateKey, Inv, TypeOK, ApiKey
  <2> QED
    BY <2>1, <2>2, <2>3 DEF AdminRequest
<1> QED
  BY <1>1, <1>2, PlainStep DEF quotaVars, Inv, TypeOK, QuotaTypeOK, InPlace

(* The scope check that follows the limiter.                               *)
LEMMA PassType ==
  ASSUME TypeOK, NEW s \in Slots, At(s, "limiter"), PassLimiter(s) \/ Finish(s)
  PROVE  req' \in [Slots -> Request \cup {None}]
<1>1. req[s] # None
  BY DEF At
<1> QED
  BY <1>1, FinishType, ServeType DEF PassLimiter

LEMMA HandleStep ==
  ASSUME Inv, NEW s \in Slots, Handle(s)
  PROVE  Inv'
<1>0. /\ TypeOK /\ LimiterInv /\ QuotaInv /\ InPlace(item)
      /\ tier \in [Tenants -> Tiers] /\ keys \in [Keys -> ApiKey \cup {None}]
      /\ req \in [Slots -> Request \cup {None}] /\ item \in [Places -> Item \cup {None}]
  BY DEF Inv, TypeOK, QuotaTypeOK
<1>1. ASSUME NEW k \in Keys, NEW type \in EventTypes, NEW urls \in 1..BatchSize,
             Authenticate(s, k, type, urls)
      PROVE  Inv'
  <2>1. keys[k] \in ApiKey
    BY <1>0, <1>1 DEF Authenticate
  <2>2. req' \in [Slots -> Request \cup {None}]
    BY <1>0, <1>1, <2>1 DEF Authenticate, Request, ApiKey
  <2> QED
    BY <1>0, <1>1, <2>2, PlainStep DEF Authenticate, quotaVars, InPlace
<1>2. ASSUME NEW skew \in Skews, CheckRateLimit(s, skew)
      PROVE  Inv'
  <2>1. req[s].key \in Keys /\ req[s].rate \in Limits /\ At(s, "limiter")
    BY <1>0, <1>2, RequestParts DEF CheckRateLimit, At
  <2>2. LimiterInv'
    BY <1>0, <1>2, <2>1, ScriptStep DEF CheckRateLimit
  <2>3. req' \in [Slots -> Request \cup {None}]
    BY <1>0, <1>2, <2>1, PassType DEF CheckRateLimit
  <2>4. QuotaInv' /\ InPlace(item')
    BY <1>0, <1>2, QuietQuota DEF CheckRateLimit, quotaVars, InPlace
  <2>5. TypeOK'
    BY <1>0, <1>2, <2>2, <2>3 DEF TypeOK, LimiterInv, QuotaTypeOK, CheckRateLimit, quotaVars
  <2> QED
    BY <2>2, <2>4, <2>5 DEF Inv, InPlace
<1>3. CASE FailOpen(s)
  BY <1>0, <1>3, PassType, PlainStep DEF FailOpen, quotaVars, InPlace
<1>4. ASSUME NEW n \in 1..BatchConcurrency, BeginItem(s, n)
      PROVE  Inv'
  <2> DEFINE p == <<s, n>>
             stage == IF QuotaEnforced THEN "plan" ELSE "work"
  <2>1. /\ req[s] # None /\ req[s].at = "serving" /\ req[s].urls > 0
        /\ p \in PlacesOf(req[s].type) /\ p \in Places
        /\ stage \in {"plan", "usage", "work"}
    BY <1>4, PlacesFinite DEF BeginItem, At
  <2>2. /\ req[s] \in Request /\ req[s].tenant \in Tenants /\ req[s].type \in EventTypes
        /\ req[s].urls \in 0..BatchSize
    BY <1>0, <2>1, RequestParts
  <2>3. Put(p, stage, req[s].type, req[s].tenant, 0)
    BY <1>4 DEF BeginItem
  <2>4. /\ item' \in [Places -> Item \cup {None}] /\ item'[p].at = stage
        /\ \A r \in Places \ {p} : item'[r] = item[r]
        /\ InPlace(item')
    <3> HIDE DEF p, stage
    <3> QED
      BY <1>0, <2>1, <2>2, <2>3, PutType
  <2>5. req' \in [Slots -> Request \cup {None}]
    <3>1. [req[s] EXCEPT !.urls = @ - 1] \in Request
      BY <2>1, <2>2, AdmissionAssumption DEF Request
    <3> QED
      BY <1>0, <1>4, <3>1 DEF BeginItem
  <2>6. QuotaEnforced => \A r \in Places : Works(item', r) => item'[r] = item[r]
    BY <2>4 DEF Works
  <2> QED
    BY <1>0, <1>4, <2>4, <2>5, <2>6, PlainStep DEF BeginItem, quotaVars
<1>5. CASE EndRequest(s)
  <2>1. req' \in [Slots -> Request \cup {None}]
    BY <1>0, <1>5, FinishType DEF EndRequest
  <2>2. /\ item' \in [Places -> Item \cup {None}]
        /\ \A r \in Places : item'[r] = None \/ item'[r] = item[r]
    BY <1>0, <1>5 DEF EndRequest
  <2> QED
    BY <1>0, <1>5, <2>1, <2>2, PlainStep DEF EndRequest, quotaVars, InPlace, Works
<1> QED
  BY <1>1, <1>2, <1>3, <1>4, <1>5 DEF Handle

(* A check that lets an item go on.                                        *)
LEMMA GrantStep ==
  ASSUME Inv, NEW p \in Places, item[p] # None, NEW limit \in Nat \cup {Unlimited},
         Allows(limit, used[item[p].tenant][item[p].type]),
         Proceed(p, "work", 0), Grant(item[p].tenant, item[p].type, limit),
         UNCHANGED <<limiterVars, tier, used, keys, req>>
  PROVE  Inv'
<1>1. /\ TypeOK /\ LimiterInv /\ QuotaInv /\ InPlace(item)
      /\ item[p].tenant \in Tenants /\ item[p].type \in EventTypes
  BY ItemParts DEF Inv
<1>2. QuotaInv'
  BY <1>1, GrantQuota
<1>3. item' \in [Places -> Item \cup {None}] /\ InPlace(item')
  BY <1>1, ProceedType
<1>4. granted' \in [Tenants -> [EventTypes -> Nat \cup {Unlimited}]]
  BY <1>1, GrantType
<1>5. LimiterInv'
  BY <1>1 DEF LimiterInv, LimiterTypeOK, limiterVars
<1>6. TypeOK'
  BY <1>1, <1>3, <1>4, <1>5 DEF TypeOK, LimiterInv, QuotaTypeOK
<1> QED
  BY <1>2, <1>3, <1>5, <1>6 DEF Inv, InPlace

LEMMA ItemStep ==
  ASSUME Inv, NEW p \in Places, HandleItem(p)
  PROVE  Inv'
<1>0. /\ TypeOK /\ LimiterInv /\ QuotaInv /\ InPlace(item)
      /\ tier \in [Tenants -> Tiers] /\ keys \in [Keys -> ApiKey \cup {None}]
      /\ req \in [Slots -> Request \cup {None}]
  BY DEF Inv, TypeOK, QuotaTypeOK
<1>1. item[p] # None
  BY DEF HandleItem, ReadPlan, ReadUsage, Record, LeaveUnrecorded, ItemAt
<1>2. /\ item[p].tenant \in Tenants /\ item[p].type \in EventTypes
      /\ item[p].limit \in Nat \cup {Unlimited}
  BY <1>0, <1>1, ItemParts
<1>3. CASE ReadPlan(p)
  <2> DEFINE limit == GetLimit(item[p].tenant, item[p].type)
  <2>1. limit \in Nat \cup {Unlimited}
    BY <1>0, <1>2, QuotaAssumption DEF GetLimit
  <2>2. CASE limit = Unlimited
    <3>1. /\ Proceed(p, "work", 0) /\ Grant(item[p].tenant, item[p].type, limit)
          /\ UNCHANGED <<limiterVars, tier, used, keys, req>>
      BY <1>3, <2>2 DEF ReadPlan
    <3>2. Allows(limit, used[item[p].tenant][item[p].type])
      BY <2>2 DEF Allows
    <3> QED
      BY <1>1, <2>1, <3>1, <3>2, GrantStep
  <2>3. CASE limit # Unlimited
    <3>1. /\ Proceed(p, "usage", limit)
          /\ UNCHANGED <<limiterVars, tier, used, granted, keys, req>>
      BY <1>3, <2>3 DEF ReadPlan
    <3>2. /\ item' \in [Places -> Item \cup {None}] /\ InPlace(item')
          /\ \A r \in Places : Works(item', r) => item'[r] = item[r]
      <4> HIDE DEF limit
      <4> QED
        BY <1>0, <1>1, <2>1, <3>1, ProceedType DEF Works
    <3> QED
      BY <1>0, <3>1, <3>2, PlainStep
  <2> QED
    BY <2>2, <2>3
<1>4. CASE ReadUsage(p)
  <2>1. CASE Allows(item[p].limit, used[item[p].tenant][item[p].type])
    BY <1>1, <1>2, <1>4, <2>1, GrantStep DEF ReadUsage
  <2>2. CASE ~Allows(item[p].limit, used[item[p].tenant][item[p].type])
    <3>1. Leave(p) /\ UNCHANGED <<limiterVars, tier, used, granted, keys, req>>
      BY <1>4, <2>2 DEF ReadUsage
    <3> QED
      BY <1>0, <3>1, LeaveType, PlainStep DEF Works
  <2> QED
    BY <2>1, <2>2
<1>5. CASE Record(p)
  <2>1. QuotaInv'
    BY <1>0, <1>5, RecordQuota
  <2>2. used' \in [Tenants -> [EventTypes -> 0..MaxUsage]]
    <3>1. used \in [Tenants -> [EventTypes -> 0..MaxUsage]] /\ MaxUsage \in Nat
      BY <1>0, QuotaAssumption DEF TypeOK, QuotaTypeOK
    <3>2. used[item[p].tenant][item[p].type] + 1 \in 0..MaxUsage
      BY <1>2, <1>5, <3>1 DEF Record, RecordUsage
    <3> QED
      BY <1>2, <1>5, <3>1, <3>2 DEF Record, RecordUsage
  <2>3. LimiterInv'
    BY <1>0, <1>5 DEF LimiterInv, LimiterTypeOK, limiterVars, Record
  <2>4. item' \in [Places -> Item \cup {None}] /\ InPlace(item')
    BY <1>0, <1>5, LeaveType DEF Record
  <2>5. TypeOK'
    BY <1>0, <1>5, <2>2, <2>3, <2>4 DEF TypeOK, LimiterInv, QuotaTypeOK, Record
  <2> QED
    BY <2>1, <2>3, <2>4, <2>5 DEF Inv, InPlace
<1>6. CASE LeaveUnrecorded(p)
  BY <1>0, <1>6, LeaveType, PlainStep DEF LeaveUnrecorded, quotaVars, Works
<1> QED
  BY <1>3, <1>4, <1>5, <1>6 DEF HandleItem

LEMMA EnvironmentStep ==
  ASSUME Inv, Environment, UNCHANGED <<keys, req, item>>
  PROVE  Inv'
<1>1. CASE Tick /\ UNCHANGED quotaVars
  <2>1. LimiterInv'
    BY <1>1, RateLimiterAssumption DEF Inv, LimiterInv, LimiterTypeOK, Tick
  <2>2. QuotaInv'
    BY <1>1, QuietQuota DEF Inv, quotaVars
  <2>3. TypeOK'
    BY <1>1, <2>1 DEF Inv, TypeOK, LimiterInv, QuotaTypeOK, quotaVars
  <2> QED
    BY <2>1, <2>2, <2>3 DEF Inv, InPlace
<1>2. CASE NewMonth /\ UNCHANGED limiterVars
  <2>1. LimiterInv'
    BY <1>2 DEF Inv, LimiterInv, LimiterTypeOK, limiterVars
  <2>2. QuotaInv'
    BY <1>2, MonthQuota DEF Inv
  <2>3. TypeOK'
    BY <1>2, <2>1, QuotaAssumption DEF Inv, TypeOK, LimiterInv, QuotaTypeOK, NewMonth
  <2> QED
    BY <2>1, <2>2, <2>3 DEF Inv, InPlace
<1>3. ASSUME NEW t \in Tenants, NEW to \in Tiers, ChangePlan(t, to), UNCHANGED limiterVars
      PROVE  Inv'
  BY <1>3, PlainStep DEF ChangePlan, Inv, TypeOK, QuotaTypeOK, InPlace
<1> QED
  BY <1>1, <1>2, <1>3 DEF Environment

-----------------------------------------------------------------------------
(* Requests, buckets and counters are what the steps of the routes rely    *)
(* on, however they overlap.                                               *)
THEOREM AdmissionInvariance == Spec => []Inv
<1>1. Init => Inv
  <2> SUFFICES ASSUME Init PROVE Inv
    OBVIOUS
  <2>1. TypeOK
    BY RateLimiterAssumption, QuotaAssumption
    DEF Init, LimiterInit, QuotaInit, TypeOK, LimiterTypeOK, QuotaTypeOK, Trace, Tiers
  <2>2. LimiterInv
    BY <2>1 DEF Init, LimiterInit, TypeOK, LimiterInv, BucketOK, LivesLong, Fresh, BoundOf
  <2>3. \A p \in Places : item[p] = None
    BY DEF Init
  <2>4. InPlace(item) /\ WorkGranted(item, granted)
    BY <2>3 DEF InPlace, WorkGranted, Works
  <2>5. ASSUME NEW t \in Tenants, NEW type \in EventTypes
        PROVE  Within(item, used, granted, t, type)
    <3>1. AdmittedIn(item, t, type) = {} /\ Cardinality({}) = 0
      BY <2>3, PlacesFinite, FS_EmptySet DEF AdmittedIn, Works
    <3>2. used[t][type] = 0 /\ granted[t][type] = 0
      BY DEF Init, QuotaInit
    <3>3. Cardinality(AdmittedIn(item, t, type)) = 0
      BY <3>1
    <3> QED
      BY <3>2, <3>3, AdmittedFinite DEF Within
  <2> QED
    BY <2>1, <2>2, <2>4, <2>5 DEF Inv, QuotaInv
<1>2. Inv /\ [Next]_vars => Inv'
  <2> SUFFICES ASSUME Inv, [Next]_vars PROVE Inv'
    OBVIOUS
  <2>1. CASE UNCHANGED vars
    BY <2>1, PlainStep DEF vars, quotaVars, Inv, TypeOK, QuotaTypeOK, InPlace
  <2>2. CASE Next
    BY <2>2, AdminStep, HandleStep, ItemStep, EnvironmentStep DEF Next
  <2> QED
    BY <2>1, <2>2
<1> QED
  BY <1>1, <1>2, PTL DEF Spec

(* Keys, requests, items, buckets and counters have their shape.           *)
THEOREM AdmissionTypeCorrect == Spec => []TypeOK
BY AdmissionInvariance, PTL DEF Inv

(* A bucket lets through one full bucket and what refills while the stamps *)
(* of the replicas move forward (check_rate_limit).                        *)
THEOREM BucketsAreBounded == Spec => []BucketBound
<1>1. Inv => BucketBound
  BY DEF Inv, LimiterInv, BucketOK, BoundOf, Top, BucketBound
<1> QED
  BY <1>1, AdmissionInvariance, PTL

(* A month ends above the highest limit granted by less than the items     *)
(* that can be in progress at one time: the requests for searches, the     *)
(* requests times _BATCH_CONCURRENCY for ingestion (enforce_quota,         *)
(* record_usage, batch_ingest).                                            *)
THEOREM QuotasAreOvershotByLess == Spec => []QuotaOvershoot
<1>1. Inv => QuotaOvershoot
  <2> SUFFICES ASSUME Inv PROVE QuotaOvershoot
    OBVIOUS
  <2>1. \A t, type : Admitted(t, type) = AdmittedIn(item, t, type)
    BY PlacesFinite DEF Inv, InPlace, Admitted, AdmittedIn, ItemAt, Works
  <2> QED
    BY <2>1 DEF Inv, QuotaInv, Within, QuotaOvershoot
<1> QED
  BY <1>1, AdmissionInvariance, PTL
=============================================================================
