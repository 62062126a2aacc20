----------------------------- MODULE Admission -----------------------------
(***************************************************************************)
(* A metered request with an API key (api/auth.py, POST /search and the    *)
(* ingestion routes): the key is looked up, a token is taken from its      *)
(* bucket and the scope is checked.  Then each item of it, the only one or *)
(* one URL of a batch, passes the quota of the tenant, is worked on and    *)
(* recorded; a batch is one request and works on several items at once.    *)
(* Administrators change and remove keys meanwhile (api/routes/admin.py,   *)
(* services/api_key_service.py).                                           *)
(***************************************************************************)
EXTENDS RateLimiter, Quota

CONSTANTS
  Slots,             \* the requests in progress
  BatchConcurrency,  \* _BATCH_CONCURRENCY, the items of a batch at one time
  BatchSize,         \* the most URLs of a batch
  KeyScopes          \* the sets of scopes that keys are given

VARIABLES
  keys,  \* the API keys: tenant, limit, scopes, enabled
  req,   \* the requests in progress
  item   \* the items in progress, by request and place in its semaphore

vars == <<limiterVars, quotaVars, keys, req, item>>

ApiKey == [tenant : Tenants, limit : Limits, scopes : KeyScopes, enabled : BOOLEAN]

(* A request knows its key until it has passed the limiter, then how many  *)
(* items it has yet to begin.                                              *)
Request ==
  [at : {"limiter"}, type : EventTypes, tenant : Tenants, urls : 1..BatchSize,
   key : Keys, rate : Limits, scopes : KeyScopes]
  \cup
  [at : {"serving"}, type : EventTypes, tenant : Tenants, urls : 0..BatchSize]

(* An item keeps the limit of the plan it has read while it reads the      *)
(* usage.                                                                  *)
Item ==
  [at : {"plan", "usage", "work"}, type : EventTypes, tenant : Tenants,
   limit : Nat \cup {Unlimited}]

Places == Slots \X (1..BatchConcurrency)

(* Where items of a type may be in progress: a search is a single item.    *)
PlacesOf(type) == IF type = "search" THEN Slots \X {1} ELSE Places

MostItems(type) == Cardinality(Slots) * (IF type = "search" THEN 1 ELSE BatchConcurrency)

ASSUME AdmissionAssumption ==
  /\ IsFiniteSet(Slots) /\ Slots # {}
  /\ BatchConcurrency \in Nat \ {0} /\ BatchSize \in Nat \ {0}
  /\ EventTypes \subseteq {"ingest", "search"}
  /\ \A scopes \in KeyScopes : scopes \subseteq {"read", "ingest", "admin"}
  /\ None \notin ApiKey \cup Request \cup Item

RequiredScope(type) == IF type = "search" THEN "read" ELSE "ingest"

KeyHasScope(scopes, required) ==
  scopes = {} \/ "admin" \in scopes \/ required \in scopes

At(s, stage) == req[s] # None /\ req[s].at = stage

Finish(s) == req' = [req EXCEPT ![s] = None]

(* The dependencies of the route are done.                                 *)
Serve(s) ==
  req' = [req EXCEPT ![s] =
    [at |-> "serving", type |-> req[s].type, tenant |-> req[s].tenant, urls |-> req[s].urls]]

ItemAt(p, stage) == item[p] # None /\ item[p].at = stage

Put(p, stage, type, t, limit) ==
  item' = [item EXCEPT ![p] = [at |-> stage, type |-> type, tenant |-> t, limit |-> limit]]

Proceed(p, stage, limit) == Put(p, stage, item[p].type, item[p].tenant, limit)

Leave(p) == item' = [item EXCEPT ![p] = None]

-----------------------------------------------------------------------------
(* A new key is random: no bucket and no request is of it.                 *)
Unused(k) ==
  keys[k] = None /\ bucket[k] = None /\ \A s \in Slots : At(s, "limiter") => req[s].key # k

CreateKey(k, t, limit, scopes) ==
  /\ Unused(k)
  /\ keys' = [keys EXCEPT ![k] =
       [tenant |-> t, limit |-> limit, scopes |-> scopes, enabled |-> TRUE]]
  /\ UNCHANGED <<limiterVars, quotaVars, req, item>>

UpdateKey(k, limit, scopes, enabled) ==
  /\ keys[k] # None
  /\ keys' = [keys EXCEPT ![k].limit = limit, ![k].scopes = scopes, ![k].enabled = enabled]
  /\ UNCHANGED <<limiterVars, quotaVars, req, item>>

DeleteKey(k) ==
  /\ keys[k] # None
  /\ keys' = [keys EXCEPT ![k] = None]
  /\ UNCHANGED <<limiterVars, quotaVars, req, item>>

-----------------------------------------------------------------------------
(* get_api_key finds enabled keys only.                                    *)
Authenticate(s, k, type, urls) ==
  /\ req[s] = None
  /\ keys[k] # None /\ keys[k].enabled
  /\ type = "search" => urls = 1
  /\ req' = [req EXCEPT ![s] =
       [at |-> "limiter", type |-> type, tenant |-> keys[k].tenant, urls |-> urls,
        key |-> k, rate |-> keys[k].limit, scopes |-> keys[k].scopes]]
  /\ UNCHANGED <<limiterVars, quotaVars, keys, item>>

(* The scope is checked on what was looked up.                             *)
PassLimiter(s) ==
  IF KeyHasScope(req[s].scopes, RequiredScope(req[s].type)) THEN Serve(s) ELSE Finish(s)

CheckRateLimit(s, skew) ==
  /\ At(s, "limiter")
  /\ RunScript(req[s].key, req[s].rate, now + skew)
  /\ IF Allowed(req[s].key, req[s].rate, now + skew) THEN PassLimiter(s) ELSE Finish(s)
  /\ UNCHANGED <<quotaVars, keys, item>>

(* Redis is away: the limiter lets the request through.                    *)
FailOpen(s) ==
  /\ At(s, "limiter")
  /\ PassLimiter(s)
  /\ UNCHANGED <<limiterVars, quotaVars, keys, item>>

(* The next item enters the semaphore (the route itself, unless a batch)   *)
(* and gets as far as enforce_quota, which does nothing without the flag.  *)
BeginItem(s, n) ==
  /\ At(s, "serving") /\ req[s].urls > 0
  /\ <<s, n>> \in PlacesOf(req[s].type)
  /\ item[<<s, n>>] = None
  /\ req' = [req EXCEPT ![s].urls = @ - 1]
  /\ Put(<<s, n>>, IF QuotaEnforced THEN "plan" ELSE "work", req[s].type, req[s].tenant, 0)
  /\ UNCHANGED <<limiterVars, quotaVars, keys>>

(* get_quota_check: a plan without a limit needs no usage.                 *)
ReadPlan(p) ==
  LET limit == GetLimit(item[p].tenant, item[p].type)
  IN  /\ ItemAt(p, "plan")
      /\ IF limit = Unlimited
         THEN Proceed(p, "work", 0) /\ Grant(item[p].tenant, item[p].type, limit)
         ELSE Proceed(p, "usage", limit) /\ UNCHANGED granted
      /\ UNCHANGED <<limiterVars, tier, used, keys, req>>

ReadUsage(p) ==
  LET i == item[p]
  IN  /\ ItemAt(p, "usage")
      /\ IF Allows(i.limit, used[i.tenant][i.type])
         THEN /\ Proceed(p, "work", 0)
              /\ Grant(i.tenant, i.type, i.limit)
         ELSE Leave(p) /\ UNCHANGED granted
      /\ UNCHANGED <<limiterVars, tier, used, keys, req>>

(* record_usage after the work on an item.                                 *)
Record(p) ==
  /\ ItemAt(p, "work")
  /\ RecordUsage(item[p].tenant, item[p].type)
  /\ Leave(p)
  /\ UNCHANGED <<limiterVars, tier, granted, keys, req>>

(* The item fails, is a duplicate, or record_usage swallows an error:      *)
(* nothing is recorded, and a batch goes on with its other items.          *)
LeaveUnrecorded(p) ==
  /\ item[p] # None
  /\ Leave(p)
  /\ UNCHANGED <<limiterVars, quotaVars, keys, req>>

(* The response, or the end of the API process with all its items.         *)
EndRequest(s) ==
  /\ req[s] # None
  /\ Finish(s)
  /\ item' = [p \in Places |-> IF p[1] = s THEN None ELSE item[p]]
  /\ UNCHANGED <<limiterVars, quotaVars, keys>>

-----------------------------------------------------------------------------
Init ==
  /\ LimiterInit
  /\ QuotaInit
  /\ keys = [k \in Keys |-> None]
  /\ req = [s \in Slots |-> None]
  /\ item = [p \in Places |-> None]

AdminRequest(k) ==
  \/ DeleteKey(k)
  \/ \E limit \in Limits, scopes \in KeyScopes :
       \/ \E t \in Tenants : CreateKey(k, t, limit, scopes)
       \/ \E enabled \in BOOLEAN : UpdateKey(k, limit, scopes, enabled)

Handle(s) ==
  \/ \E k \in Keys, type \in EventTypes, urls \in 1..BatchSize :
       Authenticate(s, k, type, urls)
  \/ \E skew \in Skews : CheckRateLimit(s, skew)
  \/ FailOpen(s)
  \/ \E n \in 1..BatchConcurrency : BeginItem(s, n)
  \/ EndRequest(s)

HandleItem(p) == ReadPlan(p) \/ ReadUsage(p) \/ Record(p) \/ LeaveUnrecorded(p)

Environment ==
  \/ Tick /\ UNCHANGED quotaVars
  \/ NewMonth /\ UNCHANGED limiterVars
  \/ \E t \in Tenants, to \in Tiers : ChangePlan(t, to) /\ UNCHANGED limiterVars

Next ==
  \/ \E k \in Keys : AdminRequest(k)
  \/ \E s \in Slots : Handle(s)
  \/ \E p \in Places : HandleItem(p)
  \/ Environment /\ UNCHANGED <<keys, req, item>>

Spec == Init /\ [][Next]_vars

-----------------------------------------------------------------------------
(* Keys, requests, items, buckets and counters have their shape.           *)
TypeOK ==
  /\ LimiterTypeOK
  /\ QuotaTypeOK
  /\ keys \in [Keys -> ApiKey \cup {None}]
  /\ req \in [Slots -> Request \cup {None}]
  /\ item \in [Places -> Item \cup {None}]

(* The items that have passed the check and may still be recorded.         *)
Admitted(t, type) ==
  {p \in Places : ItemAt(p, "work") /\ item[p].tenant = t /\ item[p].type = type}

(* With the quota on, a month never ends more than the items that can be   *)
(* in progress at one time, less one, above the highest limit that was     *)
(* granted.  These are as many as the requests for searches, and as many   *)
(* as the requests times the concurrency of a batch for ingestion.  So it  *)
(* is however checks and records interleave, across a change of plan and   *)
(* across the end of a month (batch_ingest, enforce_quota, record_usage).  *)
QuotaOvershoot ==
  QuotaEnforced =>
    \A t \in Tenants, type \in EventTypes :
      granted[t][type] # Unlimited =>
        used[t][type] + Cardinality(Admitted(t, type))
          <= granted[t][type] + MostItems(type) - 1
=============================================================================
