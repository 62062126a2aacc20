---------------------------- MODULE RateLimiter ----------------------------
(***************************************************************************)
(* The token bucket of an API key (services/rate_limiter.py): a Lua script *)
(* that Redis runs atomically on a hash that expires.  The time comes from *)
(* the API replica that asks, whose clock may run ahead.                   *)
(*                                                                         *)
(* A minute has MinuteTicks ticks and a token as many parts, so that a key *)
(* with a limit refills by limit parts in each tick.                       *)
(***************************************************************************)
EXTENDS Integers

CONSTANTS
  Keys,         \* the API keys
  Limits,       \* the requests per minute that keys may have
  MinuteTicks,
  Skews,        \* by how much the clock of a replica may run ahead
  MaxTime,      \* bound: the last instant
  MaxSpan,      \* bound: how far the stamps of one bucket move forward
  None          \* no bucket, no key

VARIABLES
  now,     \* the time of Redis
  bucket,  \* tokens, last_refill and the expiry of each hash, or None
  trace    \* the requests let through by each bucket, and how far its
           \* stamps have moved forward in all (auxiliary)

Bucket == [tokens : Nat, last : Nat, expires : Nat]

Trace == [spent : Nat, span : Nat]

ASSUME RateLimiterAssumption ==
  /\ MinuteTicks \in Nat \ {0}
  /\ Limits \subseteq Nat \ {0}
  /\ Skews \subseteq 0..MinuteTicks
  /\ MaxTime \in Nat /\ MaxSpan \in Nat
  /\ None \notin Bucket

limiterVars == <<now, bucket, trace>>

AtMost(a, b) == IF a < b THEN a ELSE b

Ttl_Short == MinuteTicks \div 2

(* 120 seconds                                                             *)
Ttl == 2 * MinuteTicks

(* A hash that is there: one that has expired counts as missing.           *)
Held(k) == bucket[k] # None /\ now < bucket[k].expires

(* The tokens before this request: a missing bucket starts full.           *)
Refilled(k, limit, stamp) ==
  IF Held(k)
  THEN LET elapsed == IF stamp > bucket[k].last THEN stamp - bucket[k].last ELSE 0
       IN  AtMost(limit * MinuteTicks, bucket[k].tokens + elapsed * limit)
  ELSE limit * MinuteTicks

Allowed_AtZero(k, limit, stamp) == Refilled(k, limit, stamp) >= 0

Allowed(k, limit, stamp) == Refilled(k, limit, stamp) >= MinuteTicks

(* One run of the script: it takes a token when there is one, and sets     *)
(* last_refill and the expiry in any case.                                 *)
RunScript(k, limit, stamp) ==
  LET tokens == Refilled(k, limit, stamp)
      allowed == Allowed(k, limit, stamp)
      forward == IF bucket[k] # None /\ stamp > bucket[k].last
                 THEN stamp - bucket[k].last ELSE 0
  IN  /\ trace[k].span + forward <= MaxSpan
      /\ bucket' = [bucket EXCEPT ![k] =
           [tokens |-> IF allowed THEN tokens - MinuteTicks ELSE tokens,
            last |-> stamp, expires |-> now + Ttl]]
      /\ trace' = [trace EXCEPT ![k].spent = IF allowed THEN @ + 1 ELSE @,
                                ![k].span = @ + forward]
      /\ UNCHANGED now

Tick ==
  /\ now < MaxTime
  /\ now' = now + 1
  /\ UNCHANGED <<bucket, trace>>

LimiterInit ==
  /\ now = 0
  /\ bucket = [k \in Keys |-> None]
  /\ trace = [k \in Keys |-> [spent |-> 0, span |-> 0]]

LimiterTypeOK ==
  /\ now \in 0..MaxTime
  /\ bucket \in [Keys -> Bucket \cup {None}]
  /\ trace \in [Keys -> Trace]

(* However the requests of a key come, over how many replicas, however     *)
(* often the hash expires and whatever becomes of the limit, a bucket lets *)
(* through one full bucket and what refills while the stamps move forward; *)
(* what a replica whose clock lags takes back is refilled twice, but never *)
(* more (the script, check_rate_limit).                                    *)
BucketBound ==
  \A k \in Keys, top \in Limits : bucket[k] # None /\ (\A l \in Limits : l <= top) =>
    trace[k].spent * MinuteTicks + bucket[k].tokens
      <= top * (MinuteTicks + trace[k].span)
=============================================================================
