----------------------------- MODULE RateLimit -----------------------------
(***************************************************************************)
(* The rate limiter, crates/cache/src/rate_cache.rs, over the counter of   *)
(* the backend that connect (crates/cache/src/connection.rs) settled on    *)
(* when the server started: Redis if the url names one that answers within *)
(* three seconds, and the memory of the process otherwise.  The choice is  *)
(* for good; the calls are those of the requests that one key limits.      *)
(***************************************************************************)
EXTENDS MemoryWindow

CONSTANT RedisUrl   \* whether the configured url names a Redis server

ASSUME RateConstants ==
  /\ Window \in Nat \ {0} /\ Max \in Nat /\ Horizon \in Nat
  /\ RedisUrl \in BOOLEAN
  /\ None \notin Entry

VARIABLES
  backend,            \* CacheStore.backend
  count, expiring     \* of the Redis backend, which shares at and answer

memoryOnly == <<clock, entry, now, fresh, counted, window, overlapped>>
redisOnly  == <<count, expiring>>
vars       == <<backend, at, answer, memoryOnly, redisOnly>>

Redis == INSTANCE RedisWindow

(* No url, or "memory" or "none": memory at once.  Otherwise Redis, unless *)
(* it refuses or does not answer in time.                                  *)
Connect == IF RedisUrl THEN {"redis", "memory"} ELSE {"memory"}

RateInit ==
  /\ backend \in Connect
  /\ MemInit
  /\ Redis!RedisInit

RateNext ==
  \/ backend = "memory" /\ MemNext /\ UNCHANGED <<backend, redisOnly>>
  \/ backend = "redis" /\ Redis!RedisNext /\ UNCHANGED <<backend, memoryOnly>>

RateSpec == RateInit /\ [][RateNext]_vars

(* The second command of a call is sent, and the server expires keys.      *)
FairRateSpec ==
  /\ RateSpec
  /\ WF_vars(backend = "redis" /\ Redis!KeyExpires /\ UNCHANGED <<backend, memoryOnly>>)
  /\ \A c \in Call :
       WF_vars(backend = "redis" /\ Redis!SetExpiry(c) /\ UNCHANGED <<backend, memoryOnly>>)

-----------------------------------------------------------------------------
RateTypeOK ==
  /\ backend \in {"memory", "redis"}
  /\ backend = "memory" => MemTypeOK
  /\ backend = "redis" => Redis!RedisTypeOK

(* "Atomic increment and window" (backend.rs:29): on Redis the counter is  *)
(* that of RateCounter, whatever overlaps and whatever fails, so no        *)
(* increment of two calls that overlap is lost.  The memory backend does   *)
(* not offer it and is mapped to a counter at rest.                        *)
Counter == INSTANCE RateCounter WITH
            count  <- IF backend = "redis" THEN count ELSE 0,
            answer <- [c \in Call |-> IF backend = "redis" THEN answer[c] ELSE 0]

ImplementsRateCounter == Counter!CounterSpec

(* A Redis window ends, unless the call that owed EXPIRE has failed.       *)
EveryWindowEnds == Redis!EveryWindowEnds
=============================================================================
