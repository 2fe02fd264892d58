---------------------------- MODULE RedisWindow ----------------------------
(***************************************************************************)
(* incr_with_expire of the Redis backend, crates/cache/src/                *)
(* redis_backend.rs, on one key: INCR is one command, EXPIRE another, sent *)
(* only by the call whose increment made the key.  The server runs one     *)
(* command at a time; the connection may fail at either await, with the    *)
(* command applied or not.                                                 *)
(***************************************************************************)
EXTENDS Naturals

CONSTANT Call  \* calls, of any process that shares the server

VARIABLES
  count,        \* value of the key; 0 when there is none
  expiring,     \* the key has a time to live
  at,           \* where each call stands
  answer        \* what the server answered to INCR, read or lost; 0 before that

redisVars == <<count, expiring, at, answer>>

RedisInit ==
  /\ count    = 0
  /\ expiring = FALSE
  /\ at       = [c \in Call |-> "idle"]
  /\ answer   = [c \in Call |-> 0]

(* Wrong: the window is set by the second increment.                       *)
OpensWindowLate(n) == n = 2

(* count == delta.abs() || count == 1, with delta = 1.                     *)
OpensWindow(n) == n = 1

(* Wrong: the key is read and then set.                                    *)
IncrBySetting(c) ==
  /\ at[c] = "idle"
  /\ count' = 1
  /\ answer' = [answer EXCEPT ![c] = 1]
  /\ at'     = [at EXCEPT ![c] = "expire"]
  /\ UNCHANGED expiring

Incr(c) ==
  /\ at[c] = "idle"
  /\ count'  = count + 1
  /\ answer' = [answer EXCEPT ![c] = count + 1]
  /\ at'     = [at EXCEPT ![c] = IF OpensWindow(count + 1) THEN "expire" ELSE "done"]
  /\ UNCHANGED expiring

(* EXPIRE of a key that is gone does nothing.                              *)
SetExpiry(c) ==
  /\ at[c] = "expire"
  /\ expiring' = (count # 0)
  /\ at'       = [at EXCEPT ![c] = "done"]
  /\ UNCHANGED <<count, answer>>

(* The connection fails before INCR is applied, or after it and before     *)
(* EXPIRE is: the error leaves the call, and the middleware lets the       *)
(* request through.                                                        *)
Fail(c) ==
  /\ at[c] \in {"idle", "expire"}
  /\ at' = [at EXCEPT ![c] = "failed"]
  /\ UNCHANGED <<count, expiring, answer>>

(* The server removes a key whose time has come.                           *)
KeyExpires ==
  /\ expiring
  /\ count'    = 0
  /\ expiring' = FALSE
  /\ UNCHANGED <<at, answer>>

RedisNext ==
  \/ KeyExpires
  \/ \E c \in Call : Incr(c) \/ SetExpiry(c) \/ Fail(c)

RedisSpec == RedisInit /\ [][RedisNext]_redisVars

(* The second command of a call is sent, and the server expires keys.      *)
FairRedisSpec ==
  /\ RedisSpec
  /\ WF_redisVars(KeyExpires)
  /\ \A c \in Call : WF_redisVars(SetExpiry(c))

-----------------------------------------------------------------------------
RedisTypeOK ==
  /\ count    \in Nat
  /\ expiring \in BOOLEAN
  /\ at       \in [Call -> {"idle", "expire", "done", "failed"}]
  /\ answer   \in [Call -> Nat]
  /\ expiring => count > 0

(* The window of a counter ends.  EXPIRE is owed by one call only: when    *)
(* that call has failed, the key counts for ever and its owner stays over  *)
(* the limit.                                                              *)
EveryWindowEnds ==
  count > 0 ~> count = 0 \/ \E c \in Call : at[c] = "failed" /\ OpensWindow(answer[c])
=============================================================================
