---------------------------- MODULE RateCounter ----------------------------
(* What a counter of requests promises: an increment is one step, and the  *)
(* window, when it ends, forgets them all.  It is what                     *)
(* CacheBackend::incr_with_expire offers (crates/cache/src/backend.rs:29), *)
(* and what RateLimiter::check compares with its maximum.                  *)
EXTENDS Naturals

CONSTANT Call           \* calls of incr_with_expire on one key, with delta = 1

VARIABLES
  count,                \* increments in this window
  answer                \* what each call returned; 0 before that

counterVars == <<count, answer>>

CounterInit ==
  /\ count  = 0
  /\ answer = [c \in Call |-> 0]

Increment(c) ==
  /\ answer[c] = 0
  /\ count'  = count + 1
  /\ answer' = [answer EXCEPT ![c] = count + 1]

WindowEnds ==
  /\ count' = 0
  /\ UNCHANGED answer

CounterNext == WindowEnds \/ \E c \in Call : Increment(c)

CounterSpec == CounterInit /\ [][CounterNext]_counterVars
=============================================================================
