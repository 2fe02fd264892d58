---------------------------- MODULE MemoryWindow ----------------------------
(***************************************************************************)
(* incr_with_expire of the memory backend, crates/cache/src/memory.rs, on  *)
(* one key.  DashMap locks the shard of a key in each of remove_if,        *)
(* contains_key and entry, and not between them: these are the steps of a  *)
(* call.  The entry guard is held to the end, so the write is one step.    *)
(* The clock is read once, before the first of them.                       *)
(*                                                                         *)
(* RateLimiter::check (rate_cache.rs) calls it with delta = 1 and admits   *)
(* the request when the answer is at most its maximum.                     *)
(***************************************************************************)
EXTENDS Integers, FiniteSets

CONSTANTS
  Call,         \* calls, of as many tasks
  Window,       \* length of the window, in ticks
  Max,          \* requests that the limiter admits in a window (chat: 60)
  Horizon,      \* bound on the clock
  None          \* no entry

Entry == [value : Nat, expires : Nat]

VARIABLES
  clock,        \* Instant::now()
  entry,        \* the entry of the key
  at,           \* where each call stands
  now,          \* the time each call has read
  fresh,        \* is_new_window of each call
  answer,       \* what each call returned; 0 before that
  counted,      \* [call, time] of the increments the entry holds (history)
  window,       \* calls that counted since an entry last expired (history)
  overlapped    \* calls during which another ran (history)

memVars == <<clock, entry, at, now, fresh, answer, counted, window, overlapped>>

MemInit ==
  /\ clock   = 0
  /\ entry   = None
  /\ at      = [c \in Call |-> "idle"]
  /\ now     = [c \in Call |-> 0]
  /\ fresh   = [c \in Call |-> FALSE]
  /\ answer  = [c \in Call |-> 0]
  /\ counted = {}
  /\ window  = {}
  /\ overlapped = {}

Tick ==
  /\ clock < Horizon
  /\ clock' = clock + 1
  /\ UNCHANGED <<entry, at, now, fresh, answer, counted, window, overlapped>>

Running == {c \in Call : at[c] \in {"purge", "probe", "count"}}

Begin(c) ==
  /\ at[c] = "idle"
  /\ at'  = [at EXCEPT ![c] = "purge"]
  /\ now' = [now EXCEPT ![c] = clock]
  /\ overlapped' = IF Running = {} THEN overlapped ELSE overlapped \cup Running \cup {c}
  /\ UNCHANGED <<clock, entry, fresh, answer, counted, window>>

IsExpired(c) == entry # None /\ now[c] >= entry.expires

(* remove_if: an expired entry goes, and the window is known to be new.    *)
Purge(c) ==
  /\ at[c] = "purge"
  /\ \/ /\ IsExpired(c)
        /\ entry'   = None
        /\ counted' = {}
        /\ window'  = {}
        /\ fresh'   = [fresh EXCEPT ![c] = TRUE]
        /\ at'      = [at EXCEPT ![c] = "count"]
     \/ /\ ~IsExpired(c)
        /\ at' = [at EXCEPT ![c] = "probe"]
        /\ UNCHANGED <<entry, fresh, counted, window>>
  /\ UNCHANGED <<clock, now, answer, overlapped>>

(* contains_key.                                                           *)
Probe(c) ==
  /\ at[c] = "probe"
  /\ fresh' = [fresh EXCEPT ![c] = (entry = None)]
  /\ at'    = [at EXCEPT ![c] = "count"]
  /\ UNCHANGED <<clock, entry, now, answer, counted, window, overlapped>>

StartsWindow(c) == fresh[c] \/ entry = None

(* Wrong: every increment prolongs the window.                             *)
CountSliding(c) ==
  /\ at[c] = "count"
  /\ entry'   = [value |-> IF StartsWindow(c) THEN 1 ELSE entry.value + 1,
                 expires |-> now[c] + Window]
  /\ answer'  = [answer EXCEPT ![c] = entry'.value]
  /\ counted' = (IF StartsWindow(c) THEN {} ELSE counted) \cup {<<c, clock>>}
  /\ window' = window \cup {c}
  /\ at' = [at EXCEPT ![c] = "done"]
  /\ UNCHANGED <<clock, now, fresh, overlapped>>

(* Wrong: an increment is answered with the count before it.               *)
CountAnsweringBefore(c) ==
  /\ at[c] = "count"
  /\ entry'   = [value |-> IF StartsWindow(c) THEN 1 ELSE entry.value + 1,
                 expires |-> IF StartsWindow(c) THEN now[c] + Window ELSE entry.expires]
  /\ answer'  = [answer EXCEPT ![c] = entry'.value - 1]
  /\ counted' = (IF StartsWindow(c) THEN {} ELSE counted) \cup {<<c, clock>>}
  /\ window' = window \cup {c}
  /\ at' = [at EXCEPT ![c] = "done"]
  /\ UNCHANGED <<clock, now, fresh, overlapped>>

(* entry().or_insert(), and the write under its guard.  A call that holds  *)
(* the window for new writes 1 over whatever is there by now.              *)
Count(c) ==
  /\ at[c] = "count"
  /\ \/ /\ StartsWindow(c)
        /\ entry'   = [value |-> 1, expires |-> now[c] + Window]
        /\ answer'  = [answer EXCEPT ![c] = 1]
        /\ counted' = {<<c, clock>>}
     \/ /\ ~StartsWindow(c)
        /\ entry'   = [value |-> entry.value + 1, expires |-> entry.expires]
        /\ answer'  = [answer EXCEPT ![c] = entry.value + 1]
        /\ counted' = counted \cup {<<c, clock>>}
  /\ window' = window \cup {c}
  /\ at' = [at EXCEPT ![c] = "done"]
  /\ UNCHANGED <<clock, now, fresh, overlapped>>

(* RateLimiter::check; the middleware turns the others away.  The memory   *)
(* backend returns no error, so the middleware's "let it through" on one   *)
(* is not reached from here.                                               *)
Admits(c) == at[c] = "done" /\ answer[c] <= Max

Step(c) == Begin(c) \/ Purge(c) \/ Probe(c) \/ Count(c)

MemNext == Tick \/ \E c \in Call : Step(c)

MemSpec == MemInit /\ [][MemNext]_memVars

-----------------------------------------------------------------------------
MemTypeOK ==
  /\ clock   \in 0..Horizon
  /\ entry   \in Entry \cup {None}
  /\ at      \in [Call -> {"idle", "purge", "probe", "count", "done"}]
  /\ now     \in [Call -> 0..Horizon]
  /\ fresh   \in [Call -> BOOLEAN]
  /\ answer  \in [Call -> Nat]
  /\ counted \subseteq Call \X (0..Horizon)
  /\ window  \subseteq Call
  /\ overlapped \subseteq Call

(* The value of the entry is the number of increments it holds, and none   *)
(* of them is older than its window, however the calls overlap: a request  *)
(* may be let through too easily, but it is not refused for requests that  *)
(* have left the window.                                                   *)
CountsOnlyTheWindow ==
  /\ entry = None => counted = {}
  /\ entry # None => /\ entry.value = Cardinality(counted)
                     /\ \A w \in counted : w[2] >= entry.expires - Window

(* The limiter lets at most Max of the requests of a window through, not   *)
(* counting those that overlapped another.  When two calls find no entry,  *)
(* the second starts the count again, and an answer given twice admits     *)
(* twice, so far from "atomic increment and window" (backend.rs:29); but   *)
(* calls that overlap never take back the count of one that ran alone.     *)
AtMostMaxAdmitted == Cardinality({c \in window \ overlapped : Admits(c)}) <= Max
=============================================================================
