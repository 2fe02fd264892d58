-------------------------- MODULE RateLimitProofs --------------------------
(* Proofs about the rate limiter, for any number of calls, any window and  *)
(* any maximum.                                                            *)
EXTENDS RateLimit, FiniteSetTheorems, TLAPS

MemoryAtRest == entry = None /\ counted = {} /\ window = {}

(* A call reads the clock once, and the entry ends a window after that.    *)
Punctual ==
  /\ \A c \in Call : now[c] <= clock
  /\ entry # None => entry.expires <= clock + Window

(* What the entry counts.                                                  *)
Counts ==
  /\ IsFiniteSet(counted)
  /\ \A w \in counted : at[w[1]] = "done"
  /\ CountsOnlyTheWindow

(* Calls that have run alone so far.  Two that run at a time both overlap; *)
(* a call starts the count again only where nobody who ran alone has been  *)
(* counted; and the answers those were given in a window are all different.*)
Alone == window \ overlapped

Sequential ==
  /\ \A c, d \in Running : c # d => c \in overlapped
  /\ \A c \in Call : at[c] = "count" /\ fresh[c] => Alone = {}
  /\ entry = None => window = {}
  /\ \A c \in window : at[c] = "done"
  /\ \A c \in Alone : answer[c] \in 1..entry.value
  /\ \A c, d \in Alone : answer[c] = answer[d] => c = d

MemInv == MemTypeOK /\ Punctual /\ Counts /\ Sequential

(* A key that nobody will let expire: the call whose increment made it has *)
(* not sent EXPIRE yet, or has failed.                                     *)
ExpiryIsOwed ==
  count > 0 /\ ~expiring =>
    \E c \in Call : at[c] \in {"expire", "failed"} /\ Redis!OpensWindow(answer[c])

RedisInv ==
  /\ Redis!RedisTypeOK
  /\ \A c \in Call : at[c] = "idle" => answer[c] = 0
  /\ ExpiryIsOwed

RateInv ==
  /\ backend \in {"memory", "redis"}
  /\ backend = "memory" => MemInv
  /\ backend = "redis" => RedisInv /\ MemoryAtRest

-----------------------------------------------------------------------------
(* The memory backend.                                                     *)

(* It holds at the start, where there is nothing.                          *)
LEMMA MemInitInv == MemInit => MemInv /\ MemoryAtRest
<1> SUFFICES ASSUME MemInit PROVE MemInv /\ MemoryAtRest
  OBVIOUS
<1>1. MemTypeOK
  <2>1. 0 \in 0..Horizon
    BY RateConstants
  <2> QED
    BY <2>1 DEF MemInit, MemTypeOK
<1>2. Punctual
  BY DEF MemInit, Punctual
<1>3. Counts
  BY FS_EmptySet DEF MemInit, Counts, CountsOnlyTheWindow
<1>4. Sequential
  BY DEF MemInit, Sequential, Running, Alone
<1> QED
  BY <1>1, <1>2, <1>3, <1>4 DEF MemInv, MemInit, MemoryAtRest

(* An entry has a count and an end.                                        *)
LEMMA EntryParts ==
  ASSUME MemTypeOK, entry # None
  PROVE  entry.value \in Nat /\ entry.expires \in Nat
BY DEF MemTypeOK, Entry

(* Types are kept.                                                         *)
LEMMA TypeStep ==
  ASSUME MemTypeOK, MemNext
  PROVE  MemTypeOK'
<1> USE RateConstants DEF MemTypeOK
<1>1. CASE Tick
  BY <1>1 DEF Tick
<1>2. CASE \E c \in Call : Begin(c)
  <2> PICK c \in Call : Begin(c)
    BY <1>2
  <2>1. overlapped' \subseteq Call
    BY DEF Begin, Running
  <2> QED
    BY <2>1 DEF Begin
<1>3. CASE \E c \in Call : Purge(c)
  BY <1>3 DEF Purge
<1>4. CASE \E c \in Call : Probe(c)
  BY <1>4 DEF Probe
<1>5. CASE \E c \in Call : Count(c)
  <2> PICK c \in Call : Count(c)
    BY <1>5
  <2>1. /\ at' \in [Call -> {"idle", "purge", "probe", "count", "done"}]
        /\ clock' = clock /\ now' = now /\ fresh' = fresh /\ overlapped' = overlapped
        /\ window' \subseteq Call /\ counted' \subseteq Call \X (0..Horizon)
    BY DEF Count
  <2>2. CASE StartsWindow(c)
    <3>1. [value |-> 1, expires |-> now[c] + Window] \in Entry
      BY DEF Entry
    <3> QED
      BY <2>1, <2>2, <3>1 DEF Count
  <2>3. CASE ~StartsWindow(c)
    <3>1. entry.value \in Nat /\ entry.expires \in Nat
      BY <2>3, EntryParts DEF StartsWindow
    <3>2. [value |-> entry.value + 1, expires |-> entry.expires] \in Entry
      BY <3>1 DEF Entry
    <3> QED
      BY <2>1, <2>3, <3>1, <3>2 DEF Count
  <2> QED
    BY <2>2, <2>3
<1> QED
  BY <1>1, <1>2, <1>3, <1>4, <1>5 DEF MemNext, Step

(* The clock goes forwards.                                                *)
LEMMA PunctualStep ==
  ASSUME MemInv, MemNext
  PROVE  Punctual'
<1>0. MemTypeOK /\ Punctual
  BY DEF MemInv
<1>1. clock \in Nat /\ clock' \in Nat /\ clock <= clock'
  BY <1>0, RateConstants DEF MemTypeOK, MemNext, Tick, Step, Begin, Purge, Probe, Count
<1>2. \A c \in Call : now[c] \in Nat
  BY <1>0, RateConstants DEF MemTypeOK
<1>3. \A c \in Call : now'[c] \in {now[c], clock}
  BY <1>0 DEF MemTypeOK, MemNext, Tick, Step, Begin, Purge, Probe, Count
<1>4. entry' # None =>
        \/ entry # None /\ entry'.expires = entry.expires
        \/ \E c \in Call : entry'.expires = now[c] + Window
  <2>1. CASE entry' = entry \/ entry' = None
    BY <2>1
  <2>2. CASE \E c \in Call : Count(c)
    <3> PICK c \in Call : Count(c)
      BY <2>2
    <3>1. CASE StartsWindow(c)
      <4>1. entry' = [value |-> 1, expires |-> now[c] + Window]
        BY <3>1 DEF Count
      <4> QED
        BY <4>1
    <3>2. CASE ~StartsWindow(c)
      <4>1. entry # None /\ entry' = [value |-> entry.value + 1, expires |-> entry.expires]
        BY <3>2 DEF Count, StartsWindow
      <4> QED
        BY <4>1
    <3> QED
      BY <3>1, <3>2
  <2> QED
    BY <2>1, <2>2 DEF MemNext, Tick, Step, Begin, Purge, Probe
<1>5. \A c \in Call : now'[c] <= clock'
  BY <1>0, <1>1, <1>2, <1>3 DEF Punctual
<1>6. entry' # None => entry'.expires <= clock' + Window
  BY <1>0, <1>1, <1>2, <1>4, EntryParts, RateConstants DEF Punctual
<1> QED
  BY <1>5, <1>6 DEF Punctual

(* A step that counts nothing.                                             *)
LEMMA UncountedStep ==
  ASSUME MemInv, MemNext, \A c \in Call : ~Count(c)
  PROVE  /\ \/ entry' = entry /\ counted' = counted
            \/ entry' = None /\ counted' = {}
         /\ \A c \in Call : at[c] = "done" => at'[c] = "done"
BY DEF MemInv, MemTypeOK, MemNext, Step, Tick, Begin, Purge, Probe

(* Only Count changes what the entry counts, and by one.                   *)
LEMMA CountsStep ==
  ASSUME MemInv, MemNext
  PROVE  Counts'
<1>0. MemTypeOK /\ Punctual /\ Counts
  BY DEF MemInv
<1>1. CASE \A c \in Call : ~Count(c)
  <2>1. /\ \/ entry' = entry /\ counted' = counted
           \/ entry' = None /\ counted' = {}
        /\ \A w \in counted : at'[w[1]] = "done"
    BY <1>0, <1>1, UncountedStep DEF Counts, MemTypeOK
  <2> QED
    BY <1>0, <2>1, FS_EmptySet DEF Counts, CountsOnlyTheWindow
<1>2. ASSUME NEW c \in Call, Count(c) PROVE Counts'
  <2>0. at[c] = "count" /\ at' = [at EXCEPT ![c] = "done"]
    BY <1>2 DEF Count
  <2>1. CASE StartsWindow(c)
    <3>1. counted' = {<<c, clock>>} /\ entry' = [value |-> 1, expires |-> now[c] + Window]
      BY <1>2, <2>1 DEF Count
    <3>2. IsFiniteSet(counted') /\ Cardinality(counted') = 1
      BY <3>1, FS_Singleton
    <3>3. now[c] \in Nat /\ clock \in Nat /\ now[c] <= clock
      BY <1>0, RateConstants DEF MemTypeOK, Punctual
    <3>4. \A w \in counted' : at'[w[1]] = "done" /\ w[2] >= entry'.expires - Window
      BY <1>0, <2>0, <3>1, <3>3, RateConstants DEF MemTypeOK
    <3>5. entry' # None /\ entry'.value = 1
      <4>1. [value |-> 1, expires |-> now[c] + Window] \in Entry
        BY <3>3, RateConstants DEF Entry
      <4> QED
        BY <3>1, <4>1, RateConstants
    <3> QED
      BY <3>2, <3>4, <3>5 DEF Counts, CountsOnlyTheWindow
  <2>2. CASE ~StartsWindow(c)
    <3>1. /\ entry # None
          /\ counted' = counted \cup {<<c, clock>>}
          /\ entry' = [value |-> entry.value + 1, expires |-> entry.expires]
      BY <1>2, <2>2 DEF Count, StartsWindow
    <3>2. <<c, clock>> \notin counted
      BY <1>0, <2>0 DEF Counts
    <3>3. IsFiniteSet(counted') /\ Cardinality(counted') = Cardinality(counted) + 1
      BY <1>0, <3>1, <3>2, FS_AddElement DEF Counts
    <3>4. entry'.value = entry.value + 1 /\ entry'.expires = entry.expires
      BY <3>1
    <3>5. clock \in Nat /\ entry.expires \in Nat /\ entry.expires <= clock + Window
      BY <1>0, <3>1, EntryParts, RateConstants DEF MemTypeOK, Punctual
    <3>6. \A w \in counted' : at'[w[1]] = "done" /\ w[2] >= entry'.expires - Window
      BY <1>0, <2>0, <3>1, <3>4, <3>5, RateConstants
         DEF MemTypeOK, Counts, CountsOnlyTheWindow
    <3>7. entry' # None
      <4>1. entry' \in Entry
        BY <1>0, <3>1, EntryParts DEF Entry
      <4> QED
        BY <4>1, RateConstants
    <3> QED
      BY <1>0, <3>1, <3>3, <3>4, <3>6, <3>7 DEF Counts, CountsOnlyTheWindow
  <2> QED
    BY <2>1, <2>2
<1> QED
  BY <1>1, <1>2

(* A call that runs alone finds nothing to start again, and one that does  *)
(* not changes nothing for those that did.                                 *)
LEMMA SequentialStep ==
  ASSUME MemInv, MemNext
  PROVE  Sequential'
<1>0. MemTypeOK /\ Sequential
  BY DEF MemInv
<1>1. CASE Tick
  BY <1>0, <1>1 DEF Tick, Sequential, Running, Alone
<1>2. ASSUME NEW c \in Call, Begin(c) PROVE Sequential'
  <2>1. /\ at[c] = "idle" /\ at' = [at EXCEPT ![c] = "purge"]
        /\ UNCHANGED <<entry, fresh, answer, window>>
    BY <1>2 DEF Begin
  <2>2. Running' = Running \cup {c}
    BY <1>0, <2>1 DEF Running, MemTypeOK
  <2>3. overlapped' = IF Running = {} THEN overlapped ELSE overlapped \cup Running \cup {c}
    BY <1>2 DEF Begin
  <2>4. \A d, e \in Running' : d # e => d \in overlapped'
    BY <2>2, <2>3
  <2>5. Alone' \subseteq Alone
    BY <2>1, <2>3 DEF Alone
  <2>6. \A d \in Call : at'[d] = "count" /\ fresh'[d] => at[d] = "count" /\ fresh[d]
    BY <1>0, <2>1 DEF MemTypeOK
  <2>7. \A d \in window' : at'[d] = "done"
    BY <1>0, <2>1 DEF Sequential, MemTypeOK
  <2> QED
    BY <1>0, <2>1, <2>4, <2>5, <2>6, <2>7 DEF Sequential
<1>3. ASSUME NEW c \in Call, Purge(c) PROVE Sequential'
  <2>1. at[c] = "purge" /\ answer' = answer /\ overlapped' = overlapped
    BY <1>3 DEF Purge
  <2>2. CASE IsExpired(c)
    <3>1. /\ entry' = None /\ window' = {} /\ at' = [at EXCEPT ![c] = "count"]
      BY <1>3, <2>2 DEF Purge
    <3>2. Running' = Running /\ Alone' = {}
      BY <1>0, <2>1, <3>1 DEF Running, Alone, MemTypeOK
    <3> QED
      BY <1>0, <2>1, <3>1, <3>2 DEF Sequential
  <2>3. CASE ~IsExpired(c)
    <3>1. at' = [at EXCEPT ![c] = "probe"] /\ UNCHANGED <<entry, fresh, window>>
      BY <1>3, <2>3 DEF Purge
    <3>2. Running' = Running /\ Alone' = Alone
      BY <1>0, <2>1, <3>1 DEF Running, Alone, MemTypeOK
    <3> QED
      BY <1>0, <2>1, <3>1, <3>2 DEF Sequential, MemTypeOK
  <2> QED
    BY <2>2, <2>3
<1>4. ASSUME NEW c \in Call, Probe(c) PROVE Sequential'
  <2>1. /\ at[c] = "probe" /\ at' = [at EXCEPT ![c] = "count"]
        /\ fresh' = [fresh EXCEPT ![c] = (entry = None)]
        /\ UNCHANGED <<entry, answer, window, overlapped>>
    BY <1>4 DEF Probe
  <2>2. Running' = Running /\ Alone' = Alone
    BY <1>0, <2>1 DEF Running, Alone, MemTypeOK
  <2>3. ASSUME NEW d \in Call, at'[d] = "count", fresh'[d] PROVE Alone = {}
    <3>1. CASE d = c
      <4>1. fresh'[c] = (entry = None)
        BY <1>0, <2>1 DEF MemTypeOK
      <4>2. entry = None
        BY <2>3, <3>1, <4>1, Zenon
      <4> QED
        BY <1>0, <4>2 DEF Sequential, Alone
    <3>2. CASE d # c
      BY <1>0, <2>1, <2>3, <3>2 DEF Sequential, MemTypeOK
    <3> QED
      BY <3>1, <3>2
  <2> QED
    BY <1>0, <2>1, <2>2, <2>3 DEF Sequential, MemTypeOK
<1>5. ASSUME NEW c \in Call, Count(c) PROVE Sequential'
  <2>1. /\ at[c] = "count" /\ at' = [at EXCEPT ![c] = "done"]
        /\ window' = window \cup {c} /\ fresh' = fresh /\ overlapped' = overlapped
    BY <1>5 DEF Count
  <2>2. Running' = Running \ {c}
    BY <1>0, <2>1 DEF Running, MemTypeOK
  <2>3. c \notin window /\ \A d \in window' : at'[d] = "done"
    BY <1>0, <2>1 DEF Sequential, MemTypeOK
  <2>4. \A d \in Call : at'[d] = "count" => d # c /\ at[d] = "count"
    BY <1>0, <2>1 DEF MemTypeOK
  <2>5. ASSUME NEW d \in Call, at'[d] = "count", fresh'[d] PROVE Alone' = {}
    <3>1. Alone = {} /\ d # c /\ d \in Running /\ c \in Running
      BY <1>0, <2>1, <2>4, <2>5 DEF Sequential, Running
    <3>2. c \in overlapped
      BY <1>0, <3>1 DEF Sequential
    <3> QED
      BY <2>1, <3>1, <3>2 DEF Alone
  <2>6. entry' # None
    <3>1. entry' \in Entry
      <4>1. CASE StartsWindow(c)
        <5>1. [value |-> 1, expires |-> now[c] + Window] \in Entry
          BY <1>0, RateConstants DEF MemTypeOK, Entry
        <5> QED
          BY <1>5, <4>1, <5>1 DEF Count
      <4>2. CASE ~StartsWindow(c)
        <5>1. [value |-> entry.value + 1, expires |-> entry.expires] \in Entry
          BY <1>0, <4>2, EntryParts DEF StartsWindow, Entry
        <5> QED
          BY <1>5, <4>2, <5>1 DEF Count
      <4> QED
        BY <4>1, <4>2
    <3> QED
      BY <3>1, RateConstants
  <2>7. /\ \A d \in Alone' : answer'[d] \in 1..entry'.value
        /\ \A d, e \in Alone' : answer'[d] = answer'[e] => d = e
    <3>1. CASE StartsWindow(c)
      <4>1. Alone = {}
        BY <1>0, <2>1, <3>1 DEF StartsWindow, Sequential, Alone
      <4>2. answer' = [answer EXCEPT ![c] = 1] /\ entry' = [value |-> 1, expires |-> now[c] + Window]
        BY <1>5, <3>1 DEF Count
      <4>3. answer'[c] = 1 /\ entry'.value = 1
        BY <1>0, <4>2 DEF MemTypeOK
      <4>4. \A d \in Alone' : d = c
        BY <2>1, <4>1 DEF Alone
      <4> QED
        BY <4>3, <4>4
    <3>2. CASE ~StartsWindow(c)
      <4>1. /\ entry # None /\ answer' = [answer EXCEPT ![c] = entry.value + 1]
            /\ entry' = [value |-> entry.value + 1, expires |-> entry.expires]
        BY <1>5, <3>2 DEF Count, StartsWindow
      <4>2. entry.value \in Nat /\ entry'.value = entry.value + 1
        BY <1>0, <4>1, EntryParts
      <4>3. answer'[c] = entry.value + 1
        BY <1>0, <4>1 DEF MemTypeOK
      <4>4. \A d \in Alone : d # c /\ answer'[d] = answer[d] /\ answer[d] \in 1..entry.value
        BY <1>0, <2>3, <4>1 DEF Sequential, MemTypeOK, Alone
      <4>5. \A d \in Alone' : d = c \/ d \in Alone
        BY <2>1 DEF Alone
      <4>6. \A d \in Alone' : answer'[d] \in 1..entry'.value
        BY <4>2, <4>3, <4>4, <4>5
      <4>7. \A d, e \in Alone : answer[d] = answer[e] => d = e
        BY <1>0 DEF Sequential
      <4>8. \A d, e \in Alone' : answer'[d] = answer'[e] => d = e
        BY <4>2, <4>3, <4>4, <4>5, <4>7
      <4> QED
        BY <4>6, <4>8
    <3> QED
      BY <3>1, <3>2
  <2>8. \A d, e \in Running' : d # e => d \in overlapped'
    BY <1>0, <2>1, <2>2 DEF Sequential
  <2> QED
    BY <2>3, <2>5, <2>6, <2>7, <2>8 DEF Sequential
<1> QED
  BY <1>1, <1>2, <1>3, <1>4, <1>5 DEF MemNext, Step

(* The invariant of the memory backend is inductive.                       *)
LEMMA MemStep == MemInv /\ MemNext => MemInv'
BY TypeStep, PunctualStep, CountsStep, SequentialStep DEF MemInv

-----------------------------------------------------------------------------
(* The Redis backend.                                                      *)

(* A call that has not begun has no answer.                                *)
LEMMA RedisStep == RedisInv /\ Redis!RedisNext => RedisInv'
<1> SUFFICES ASSUME RedisInv, Redis!RedisNext PROVE RedisInv'
  OBVIOUS
<1> USE DEF RedisInv, Redis!RedisTypeOK
<1>1. CASE Redis!KeyExpires
  <2>1. ~(count' > 0)
    BY <1>1 DEF Redis!KeyExpires
  <2>2. Redis!RedisTypeOK' /\ \A c \in Call : at'[c] = "idle" => answer'[c] = 0
    BY <1>1 DEF Redis!KeyExpires
  <2> QED
    BY <2>1, <2>2 DEF ExpiryIsOwed
<1>2. ASSUME NEW c \in Call, Redis!Incr(c)
      PROVE  RedisInv'
  <2>1. ExpiryIsOwed'
    <3>1. CASE count = 0
      BY <1>2, <3>1 DEF Redis!Incr, Redis!OpensWindow, ExpiryIsOwed
    <3>2. CASE count > 0
      BY <1>2, <3>2 DEF Redis!Incr, ExpiryIsOwed
    <3> QED
      BY <3>1, <3>2
  <2> QED
    BY <1>2, <2>1 DEF Redis!Incr
<1>3. ASSUME NEW c \in Call, Redis!SetExpiry(c)
      PROVE  RedisInv'
  <2>1. ~(count' > 0 /\ ~expiring')
    <3>1. count' = count /\ expiring' = (count # 0)
      BY <1>3 DEF Redis!SetExpiry
    <3>2. count = 0 => ~(count' > 0)
      BY <3>1
    <3> QED
      BY <3>1, <3>2, Zenon
  <2>2. Redis!RedisTypeOK' /\ \A d \in Call : at'[d] = "idle" => answer'[d] = 0
    BY <1>3 DEF Redis!SetExpiry
  <2> QED
    BY <2>1, <2>2 DEF ExpiryIsOwed
<1>4. ASSUME NEW c \in Call, Redis!Fail(c)
      PROVE  RedisInv'
  BY <1>4 DEF Redis!Fail, ExpiryIsOwed
<1> QED
  BY <1>1, <1>2, <1>3, <1>4 DEF Redis!RedisNext

-----------------------------------------------------------------------------
(* Whichever backend the server settled on.                                *)

(* Either backend starts empty.                                            *)
LEMMA RateInitInv == RateInit => RateInv
<1> SUFFICES ASSUME RateInit PROVE RateInv
  OBVIOUS
<1>1. MemInv /\ MemoryAtRest
  BY MemInitInv DEF RateInit
<1>2. RedisInv
  <2>1. ~(count > 0)
    BY DEF RateInit, Redis!RedisInit
  <2>2. Redis!RedisTypeOK /\ \A c \in Call : at[c] = "idle" => answer[c] = 0
    BY DEF RateInit, Redis!RedisInit, Redis!RedisTypeOK
  <2> QED
    BY <2>1, <2>2 DEF RedisInv, ExpiryIsOwed
<1>3. backend \in {"memory", "redis"}
  BY DEF RateInit, Connect
<1> QED
  BY <1>1, <1>2, <1>3 DEF RateInv

(* Each keeps its invariant, and the choice is for good.                   *)
LEMMA RateStep == RateInv /\ [RateNext]_vars => RateInv'
<1> SUFFICES ASSUME RateInv, [RateNext]_vars PROVE RateInv'
  OBVIOUS
<1>1. CASE backend = "memory" /\ MemNext /\ UNCHANGED <<backend, redisOnly>>
  BY <1>1, MemStep DEF RateInv
<1>2. CASE backend = "redis" /\ Redis!RedisNext /\ UNCHANGED <<backend, memoryOnly>>
  BY <1>2, RedisStep DEF RateInv, MemoryAtRest, memoryOnly
<1>3. CASE UNCHANGED vars
  <2> USE <1>3 DEF vars, memoryOnly, redisOnly
  <2>1. MemInv => MemInv'
    BY DEF MemInv, MemTypeOK, Punctual, Counts, CountsOnlyTheWindow, Sequential, Running, Alone
  <2>2. RedisInv => RedisInv'
    BY DEF RedisInv, Redis!RedisTypeOK, ExpiryIsOwed, redisOnly
  <2>3. MemoryAtRest => MemoryAtRest'
    BY DEF MemoryAtRest
  <2> QED
    BY <2>1, <2>2, <2>3 DEF RateInv
<1> QED
  BY <1>1, <1>2, <1>3 DEF RateNext

(* And so they hold in every reachable state.                              *)
LEMMA RateSafe == RateSpec => []RateInv
BY RateInitInv, RateStep, PTL DEF RateSpec

(* The types hold in every reachable state, of either backend.             *)
THEOREM RateTypeCorrect == RateSpec => []RateTypeOK
<1>1. RateInv => RateTypeOK
  BY DEF RateInv, MemInv, RedisInv, RateTypeOK
<1> QED
  BY <1>1, RateSafe, PTL

(* However its calls overlap, the memory backend counts the increments of  *)
(* one window, each once.                                                  *)
THEOREM OnlyTheWindowCounts == RateSpec => []CountsOnlyTheWindow
<1>1. RateInv => CountsOnlyTheWindow
  BY DEF RateInv, MemInv, Counts, MemoryAtRest, CountsOnlyTheWindow
<1> QED
  BY <1>1, RateSafe, PTL

(* Calls that ran alone are never admitted more than Max times in a        *)
(* window: their answers are different numbers up to Max.                  *)
LEMMA FewAdmitted == RateInv => AtMostMaxAdmitted
<1> SUFFICES ASSUME RateInv PROVE Cardinality({c \in window \ overlapped : Admits(c)}) <= Max
  BY DEF AtMostMaxAdmitted
<1> DEFINE S == {c \in window \ overlapped : Admits(c)}
<1>1. CASE backend = "redis"
  <2>1. S = {}
    BY <1>1 DEF RateInv, MemoryAtRest
  <2> QED
    BY <2>1, FS_EmptySet, RateConstants
<1>2. CASE backend = "memory"
  <2>1. MemTypeOK /\ Sequential
    BY <1>2 DEF RateInv, MemInv
  <2>2. \A c \in S : answer[c] \in 1..Max
    BY <2>1, RateConstants DEF Sequential, Alone, Admits, MemTypeOK
  <2>3. \A c, d \in S : answer[c] = answer[d] => c = d
    BY <2>1 DEF Sequential, Alone
  <2> DEFINE f == [c \in S |-> answer[c]]
  <2>4. f \in Injection(S, 1..Max)
    BY <2>2, <2>3, FS_Injection DEF Injection, IsInjective
  <2>5. IsFiniteSet(1..Max) /\ Cardinality(1..Max) = Max
    BY FS_Interval, RateConstants
  <2> HIDE DEF f, S
  <2>6. Cardinality(S) <= Cardinality(1..Max)
    BY <2>4, <2>5, FS_Injection
  <2> QED
    BY <2>5, <2>6 DEF S
<1> QED
  BY <1>1, <1>2 DEF RateInv

(* However calls overlap, at most Max of those of a window that ran alone  *)
(* are admitted.                                                           *)
THEOREM LoneCallsAreLimited == RateSpec => []AtMostMaxAdmitted
BY FewAdmitted, RateSafe, PTL

(* On Redis an increment is one step of the counter, however many calls    *)
(* run and whichever of them fail.                                         *)
LEMMA StepRefines ==
  RateInv /\ [RateNext]_vars => [Counter!CounterNext]_(Counter!counterVars)
<1> SUFFICES ASSUME RateInv, [RateNext]_vars
             PROVE  [Counter!CounterNext]_(Counter!counterVars)
  OBVIOUS
<1> USE DEF Counter!counterVars
<1>1. CASE backend = "memory" /\ UNCHANGED backend
  BY <1>1
<1>2. CASE backend = "redis" /\ Redis!RedisNext /\ UNCHANGED backend
  <2>0. Redis!RedisTypeOK /\ \A c \in Call : at[c] = "idle" => answer[c] = 0
    BY <1>2 DEF RateInv, RedisInv
  <2>1. CASE Redis!KeyExpires
    BY <1>2, <2>1 DEF Redis!KeyExpires, Counter!CounterNext, Counter!WindowEnds
  <2>2. ASSUME NEW c \in Call, Redis!Incr(c) PROVE Counter!Increment(c)
    BY <1>2, <2>0, <2>2 DEF Redis!Incr, Redis!RedisTypeOK, Counter!Increment
  <2>3. CASE \E c \in Call : Redis!SetExpiry(c) \/ Redis!Fail(c)
    BY <1>2, <2>3 DEF Redis!SetExpiry, Redis!Fail
  <2> QED
    BY <1>2, <2>1, <2>2, <2>3 DEF Redis!RedisNext, Counter!CounterNext
<1>3. CASE UNCHANGED vars
  BY <1>3 DEF vars, redisOnly
<1> QED
  BY <1>1, <1>2, <1>3 DEF RateNext

(* Redis keeps the promise of RateCounter, which the trait asks of every   *)
(* backend.                                                                *)
THEOREM RedisIsACounter == RateSpec => ImplementsRateCounter
<1>1. RateInit => Counter!CounterInit
  BY DEF RateInit, MemInit, Redis!RedisInit, Counter!CounterInit
<1> QED
  BY <1>1, StepRefines, RateSafe, PTL
     DEF RateSpec, ImplementsRateCounter, Counter!CounterSpec

(* On Redis a key without a time to live is the doing of one call, the one *)
(* whose increment made it, and of no other: that call still owes EXPIRE,  *)
(* or has failed before it, whatever the other calls did in between.       *)
THEOREM OneCallOwesTheExpiry == RateSpec => [](backend = "redis" => ExpiryIsOwed)
<1>1. RateInv => (backend = "redis" => ExpiryIsOwed)
  BY DEF RateInv, RedisInv
<1> QED
  BY <1>1, RateSafe, PTL
=============================================================================
