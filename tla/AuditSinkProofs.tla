-------------------------- MODULE AuditSinkProofs --------------------------
(* Proofs about the batching sink, for any entries, batch size and         *)
(* channel capacity.                                                       *)
EXTENDS AuditSink, FiniteSetTheorems, TLAPS

USE SinkConstants

LEMMA AppendKeeps ==
  ASSUME NEW S, NEW s \in Seq(S), NEW e \in S
  PROVE  /\ Append(s, e) \in Seq(S)
         /\ \E i \in 1..Len(Append(s, e)) : Append(s, e)[i] = e
         /\ \A i \in 1..Len(s) : i \in 1..Len(Append(s, e)) /\ Append(s, e)[i] = s[i]
<1>1. Len(Append(s, e)) = Len(s) + 1 /\ Len(s) \in Nat
  OBVIOUS
<1>2. Append(s, e)[Len(s) + 1] = e
  OBVIOUS
<1>3. \A i \in 1..Len(s) : Append(s, e)[i] = s[i]
  OBVIOUS
<1> QED
  BY <1>1, <1>2, <1>3

LEMMA TailKeeps ==
  ASSUME NEW S, NEW s \in Seq(S), s # << >>
  PROVE  /\ Head(s) \in S /\ Tail(s) \in Seq(S)
         /\ \A i \in 1..Len(s) :
              s[i] = Head(s) \/ \E j \in 1..Len(Tail(s)) : Tail(s)[j] = s[i]
<1>1. Len(s) \in Nat /\ Len(s) > 0 /\ Len(Tail(s)) = Len(s) - 1 /\ Head(s) = s[1]
  OBVIOUS
<1>2. Head(s) \in S /\ Tail(s) \in Seq(S)
  OBVIOUS
<1>3. ASSUME NEW i \in 1..Len(s), i # 1
      PROVE  i - 1 \in 1..Len(Tail(s)) /\ Tail(s)[i - 1] = s[i]
  <2>1. i - 1 \in 1..Len(Tail(s))
    BY <1>1, <1>3
  <2>2. \A j \in 1..Len(Tail(s)) : Tail(s)[j] = s[j + 1]
    BY <1>1
  <2> QED
    BY <1>1, <1>3, <2>1, <2>2
<1>4. ASSUME NEW i \in 1..Len(s)
      PROVE  s[i] = Head(s) \/ \E j \in 1..Len(Tail(s)) : Tail(s)[j] = s[i]
  <2>1. CASE i = 1
    BY <1>1, <2>1
  <2>2. CASE i # 1
    BY <1>3, <2>2
  <2> QED
    BY <2>1, <2>2
<1> QED
  BY <1>2, <1>4

LEMMA SinkTypeInit == SinkInit => SinkTypeOK
BY DEF SinkInit, SinkTypeOK, Kind

LEMMA SinkTypeStep == SinkTypeOK /\ [SinkNext]_vars => SinkTypeOK'
<1> SUFFICES ASSUME SinkTypeOK, [SinkNext]_vars PROVE SinkTypeOK'
  OBVIOUS
<1> USE DEF SinkTypeOK
<1>1. CASE \E e \in Item : Submit(e) \/ GiveUp(e)
  BY <1>1 DEF Submit, GiveUp
<1>2. CASE \E e \in Item : Send(e)
  BY <1>2, AppendKeeps DEF Send
<1>3. CASE \E e \in Item : NextItem(e)
  BY <1>3 DEF NextItem
<1>4. CASE Close
  BY <1>4 DEF Close
<1>5. CASE Receive
  <2>1. Head(channel) \in Item /\ Tail(channel) \in Seq(Item)
    BY <1>5, TailKeeps DEF Receive
  <2>2. KindOf[Head(channel)] \in Kind
    BY <2>1
  <2>3. <<KindOf[Head(channel)]>> \in Seq(Kind)
    BY <2>2
  <2> QED
    BY <1>5, <2>1, <2>2, <2>3 DEF Receive
<1>6. CASE Closed \/ Tick
  <2>1. <<"usage", "audit">> \in Seq(Kind)
    BY DEF Kind
  <2> QED
    BY <1>6, <2>1 DEF Closed, Tick
<1>7. CASE Flush
  <2>1. Head(toFlush) \in Kind /\ Tail(toFlush) \in Seq(Kind)
    BY <1>7, TailKeeps DEF Flush
  <2>2. rows' \subseteq Item /\ file' \subseteq Item /\ lost' \subseteq Item
    BY <1>7, <2>1 DEF Flush, Insert, FallBack
  <2> QED
    BY <1>7, <2>1, <2>2 DEF Flush
<1>8. CASE Flushed
  BY <1>8 DEF Flushed
<1>9. CASE Stop
  <2>1. << >> \in Seq(Item) /\ << >> \in Seq(Kind)
    OBVIOUS
  <2> QED
    BY <1>9, <2>1 DEF Stop
<1>10. CASE UNCHANGED vars
  BY <1>10 DEF vars
<1> QED
  BY <1>1, <1>2, <1>3, <1>4, <1>5, <1>6, <1>7, <1>8, <1>9, <1>10 DEF SinkNext, Work

(* The types hold in every reachable state of SinkSpec.                    *)
THEOREM SinkTypeCorrect == SinkSpec => []SinkTypeOK
BY SinkTypeInit, SinkTypeStep, PTL DEF SinkSpec

LEMMA NothingLostInit == SinkInit => NothingLost
BY DEF SinkInit, NothingLost

LEMMA NothingLostStep ==
  ASSUME SinkTypeOK, NothingLost, [SinkNext]_vars
  PROVE  NothingLost'
<1> USE DEF SinkTypeOK, NothingLost, InChannel
<1>1. CASE \E e \in Item : Submit(e) \/ GiveUp(e)
  BY <1>1 DEF Submit, GiveUp
<1>2. CASE \E e \in Item : Send(e)
  <2> PICK e \in Item : Send(e)
    BY <1>2
  <2>1. /\ \E i \in 1..Len(channel') : channel'[i] = e
        /\ \A i \in 1..Len(channel) : i \in 1..Len(channel') /\ channel'[i] = channel[i]
    BY AppendKeeps DEF Send
  <2> SUFFICES ASSUME NEW x \in Item, caller'[x] = "sent"
               PROVE  \/ \E i \in 1..Len(channel') : channel'[i] = x
                      \/ x \in batch'[KindOf[x]]
                      \/ x \in rows' \cup file' \cup lost'
    OBVIOUS
  <2>2. CASE x = e
    BY <2>1, <2>2
  <2>3. CASE x # e
    BY <2>1, <2>3 DEF Send
  <2> QED
    BY <2>2, <2>3
<1>3. CASE \E e \in Item : NextItem(e)
  BY <1>3 DEF NextItem
<1>4. CASE Close
  BY <1>4 DEF Close
<1>5. CASE Receive
  <2>1. /\ Head(channel) \in Item
        /\ \A i \in 1..Len(channel) :
             channel[i] = Head(channel) \/ \E j \in 1..Len(channel') : channel'[j] = channel[i]
    BY <1>5, TailKeeps DEF Receive
  <2>2. Head(channel) \in batch'[KindOf[Head(channel)]]
    BY <1>5, <2>1 DEF Receive
  <2>3. \A k \in Kind : batch[k] \subseteq batch'[k]
    BY <1>5, <2>1 DEF Receive
  <2>4. \A e \in Item : KindOf[e] \in Kind
    OBVIOUS
  <2> QED
    BY <1>5, <2>1, <2>2, <2>3, <2>4 DEF Receive
<1>6. CASE Closed \/ Tick \/ Flushed
  BY <1>6 DEF Closed, Tick, Flushed
<1>7. CASE Flush
  <2>1. Head(toFlush) \in Kind
    BY <1>7, TailKeeps DEF Flush
  <2>2. rows \cup file \cup lost \cup batch[Head(toFlush)] \subseteq rows' \cup file' \cup lost'
    BY <1>7, <2>1 DEF Flush, Insert, FallBack
  <2>3. \A k \in Kind : k # Head(toFlush) => batch'[k] = batch[k]
    BY <1>7 DEF Flush
  <2>4. UNCHANGED <<caller, channel>>
    BY <1>7 DEF Flush
  <2> SUFFICES ASSUME NEW x \in Item, caller'[x] = "sent"
               PROVE  \/ \E i \in 1..Len(channel') : channel'[i] = x
                      \/ x \in batch'[KindOf[x]]
                      \/ x \in rows' \cup file' \cup lost'
    OBVIOUS
  <2>5. KindOf[x] \in Kind
    OBVIOUS
  <2> QED
    BY <2>2, <2>3, <2>4, <2>5
<1>8. CASE Stop
  <2>1. \A e \in Item : KindOf[e] \in Kind
    OBVIOUS
  <2>2. lost \subseteq lost' /\ UNCHANGED <<rows, file>>
    BY <1>8 DEF Stop
  <2>3. \A e \in Item : caller'[e] = "sent" => caller[e] = "sent"
    BY <1>8 DEF Stop
  <2>4. \A e \in Item : InChannel(e) \/ (\E k \in Kind : e \in batch[k]) => e \in lost'
    BY <1>8 DEF Stop, InBatch
  <2> SUFFICES ASSUME NEW x \in Item, caller'[x] = "sent"
               PROVE  x \in rows' \cup file' \cup lost'
    OBVIOUS
  <2> QED
    BY <2>1, <2>2, <2>3, <2>4
<1>9. CASE UNCHANGED vars
  BY <1>9 DEF vars
<1> QED
  BY <1>1, <1>2, <1>3, <1>4, <1>5, <1>6, <1>7, <1>8, <1>9 DEF SinkNext, Work

(* What the channel took is in the channel, a batch, a table or a file, or *)
(* it is one of the entries that a failing file or a stop has lost.        *)
THEOREM NothingIsLost == SinkSpec => []NothingLost
<1>1. SinkTypeOK /\ NothingLost /\ [SinkNext]_vars => NothingLost'
  BY NothingLostStep
<1> QED
  BY <1>1, NothingLostInit, SinkTypeCorrect, PTL DEF SinkSpec

(* A batch that is full is the only one to be flushed, and at once.        *)
Bounded ==
  /\ Len(channel) <= Capacity
  /\ \A k \in Kind : IsFiniteSet(batch[k]) /\ Cardinality(batch[k]) <= BatchSize
  /\ \A k \in Kind : Cardinality(batch[k]) = BatchSize => toFlush = <<k>>

(* There is room in an empty batch.                                        *)
LEMMA EmptyBatch == IsFiniteSet({}) /\ Cardinality({}) = 0 /\ Cardinality({}) < BatchSize
BY FS_EmptySet

LEMMA BoundedInit == SinkInit => Bounded
BY EmptyBatch DEF SinkInit, Bounded, Kind

(* What any step but that of a flush or a stop leaves of the batches.      *)
LEMMA BatchesKept ==
  ASSUME Bounded, UNCHANGED <<batch, toFlush>>, Len(channel') <= Capacity
  PROVE  Bounded'
BY DEF Bounded

LEMMA BoundedStep ==
  ASSUME SinkTypeOK, Bounded, [SinkNext]_vars
  PROVE  Bounded'
<1>1. CASE \/ \E e \in Item : Submit(e) \/ GiveUp(e) \/ NextItem(e)
           \/ Close \/ Flushed \/ UNCHANGED vars
  BY <1>1, BatchesKept DEF Submit, GiveUp, NextItem, Close, Flushed, vars, Bounded
<1>2. CASE \E e \in Item : Send(e)
  <2>1. Len(channel') = Len(channel) + 1 /\ Len(channel) < Capacity /\ Len(channel) \in Nat
    BY <1>2 DEF Send, HasRoom, SinkTypeOK
  <2> QED
    BY <1>2, <2>1, BatchesKept DEF Send
<1>3. CASE Receive
  <2> DEFINE k == KindOf[Head(channel)]
             full == batch[k] \cup {Head(channel)}
  <2>1. Head(channel) \in Item /\ Tail(channel) \in Seq(Item) /\ k \in Kind
    BY <1>3, TailKeeps DEF Receive, SinkTypeOK
  <2>2. Len(channel') = Len(channel) - 1 /\ Len(channel) \in Nat
    BY <1>3 DEF Receive, SinkTypeOK
  <2>3. \A j \in Kind : Cardinality(batch[j]) \in Nat /\ Cardinality(batch[j]) < BatchSize
    <3>1. \A j \in Kind : toFlush # <<j>>
      BY <1>3 DEF Receive, SinkTypeOK
    <3>2. \A j \in Kind : Cardinality(batch[j]) \in Nat
      BY FS_CardinalityType DEF Bounded
    <3> QED
      BY <3>1, <3>2 DEF Bounded
  <2>4. IsFiniteSet(full) /\ Cardinality(full) \in Nat /\ Cardinality(full) <= BatchSize
    <3>1. IsFiniteSet(batch[k])
      BY <2>1 DEF Bounded
    <3>2. IsFiniteSet(full) /\ Cardinality(full) \in {Cardinality(batch[k]), Cardinality(batch[k]) + 1}
      BY <3>1, FS_AddElement
    <3>3. Cardinality(batch[k]) \in Nat /\ Cardinality(batch[k]) < BatchSize
      BY <2>1, <2>3
    <3> HIDE DEF full, k
    <3> QED
      BY <3>2, <3>3, SinkConstants
  <2>5. batch' = [batch EXCEPT ![k] = full]
    BY <1>3 DEF Receive
  <2>6. Cardinality(full) = BatchSize => toFlush' = <<k>>
    BY <1>3 DEF Receive, Full
  <2> HIDE DEF full, k
  <2>7. \A j \in Kind : batch'[j] = IF j = k THEN full ELSE batch[j]
    BY <2>5 DEF SinkTypeOK
  <2>8. \A j \in Kind : IsFiniteSet(batch'[j]) /\ Cardinality(batch'[j]) <= BatchSize
    BY <2>4, <2>7 DEF Bounded
  <2>9. \A j \in Kind : Cardinality(batch'[j]) = BatchSize => toFlush' = <<j>>
    BY <2>3, <2>6, <2>7
  <2> QED
    BY <2>2, <2>8, <2>9 DEF Bounded
<1>4. CASE Closed \/ Tick
  <2>1. toFlush = << >> /\ UNCHANGED <<channel, batch>>
    BY <1>4 DEF Closed, Tick, SinkTypeOK
  <2>2. \A k \in Kind : Cardinality(batch[k]) # BatchSize
    BY <2>1 DEF Bounded
  <2> QED
    BY <2>1, <2>2 DEF Bounded
<1>5. CASE Flush
  <2> DEFINE k == Head(toFlush)
  <2>1. k \in Kind /\ toFlush # << >>
    BY <1>5, TailKeeps DEF Flush, SinkTypeOK
  <2>2. batch' = [batch EXCEPT ![k] = {}] /\ UNCHANGED channel
    BY <1>5 DEF Flush
  <2>3. \A j \in Kind \ {k} : Cardinality(batch[j]) # BatchSize
    BY DEF Bounded
  <2> HIDE DEF k
  <2>4. \A j \in Kind : batch'[j] = IF j = k THEN {} ELSE batch[j]
    BY <2>2 DEF SinkTypeOK
  <2>5. \A j \in Kind : Cardinality(batch'[j]) # BatchSize
    BY <2>3, <2>4, EmptyBatch
  <2>6. \A j \in Kind : IsFiniteSet(batch'[j]) /\ Cardinality(batch'[j]) <= BatchSize
    BY <2>4, EmptyBatch DEF Bounded
  <2> QED
    BY <2>2, <2>5, <2>6 DEF Bounded
<1>6. CASE Stop
  <2>1. Len(channel') <= Capacity
    BY <1>6, SinkConstants DEF Stop
  <2>2. \A k \in Kind : batch'[k] = {}
    BY <1>6 DEF Stop
  <2>3. \A k \in Kind : IsFiniteSet(batch'[k]) /\ Cardinality(batch'[k]) <= BatchSize
                        /\ Cardinality(batch'[k]) # BatchSize
    BY <2>2, EmptyBatch
  <2> QED
    BY <2>1, <2>3 DEF Bounded
<1> QED
  BY <1>1, <1>2, <1>3, <1>4, <1>5, <1>6 DEF SinkNext, Work

(* What the sink keeps in memory is bounded by the channel and one batch   *)
(* of each kind, whatever the database does.                               *)
THEOREM MemoryIsBounded == SinkSpec => []BufferBounded
<1>1. SinkTypeOK /\ Bounded => BufferBounded
  <2> SUFFICES ASSUME SinkTypeOK, Bounded PROVE BufferBounded
    OBVIOUS
  <2>1. \A k \in Kind : Cardinality(batch[k]) \in Nat
    BY FS_CardinalityType DEF Bounded
  <2>2. worker = "select" => \A k \in Kind : Cardinality(batch[k]) # BatchSize
    BY DEF SinkTypeOK, Bounded
  <2> QED
    BY <2>1, <2>2 DEF Bounded, BufferBounded
<1>2. SinkTypeOK /\ Bounded /\ [SinkNext]_vars => Bounded'
  BY BoundedStep
<1> QED
  BY <1>1, <1>2, BoundedInit, SinkTypeCorrect, PTL DEF SinkSpec

-----------------------------------------------------------------------------
(* The end of the worker.                                                  *)

ToBeFlushed(k) == \E i \in 1..Len(toFlush) : toFlush[i] = k

(* Once the last handle is gone nobody can send; the worker drains a sink  *)
(* that is closed and received to the end, and every batch that is not     *)
(* empty by then has its turn.                                             *)
ClosedInv ==
  /\ ~open => \A e \in Item : caller[e] # "waiting"
  /\ worker \in {"drain", "exited"} => ~open /\ channel = << >>
  /\ worker = "drain" => \A k \in Kind : batch[k] = {} \/ ToBeFlushed(k)
  /\ worker = "exited" => \A k \in Kind : batch[k] = {}

LEMMA ClosedInit == SinkInit => ClosedInv
BY DEF SinkInit, ClosedInv

LEMMA ClosedStep ==
  ASSUME SinkTypeOK, ClosedInv, [SinkNext]_vars
  PROVE  ClosedInv'
<1> USE DEF SinkTypeOK, ClosedInv
<1>1. CASE \E e \in Item : Submit(e) \/ Send(e) \/ GiveUp(e) \/ NextItem(e)
  <2>1. UNCHANGED <<open, batch, worker, toFlush>>
    BY <1>1 DEF Submit, Send, GiveUp, NextItem
  <2>2. channel' = channel \/ worker \notin {"drain", "exited"}
    BY <1>1 DEF Submit, Send, GiveUp, NextItem
  <2>3. ~open => \A e \in Item : caller'[e] # "waiting"
    BY <1>1 DEF Submit, Send, GiveUp, NextItem
  <2> QED
    BY <2>1, <2>2, <2>3 DEF ToBeFlushed
<1>2. CASE Close
  BY <1>2 DEF Close, ToBeFlushed
<1>3. CASE Receive \/ Tick
  BY <1>3 DEF Receive, Tick
<1>4. CASE Closed
  <2>1. toFlush' = <<"usage", "audit">> /\ Len(toFlush') = 2
    BY <1>4 DEF Closed
  <2>2. \A k \in Kind : ToBeFlushed(k)'
    BY <2>1 DEF ToBeFlushed, Kind
  <2> QED
    BY <1>4, <2>2 DEF Closed
<1>5. CASE Flush
  <2>1. /\ Head(toFlush) \in Kind
        /\ \A k \in Kind : ToBeFlushed(k) => k = Head(toFlush) \/ ToBeFlushed(k)'
    BY <1>5, TailKeeps DEF Flush, ToBeFlushed
  <2>2. batch'[Head(toFlush)] = {} /\ \A k \in Kind : k # Head(toFlush) => batch'[k] = batch[k]
    BY <1>5, <2>1 DEF Flush
  <2> QED
    BY <1>5, <2>1, <2>2 DEF Flush
<1>6. CASE Flushed
  <2>1. ~ \E k \in Kind : ToBeFlushed(k)
    BY <1>6 DEF Flushed, ToBeFlushed
  <2> QED
    BY <1>6, <2>1 DEF Flushed
<1>7. CASE Stop
  BY <1>7 DEF Stop
<1>8. CASE UNCHANGED vars
  BY <1>8 DEF vars, ToBeFlushed
<1> QED
  BY <1>1, <1>2, <1>3, <1>4, <1>5, <1>6, <1>7, <1>8 DEF SinkNext, Work

LEMMA ClosedSafe == SinkSpec => []ClosedInv
<1>1. SinkTypeOK /\ ClosedInv /\ [SinkNext]_vars => ClosedInv'
  BY ClosedStep
<1> QED
  BY <1>1, ClosedInit, SinkTypeCorrect, PTL DEF SinkSpec

(* The worker leaves nothing behind when it returns: whatever the channel  *)
(* took before the last handle went is by then in a table, in a file, or   *)
(* refused by both.                                                        *)
THEOREM ExitsDrained ==
  SinkSpec => [](worker = "exited" => \A e \in Item : caller[e] = "sent" => Settled(e))
<1>1. /\ SinkTypeOK /\ NothingLost /\ ClosedInv
      => (worker = "exited" => \A e \in Item : caller[e] = "sent" => Settled(e))
  <2> SUFFICES ASSUME SinkTypeOK, NothingLost, ClosedInv, worker = "exited",
                      NEW e \in Item, caller[e] = "sent"
               PROVE  Settled(e)
    OBVIOUS
  <2>1. ~InChannel(e)
    BY DEF ClosedInv, InChannel
  <2>2. KindOf[e] \in Kind /\ batch[KindOf[e]] = {}
    BY DEF ClosedInv
  <2> QED
    BY <2>1, <2>2 DEF NothingLost, Settled
<1> QED
  BY <1>1, SinkTypeCorrect, NothingIsLost, ClosedSafe, PTL

(* How many steps the worker is from its end once the last handle is gone: *)
(* an entry is received, and may make a batch full, which is then flushed. *)
ToGo == [select |-> 5, flush |-> 6, drain |-> 2, exited |-> 0, stopped |-> 0]

WorkLeft == 4 * Len(channel) + Len(toFlush) + ToGo[worker]

(* After the last handle went every step of the worker brings it nearer to *)
(* its end, and nothing sets it back: no caller sends any more, and a file *)
(* or a database that is out of order makes no flush longer.               *)
THEOREM ClosedSinkEnds ==
  SinkSpec => [][~open => /\ WorkLeft \in Nat
                          /\ WorkLeft' <= WorkLeft
                          /\ Work => WorkLeft' < WorkLeft]_vars
<1>1. SinkTypeOK /\ SinkTypeOK' /\ ClosedInv /\ [SinkNext]_vars
        => [~open => /\ WorkLeft \in Nat
                     /\ WorkLeft' <= WorkLeft
                     /\ Work => WorkLeft' < WorkLeft]_vars
  <2> SUFFICES ASSUME SinkTypeOK, SinkTypeOK', ClosedInv, [SinkNext]_vars, ~open
               PROVE  /\ WorkLeft \in Nat
                      /\ WorkLeft' <= WorkLeft
                      /\ Work => WorkLeft' < WorkLeft
    OBVIOUS
  <2> DEFINE c == Len(channel)
             f == Len(toFlush)
  <2>1. c \in Nat /\ f \in Nat /\ ToGo[worker] \in Nat
    BY DEF SinkTypeOK, ToGo
  <2>2. c' \in Nat /\ f' \in Nat /\ ToGo[worker'] \in Nat
    BY DEF SinkTypeOK, ToGo
  <2>3. WorkLeft = 4 * c + f + ToGo[worker] /\ WorkLeft' = 4 * c' + f' + ToGo[worker']
    BY DEF WorkLeft
  <2>4. CASE Receive
    <3>1. c' = c - 1
      BY <2>4 DEF Receive, SinkTypeOK
    <3>2. ToGo[worker] = 5
      BY <2>4 DEF Receive, ToGo
    <3>3. \/ f' = 1 /\ ToGo[worker'] = 6
          \/ f' = f /\ worker' = worker
      <4>1. Len(<<KindOf[Head(channel)]>>) = 1
        OBVIOUS
      <4>2. \/ toFlush' = <<KindOf[Head(channel)]>> /\ worker' = "flush"
            \/ toFlush' = toFlush /\ worker' = worker
        BY <2>4 DEF Receive
      <4> QED
        BY <4>1, <4>2 DEF ToGo
    <3> HIDE DEF c, f
    <3> QED
      BY <2>1, <2>2, <2>3, <3>1, <3>2, <3>3
  <2>5. CASE Closed
    <3>1. c' = c /\ f' = 2 /\ ToGo[worker'] = 2 /\ ToGo[worker] = 5
      BY <2>5 DEF Closed, ToGo
    <3> HIDE DEF c, f
    <3> QED
      BY <2>1, <2>3, <3>1
  <2>6. CASE Flush
    <3>1. c' = c /\ f' = f - 1 /\ worker' = worker
      BY <2>6 DEF Flush, SinkTypeOK
    <3> HIDE DEF c, f
    <3> QED
      BY <2>1, <2>2, <2>3, <3>1
  <2>7. CASE Flushed
    <3>1. c' = c /\ f' = f /\ ToGo[worker'] < ToGo[worker]
      BY <2>7 DEF Flushed, SinkTypeOK, ToGo
    <3> HIDE DEF c, f
    <3> QED
      BY <2>1, <2>2, <2>3, <3>1
  <2>8. CASE Stop
    <3>1. c' = 0 /\ f' = 0 /\ ToGo[worker'] = 0 /\ ToGo[worker] > 0
      BY <2>8 DEF Stop, SinkTypeOK, ToGo
    <3> HIDE DEF c, f
    <3> QED
      BY <2>1, <2>2, <2>3, <3>1
  <2>9. CASE ~Work /\ ~Stop
    <3>1. c' = c /\ f' = f /\ worker' = worker
      BY <2>9 DEF SinkNext, Work, Submit, Send, GiveUp, NextItem, Close, Tick, vars, ClosedInv
    <3> HIDE DEF c, f
    <3> QED
      BY <2>1, <2>3, <2>9, <3>1
  <2> HIDE DEF c, f
  <2>10. WorkLeft \in Nat
    BY <2>1, <2>3
  <2> QED
    BY <2>2, <2>4, <2>5, <2>6, <2>7, <2>8, <2>9, <2>10 DEF Work
<1> QED
  BY <1>1, SinkTypeCorrect, ClosedSafe, PTL DEF SinkSpec
=============================================================================
