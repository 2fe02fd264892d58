----------------------------- MODULE AuditSink -----------------------------
(***************************************************************************)
(* The batching sink of logs, crates/audit/src/sink.rs: callers send       *)
(* entries into a bounded channel, and one worker collects them in a batch *)
(* per kind, which it writes in one transaction when the batch is full,    *)
(* when its timer ticks, or when the channel is closed.                    *)
(*                                                                         *)
(* The select of the worker is biased: the timer is looked at only when    *)
(* there is nothing to receive.  A batch that the database refuses goes to *)
(* a file; a file that cannot be opened, or written, is not reported.      *)
(***************************************************************************)
EXTENDS Naturals, Sequences, FiniteSets

CONSTANTS
  Item,         \* usage and audit entries
  KindOf,       \* the kind of each
  BatchSize,    \* entries that make a batch full
  Capacity,     \* places in the channel
  Streaming     \* whether new entries keep coming: an id that was written
                \* then stands for another entry

Kind == {"usage", "audit"}

ASSUME SinkConstants ==
  /\ KindOf \in [Item -> Kind]
  /\ BatchSize \in Nat \ {0} /\ Capacity \in Nat \ {0}
  /\ Streaming \in BOOLEAN

VARIABLES
  caller,       \* where the caller of log_usage or log_audit stands, by entry
  open,         \* whether a sink handle is left
  channel,      \* entries sent and not yet received
  batch,        \* usage_batch and audit_batch
  worker,       \* "select", "flush", "drain", "exited", or "stopped" at any time
  toFlush,      \* kinds that the worker is about to flush, in order
  rows,         \* usage_logs and audit_logs
  file,         \* the fallback files
  lost          \* entries whose line could not be written, or that were in
                \* memory when the process stopped (history)

vars == <<caller, open, channel, batch, worker, toFlush, rows, file, lost>>

SinkInit ==
  /\ caller  = [e \in Item |-> "new"]
  /\ open    = TRUE
  /\ channel = << >>
  /\ batch   = [k \in Kind |-> {}]
  /\ worker  = "select"
  /\ toFlush = << >>
  /\ rows    = {}
  /\ file    = {}
  /\ lost    = {}

InChannel(e) == \E i \in 1..Len(channel) : channel[i] = e

-----------------------------------------------------------------------------
(* Callers.  They wait while the channel is full.                          *)

Submit(e) ==
  /\ open /\ caller[e] = "new"
  /\ caller' = [caller EXCEPT ![e] = "waiting"]
  /\ UNCHANGED <<open, channel, batch, worker, toFlush, rows, file, lost>>

(* Wrong: the channel has no bound.                                        *)
HasRoomAlways == TRUE

HasRoom == Len(channel) < Capacity

Send(e) ==
  /\ caller[e] = "waiting" /\ worker \notin {"exited", "stopped"}
  /\ HasRoom
  /\ caller'  = [caller EXCEPT ![e] = "sent"]
  /\ channel' = Append(channel, e)
  /\ UNCHANGED <<open, batch, worker, toFlush, rows, file, lost>>

(* The future of a waiting caller is dropped, or the receiver is gone.     *)
GiveUp(e) ==
  /\ caller[e] = "waiting"
  /\ caller' = [caller EXCEPT ![e] = "dropped"]
  /\ UNCHANGED <<open, channel, batch, worker, toFlush, rows, file, lost>>

(* The last handle goes.  A caller that waits holds one.                   *)
Close ==
  /\ open
  /\ \A e \in Item : caller[e] # "waiting"
  /\ open' = FALSE
  /\ UNCHANGED <<caller, channel, batch, worker, toFlush, rows, file, lost>>

-----------------------------------------------------------------------------
(* The worker.                                                             *)

Full(entries) == Cardinality(entries) >= BatchSize

Receive ==
  /\ worker = "select" /\ channel # << >>
  /\ LET e == Head(channel)
         k == KindOf[e]
     IN  /\ batch' = [batch EXCEPT ![k] = @ \cup {e}]
         /\ \/ /\ Full(batch[k] \cup {e})
               /\ worker' = "flush" /\ toFlush' = <<k>>
            \/ /\ ~Full(batch[k] \cup {e})
               /\ UNCHANGED <<worker, toFlush>>
  /\ channel' = Tail(channel)
  /\ UNCHANGED <<caller, open, rows, file, lost>>

(* Nothing to receive and the timer is due.                                *)
Tick ==
  /\ worker = "select" /\ channel = << >> /\ open
  /\ \E k \in Kind : batch[k] # {}
  /\ worker' = "flush" /\ toFlush' = <<"usage", "audit">>
  /\ UNCHANGED <<caller, open, channel, batch, rows, file, lost>>

(* Wrong: the worker returns before it flushes.                            *)
ClosedExiting ==
  /\ worker = "select" /\ channel = << >> /\ ~open
  /\ worker' = "exited" /\ toFlush' = <<"usage", "audit">>
  /\ UNCHANGED <<caller, open, channel, batch, rows, file, lost>>

(* Wrong: only the usage batch is flushed at the end.                      *)
ClosedForgettingAudit ==
  /\ worker = "select" /\ channel = << >> /\ ~open
  /\ worker' = "drain" /\ toFlush' = <<"usage">>
  /\ UNCHANGED <<caller, open, channel, batch, rows, file, lost>>

(* recv returns None: every handle is gone and the channel is empty.       *)
Closed ==
  /\ worker = "select" /\ channel = << >> /\ ~open
  /\ worker' = "drain" /\ toFlush' = <<"usage", "audit">>
  /\ UNCHANGED <<caller, open, channel, batch, rows, file, lost>>

(* batch_insert: all of the batch in one transaction.                      *)
Insert(k) == rows' = rows \cup batch[k] /\ UNCHANGED <<file, lost>>

(* Wrong: a refused batch is only reported.                                *)
FallBackToNothing(k) == UNCHANGED <<rows, file, lost>>

(* The transaction fails as a whole.  The lines are appended to the file;  *)
(* any of them may fail when the file is out of order.                     *)
FallBack(k) ==
  /\ \E saved \in SUBSET batch[k] :
       /\ file' = file \cup saved
       /\ lost' = lost \cup (batch[k] \ saved)
  /\ UNCHANGED rows

(* Wrong: a refused batch is kept for the next time.                       *)
FlushKeeping ==
  /\ worker \in {"flush", "drain"} /\ toFlush # << >>
  /\ LET k == Head(toFlush)
     IN  \/ Insert(k) /\ batch' = [batch EXCEPT ![k] = {}]
         \/ UNCHANGED <<rows, file, lost, batch>>
  /\ toFlush' = Tail(toFlush)
  /\ UNCHANGED <<caller, open, channel, worker>>

(* flush_usage or flush_audit; the batch is cleared either way.            *)
Flush ==
  /\ worker \in {"flush", "drain"} /\ toFlush # << >>
  /\ LET k == Head(toFlush)
     IN  /\ Insert(k) \/ FallBack(k)
         /\ batch' = [batch EXCEPT ![k] = {}]
  /\ toFlush' = Tail(toFlush)
  /\ UNCHANGED <<caller, open, channel, worker>>

Flushed ==
  /\ worker \in {"flush", "drain"} /\ toFlush = << >>
  /\ worker' = IF worker = "flush" THEN "select" ELSE "exited"
  /\ UNCHANGED <<caller, open, channel, batch, toFlush, rows, file, lost>>

Work == Receive \/ Closed \/ Flush \/ Flushed

InBatch(e) == \E k \in Kind : e \in batch[k]

(* The process stops with what is in memory.                               *)
Stop ==
  /\ worker \notin {"exited", "stopped"}
  /\ worker'  = "stopped"
  /\ open'    = FALSE
  /\ lost'    = lost \cup {e \in Item : InChannel(e) \/ InBatch(e)}
  /\ channel' = << >>
  /\ batch'   = [k \in Kind |-> {}]
  /\ toFlush' = << >>
  /\ caller'  = [e \in Item |-> IF caller[e] = "sent" THEN "sent" ELSE "dropped"]
  /\ UNCHANGED <<rows, file>>

(* An entry at its end is watched no longer; its id is free for the next.  *)
NextItem(e) ==
  /\ Streaming /\ caller[e] = "sent" /\ e \in rows \cup file \cup lost
  /\ caller' = [caller EXCEPT ![e] = "new"]
  /\ rows'   = rows \ {e}
  /\ file'   = file \ {e}
  /\ lost'   = lost \ {e}
  /\ UNCHANGED <<open, channel, batch, worker, toFlush>>

SinkNext ==
  \/ \E e \in Item : Submit(e) \/ Send(e) \/ GiveUp(e) \/ NextItem(e)
  \/ Close \/ Work \/ Tick \/ Stop

SinkSpec == SinkInit /\ [][SinkNext]_vars

(* The worker runs, and a timer that is due fires the first time the       *)
(* select finds nothing to receive; strong, for it is due from then on.    *)
FairSinkSpec == SinkSpec /\ WF_vars(Work) /\ SF_vars(Tick)

-----------------------------------------------------------------------------
SinkTypeOK ==
  /\ caller  \in [Item -> {"new", "waiting", "sent", "dropped"}]
  /\ open    \in BOOLEAN
  /\ channel \in Seq(Item)
  /\ batch   \in [Kind -> SUBSET Item]
  /\ worker  \in {"select", "flush", "drain", "exited", "stopped"}
  /\ toFlush \in Seq(Kind)
  /\ rows    \subseteq Item
  /\ file    \subseteq Item
  /\ lost    \subseteq Item
  /\ worker \in {"select", "exited", "stopped"} => toFlush = << >>

(* What the sink holds in memory is bounded, whatever the database does:   *)
(* callers wait once the channel is full, and a refused batch is not kept. *)
BufferBounded ==
  /\ Len(channel) <= Capacity
  /\ \A k \in Kind : Cardinality(batch[k]) <= BatchSize
  /\ \A k \in Kind : worker = "select" => Cardinality(batch[k]) < BatchSize

(* "Fallback: to a file, so that nothing is lost" (sink.rs:121).  An entry *)
(* that the channel has taken is in the channel, in a batch, in a table or *)
(* in a file, unless it was refused by both the database and the file, or  *)
(* the process stopped while it was in memory.                             *)
NothingLost ==
  \A e \in Item : caller[e] = "sent" =>
    \/ InChannel(e)
    \/ e \in batch[KindOf[e]]
    \/ e \in rows \cup file \cup lost

Settled(e) == e \in rows \cup file \cup lost

(* The worker drains on close: once the last handle is gone it writes what *)
(* it has been sent, and exits, unless the process stops first.            *)
DrainsOnClose ==
  ~open ~> \/ worker = "stopped"
           \/ worker = "exited" /\ \A e \in Item : caller[e] = "sent" => Settled(e)

(* What comes next from the channel is of entry e's kind.                  *)
MoreOfItsKind(e) ==
  worker = "select" /\ channel # << >> /\ KindOf[Head(channel)] = KindOf[e]

(* "Every 100 entries or every second" (sink.rs:3).  The select is biased, *)
(* so the second only counts when there is nothing to receive, and the 100 *)
(* are counted by kind.  An entry that was sent is written or lost in the  *)
(* end, however busy the channel is, unless from some time on the worker   *)
(* never finds the channel empty and yet no entry of its kind comes: a     *)
(* lone audit record under a stream of usage records.                      *)
WrittenUnlessStarved ==
  \A e \in Item :
    \/ caller[e] = "sent" ~> Settled(e)
    \/ /\ <>[]~(worker = "select" /\ channel = << >>)
       /\ <>[]~MoreOfItsKind(e)
=============================================================================
