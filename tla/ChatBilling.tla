----------------------------- MODULE ChatBilling -----------------------------
(***************************************************************************)
(* POST /v1/chat/completions (crates/api/src/handlers/chat.rs): requests   *)
(* that run concurrently over the credits repository (AtomicLedger, which  *)
(* CreditLedger is proved to implement), the provider_credentials table    *)
(* (ProviderPool), the usage tables and the balance cache, while           *)
(* administrators adjust credits, disable and enable providers, and sync   *)
(* quotas.                                                                 *)
(*                                                                         *)
(* A step ends where the handler awaits: between two steps of a request    *)
(* any other step may happen, and the request may be dropped (the client   *)
(* disconnects, the process stops).  All requests name one logical model;  *)
(* the order in which RouteSelector lists its candidates is abstracted to  *)
(* any order.                                                              *)
(***************************************************************************)
EXTENDS AtomicLedger, ProviderPool

CONSTANTS
  Request,      \* chat requests
  Owner,        \* account of each request's API token
  Mapping,      \* rows of model_providers for the logical model
  ProviderOf,   \* provider of each mapping
  Tokens,       \* totals that resolve_usage may give
  Fault,        \* ways in which an upstream call fails
  AdminCall,    \* calls of POST /v1/admin/credits/adjust
  Adjustment,   \* account and delta of each such call
  OfficialUsed  \* figures given to POST /v1/admin/providers/{id}/sync-quota

(* Status 402, 429, or 403 naming a quota; a status of 500 or more; the    *)
(* client's timeout; a failed connection; any other status or error.       *)
FaultKinds == {"quota", "server", "timeout", "connect", "caller"}

Replies == {"bad_request", "no_provider", "insufficient", "upstream_error",
            "internal", "ok"}

PlaceCall(r) == <<r, "place">>          \* also the id of the request's hold
CloseCall(r) == <<r, "close">>

ASSUME ChatConstants ==
  /\ Owner \in [Request -> Account]
  /\ ProviderOf \in [Mapping -> Provider]
  /\ Tokens \subseteq Int
  /\ Fault \subseteq FaultKinds
  /\ FaultKinds \cup {"admin"} \subseteq Reason
  /\ Request \X {"place", "close"} \subseteq Call
  /\ AdminCall \subseteq Call \ (Request \X {"place", "close"})
  /\ Adjustment \in [AdminCall -> [account : Account, delta : Delta]]
  /\ OfficialUsed \subseteq Int
  /\ None \notin Mapping \cup FaultKinds \cup Replies \cup Int
                  \cup [cost : Cost, tokens : Tokens]

VARIABLES
  pc,              \* where each request's handler is
  gone,            \* requests dropped before they answered; pc tells where
  reply,           \* the response of a request that is done
  unseen,          \* mappings whose provider the handler has still to look up
  todo,            \* candidates still to try
  target,          \* mapping called last
  fault,           \* why it failed, when it is to be disabled
  charge,          \* cost and tokens of the upstream's answer
  refill,          \* balance that settle_hold returned
  cached,          \* balance:<account> in the cache
  logged,          \* requests with a row in usage_logs
  accountCredits,  \* account_usage_summary.credits
  providerTokens,  \* provider_usage_summary.tokens_used
  notices          \* alerts delivered for each provider since its last sync

request  == <<gone, reply, unseen, todo, target, fault, charge, refill>>
usage    == <<logged, accountCredits, providerTokens>>
chatVars == <<ledgerVars, pool, pc, request, cached, usage, notices>>

ChatInit ==
  /\ LedgerInit /\ PoolInit
  /\ pc = [r \in Request |-> "arrived"]
  /\ gone = {}
  /\ reply  = [r \in Request |-> None]
  /\ unseen = [r \in Request |-> Mapping]
  /\ todo   = [r \in Request |-> {}]
  /\ target = [r \in Request |-> None]
  /\ fault  = [r \in Request |-> None]
  /\ charge = [r \in Request |-> None]
  /\ refill = [r \in Request |-> None]
  /\ cached = [a \in Account |-> None]
  /\ logged = {}
  /\ accountCredits = [a \in Account |-> 0]
  /\ providerTokens = [p \in Provider |-> 0]
  /\ notices = [p \in Provider |-> 0]

-----------------------------------------------------------------------------
(* The handler.                                                            *)

At(r, place) == pc[r] = place /\ r \notin gone
GoTo(r, place) == pc' = [pc EXCEPT ![r] = place]

Answer(r, response) ==
  /\ GoTo(r, "done")
  /\ reply' = [reply EXCEPT ![r] = response]
  /\ UNCHANGED <<gone, unseen, todo, target, fault, charge, refill>>

TargetOf(r) == ProviderOf[target[r]]

(* Stream asked for, unknown model, or an error of the first queries.      *)
Reject(r) ==
  /\ At(r, "arrived")
  /\ \E response \in {"bad_request", "internal"} : Answer(r, response)
  /\ UNCHANGED <<ledgerVars, pool, cached, usage, notices>>

(* Each mapping's provider is a query of its own: the candidates are no    *)
(* snapshot of the table.                                                  *)
LookUp(r, m) ==
  /\ At(r, "arrived") /\ m \in unseen[r]
  /\ unseen' = [unseen EXCEPT ![r] = @ \ {m}]
  /\ todo' = [todo EXCEPT ![r] = IF IsActive(ProviderOf[m]) THEN @ \cup {m} ELSE @]
  /\ UNCHANGED <<ledgerVars, pool, pc, gone, reply, target, fault, charge, refill,
                 cached, usage, notices>>

NoCandidate(r) ==
  /\ At(r, "arrived") /\ unseen[r] = {} /\ todo[r] = {}
  /\ Answer(r, "no_provider")
  /\ UNCHANGED <<ledgerVars, pool, cached, usage, notices>>

HasCandidates(r) == At(r, "arrived") /\ unseen[r] = {} /\ todo[r] # {}

Place(r) ==
  /\ HasCandidates(r)
  /\ \E e \in Estimate : PlaceHold(PlaceCall(r), Owner[r], e)
  /\ GoTo(r, "trying")
  /\ UNCHANGED <<pool, request, cached, usage, notices>>

PlaceFails(r) ==
  /\ HasCandidates(r)
  /\ NoEffect(PlaceCall(r))
  /\ Answer(r, IF outcome'[PlaceCall(r)] = "none" THEN "insufficient" ELSE "internal")
  /\ UNCHANGED <<pool, cached, usage, notices>>

(* Wrong: the candidate stays in the list.                                 *)
CallUpstreamAgain(r, m) ==
  /\ At(r, "trying") /\ m \in todo[r]
  /\ target' = [target EXCEPT ![r] = m]
  /\ GoTo(r, "waiting")
  /\ UNCHANGED <<ledgerVars, pool, gone, reply, unseen, todo, fault, charge, refill,
                 cached, usage, notices>>

CallUpstream(r, m) ==
  /\ At(r, "trying") /\ m \in todo[r]
  /\ todo' = [todo EXCEPT ![r] = @ \ {m}]
  /\ target' = [target EXCEPT ![r] = m]
  /\ GoTo(r, "waiting")
  /\ UNCHANGED <<ledgerVars, pool, gone, reply, unseen, fault, charge, refill,
                 cached, usage, notices>>

(* Wrong: an answer without usage is not priced (no estimate as fallback). *)
UpstreamAnswersUnpriced(r) ==
  /\ At(r, "waiting")
  /\ GoTo(r, "settling")
  /\ UNCHANGED <<ledgerVars, pool, request, cached, usage, notices>>

UpstreamAnswers(r) ==
  /\ At(r, "waiting")
  /\ \E cost \in Cost, n \in Tokens :
       charge' = [charge EXCEPT ![r] = [cost |-> cost, tokens |-> n]]
  /\ GoTo(r, "settling")
  /\ UNCHANGED <<ledgerVars, pool, gone, reply, unseen, todo, target, fault, refill,
                 cached, usage, notices>>

(* QuotaErrorDetector::classify                                            *)
ShouldDisable(f) == f # "caller"

UpstreamFails(r, f) ==
  /\ At(r, "waiting")
  /\ GoTo(r, IF ShouldDisable(f) THEN "disabling" ELSE "releasing")
  /\ fault' = [fault EXCEPT ![r] = f]
  /\ UNCHANGED <<ledgerVars, pool, gone, reply, unseen, todo, target, charge, refill,
                 cached, usage, notices>>

(* The result of set_status is ignored: it may have failed.                *)
Disable(r) ==
  /\ At(r, "disabling")
  /\ SetStatus(TargetOf(r), fault[r]) \/ UNCHANGED pool
  /\ GoTo(r, "trying")
  /\ UNCHANGED <<ledgerVars, request, cached, usage, notices>>

(* A fault that is the caller's, or no candidate left: release the hold.   *)
(* The result of release_hold is ignored: it may have had no effect.       *)
GivesUp(r) == At(r, "releasing") \/ (At(r, "trying") /\ todo[r] = {})

(* Wrong: the early return forgets the hold.                               *)
ReleaseForgotten(r) ==
  /\ GivesUp(r)
  /\ Answer(r, "upstream_error")
  /\ UNCHANGED <<ledgerVars, pool, cached, usage, notices>>

Release(r) ==
  /\ GivesUp(r)
  /\ ReleaseHold(CloseCall(r), PlaceCall(r)) \/ NoEffect(CloseCall(r))
  /\ Answer(r, "upstream_error")
  /\ UNCHANGED <<pool, cached, usage, notices>>

Settle(r) ==
  /\ At(r, "settling")
  /\ SettleHold(CloseCall(r), PlaceCall(r), charge[r].cost)
  /\ refill' = [refill EXCEPT ![r] = balance'[Owner[r]]]
  /\ GoTo(r, "caching")
  /\ UNCHANGED <<pool, gone, reply, unseen, todo, target, fault, charge,
                 cached, usage, notices>>

(* Wrong: Ok(None) of settle_hold is taken for success.                    *)
SettleFailsUnseen(r) ==
  /\ At(r, "settling")
  /\ NoEffect(CloseCall(r))
  /\ refill' = [refill EXCEPT ![r] = balance[Owner[r]]]
  /\ GoTo(r, "caching")
  /\ UNCHANGED <<pool, gone, reply, unseen, todo, target, fault, charge,
                 cached, usage, notices>>

SettleFails(r) ==
  /\ At(r, "settling")
  /\ NoEffect(CloseCall(r))
  /\ Answer(r, "internal")
  /\ UNCHANGED <<pool, cached, usage, notices>>

(* The result of the cache write is ignored.                               *)
CacheBalance(r) ==
  /\ At(r, "caching")
  /\ cached' \in {[cached EXCEPT ![Owner[r]] = refill[r]], cached}
  /\ GoTo(r, "recording")
  /\ UNCHANGED <<ledgerVars, pool, request, usage, notices>>

(* insert_and_aggregate: one transaction over three tables.                *)
Record(r) ==
  /\ At(r, "recording")
  /\ logged' = logged \cup {r}
  /\ accountCredits' = [accountCredits EXCEPT ![Owner[r]] = @ + charge[r].cost]
  /\ providerTokens' = [providerTokens EXCEPT ![TargetOf(r)] = @ + charge[r].tokens]
  /\ GoTo(r, "metering")
  /\ UNCHANGED <<ledgerVars, pool, request, cached, notices>>

(* Wrong: the error of insert_and_aggregate is ignored.                    *)
RecordFailsUnseen(r) ==
  /\ At(r, "recording")
  /\ Answer(r, "ok")
  /\ UNCHANGED <<ledgerVars, pool, cached, usage, notices>>

RecordFails(r) ==
  /\ At(r, "recording")
  /\ Answer(r, "internal")
  /\ UNCHANGED <<ledgerVars, pool, cached, usage, notices>>

(* The handler decides on the values that add_usage returned.              *)
Meter(r) ==
  /\ At(r, "metering")
  /\ AddUsage(TargetOf(r), charge[r].tokens)
  /\ IF ~alertSent[TargetOf(r)] /\ ReachesThreshold(TargetOf(r), used'[TargetOf(r)])
     THEN GoTo(r, "marking") /\ UNCHANGED request
     ELSE Answer(r, "ok")
  /\ UNCHANGED <<ledgerVars, cached, usage, notices>>

MeterFails(r) ==
  /\ At(r, "metering")
  /\ Answer(r, "ok")
  /\ UNCHANGED <<ledgerVars, pool, cached, usage, notices>>

(* The result of mark_alert_sent is ignored.                               *)
Mark(r) ==
  /\ At(r, "marking")
  /\ MarkAlertSent(TargetOf(r)) \/ UNCHANGED pool
  /\ GoTo(r, "notifying")
  /\ UNCHANGED <<ledgerVars, request, cached, usage, notices>>

Notify(r) ==
  /\ At(r, "notifying")
  /\ notices' = [notices EXCEPT ![TargetOf(r)] = @ + 1]
  /\ Answer(r, "ok")
  /\ UNCHANGED <<ledgerVars, pool, cached, usage>>

Handler(r) ==
  \/ Reject(r) \/ NoCandidate(r)
  \/ \E m \in Mapping : LookUp(r, m) \/ CallUpstream(r, m)
  \/ Place(r) \/ PlaceFails(r)
  \/ UpstreamAnswers(r) \/ (\E f \in Fault : UpstreamFails(r, f))
  \/ Disable(r) \/ Release(r)
  \/ Settle(r) \/ SettleFails(r) \/ CacheBalance(r)
  \/ Record(r) \/ RecordFails(r)
  \/ Meter(r) \/ MeterFails(r) \/ Mark(r) \/ Notify(r)

(* The future of a handler is dropped at an await: the client went away,   *)
(* or the process stopped (every request in flight is then dropped).       *)
Drop(r) ==
  /\ r \notin gone /\ pc[r] # "done"
  /\ gone' = gone \cup {r}
  /\ UNCHANGED <<ledgerVars, pool, pc, reply, unseen, todo, target, fault, charge, refill,
                 cached, usage, notices>>

-----------------------------------------------------------------------------
(* The administrators, and the clock of the cache.                         *)

chatOnly == <<pc, request, cached, usage>>

CreateAccount(a) == OpenAccount(a) /\ UNCHANGED <<pool, chatOnly, notices>>

(* The adjustment of adjust_credits; its audit record is a statement of    *)
(* its own, afterwards (CreditAdmin).                                      *)
AdjustCredits(c) ==
  /\ Adjust(c, Adjustment[c].account, Adjustment[c].delta) \/ NoEffect(c)
  /\ UNCHANGED <<pool, chatOnly, notices>>

SetProviderStatus(p, s) ==
  /\ SetStatus(p, s)
  /\ UNCHANGED <<ledgerVars, chatOnly, notices>>

SyncProviderQuota(p, n) ==
  /\ SyncQuota(p, n)
  /\ notices' = [notices EXCEPT ![p] = 0]
  /\ UNCHANGED <<ledgerVars, chatOnly>>

(* The cache forgets a balance after 10 s.                                 *)
Expire(a) ==
  /\ cached' = [cached EXCEPT ![a] = None]
  /\ UNCHANGED <<ledgerVars, pool, pc, request, usage, notices>>

ChatNext ==
  \/ \E r \in Request : Handler(r) \/ Drop(r)
  \/ \E a \in Account : CreateAccount(a) \/ Expire(a)
  \/ \E c \in AdminCall : AdjustCredits(c)
  \/ \E p \in Provider :
       \/ \E s \in {"active", "admin"} : SetProviderStatus(p, s)
       \/ \E n \in OfficialUsed : SyncProviderQuota(p, n)

ChatSpec == ChatInit /\ [][ChatNext]_chatVars

(* Every await of the handler returns: the upstream client gives up after  *)
(* 120 s, SQLite after 5 s of a busy database, and the pool after its own  *)
(* timeout; the runtime polls every task that can run.  The cache in       *)
(* memory does not wait.  Of Redis it is an assumption: it answers, or its *)
(* connection breaks; the code sets no timeout for an answer.              *)
FairChatSpec == ChatSpec /\ \A r \in Request : WF_chatVars(Handler(r))

-----------------------------------------------------------------------------
(* Properties.                                                             *)

Places == {"arrived", "trying", "waiting", "disabling", "releasing", "settling",
           "caching", "recording", "metering", "marking", "notifying", "done"}

(* What a request has learnt by the place it has reached.                  *)
RequestsOK ==
  \A r \in Request :
    /\ pc[r] = "done" <=> reply[r] # None
    /\ pc[r] \notin {"arrived", "trying", "done"} => target[r] # None
    /\ pc[r] = "disabling" => fault[r] # None
    /\ pc[r] \in {"settling", "caching", "recording", "metering", "marking",
                  "notifying"} => charge[r] # None
    /\ pc[r] = "caching" => refill[r] # None

HandlerTypeOK ==
  /\ pc \in [Request -> Places]
  /\ gone \in SUBSET Request
  /\ reply \in [Request -> Replies \cup {None}]
  /\ unseen \in [Request -> SUBSET Mapping]
  /\ todo \in [Request -> SUBSET Mapping]
  /\ target \in [Request -> Mapping \cup {None}]
  /\ fault \in [Request -> Fault \cup {None}]
  /\ charge \in [Request -> [cost : Cost, tokens : Tokens] \cup {None}]
  /\ refill \in [Request -> Int \cup {None}]

UsageTypeOK ==
  /\ cached \in [Account -> Int \cup {None}]
  /\ logged \in SUBSET Request
  /\ accountCredits \in [Account -> Int]
  /\ providerTokens \in [Provider -> Int]
  /\ notices \in [Provider -> Nat]

(* Every variable has its type, and a request has what it needs to go on.  *)
ChatTypeOK ==
  LedgerTypeOK /\ PoolTypeOK /\ HandlerTypeOK /\ UsageTypeOK /\ RequestsOK

HoldOf(r) == hold[PlaceCall(r)]
HoldIs(r, s) == HoldOf(r) # None /\ HoldOf(r).status = s

(* The hold follows the request, wherever the request is or was dropped:   *)
(* none before place_hold, held while an upstream may still be called or   *)
(* has just answered, settled once settle_hold returned, recorded in       *)
(* usage_logs once insert_and_aggregate returned.  No other request closes *)
(* it, and it belongs to the account of the token.                         *)
HoldFollowsRequest ==
  \A r \in Request :
    /\ HoldOf(r) # None => HoldOf(r).account = Owner[r]
    /\ pc[r] = "arrived" => HoldOf(r) = None
    /\ pc[r] \in {"trying", "waiting", "disabling", "releasing", "settling"} =>
         HoldIs(r, "held")
    /\ pc[r] \in {"caching", "recording", "metering", "marking", "notifying"} =>
         HoldIs(r, "settled")
    /\ r \in logged => pc[r] \in {"metering", "marking", "notifying", "done"}
    /\ pc[r] \in {"metering", "marking", "notifying"} => r \in logged

(* The response tells the truth about the money: "ok" means charged and    *)
(* recorded; an upstream error means not charged; every other refusal but  *)
(* an internal error means that nothing was ever put on hold.              *)
ReplyMatchesLedger ==
  \A r \in Request :
    /\ reply[r] = "ok" => HoldIs(r, "settled") /\ r \in logged
    /\ reply[r] = "upstream_error" => HoldOf(r) # None /\ ~HoldIs(r, "settled")
    /\ reply[r] \in {"bad_request", "no_provider", "insufficient"} => HoldOf(r) = None

(* Credit stays on hold after its request only if closing the hold had no  *)
(* effect, or the request was dropped.                                     *)
StuckOnlyAfterFailure ==
  \A r \in Request :
    pc[r] = "done" /\ HoldIs(r, "held") => outcome[CloseCall(r)] \in {"none", "error"}

(* A provider's alerts are silenced only after a notice: the flag is set   *)
(* only if a notice went out since the last sync, or a request has come to *)
(* the point of sending it (and may have been dropped there: a notice can  *)
(* be lost, because the flag is set before the notice is sent).            *)
SilencedOnlyAfterNotice ==
  \A p \in Provider :
    alertSent[p] => \/ notices[p] > 0
                    \/ \E r \in Request : pc[r] = "notifying" /\ TargetOf(r) = p

(* Every request is answered, whatever the upstreams do, unless dropped.   *)
EveryRequestEnds == \A r \in Request : <>(pc[r] = "done" \/ r \in gone)

-----------------------------------------------------------------------------
(* What the design, the comments and the code disagree about.              *)

(* Design, line 763: the estimate is put on hold before the call, and the  *)
(* difference to the actual cost is settled after it.  A request that has  *)
(* been answered then keeps nothing on hold.                               *)
NothingHeldAfterReply == \A r \in Request : pc[r] = "done" => ~HoldIs(r, "held")

(* fallback.rs, line 79: a timeout is no quota problem and does not        *)
(* disable the provider.                                                   *)
TimeoutDisablesNoProvider == \A p \in Provider : status[p] # "timeout"
=============================================================================
