-------------------------- MODULE ChatBillingProofs --------------------------
(***************************************************************************)
(* Proofs about ChatBilling: the handler uses the ledger only through its  *)
(* calls, so the ledger's promises hold under it; the hold, the response   *)
(* and the usage log of each request stay in step.                         *)
(*                                                                         *)
(* The invariant is a conjunction over requests.  A step is a step of one  *)
(* request, or of none: for every other request it changes nothing that    *)
(* its part of the invariant speaks of (Frame), and for the request itself *)
(* the part is established action by action (OwnStep).  set_credits and    *)
(* the audit records, which CreditAdmin adds, are more steps of no request *)
(* (SetKeeps, RecordedBooks).  The last part is about the amounts, which   *)
(* ChatConstants takes for granted.                                        *)
(*                                                                         *)
(* CreditLedgerProofs is here for LedgerSafe and LedgerClosesOnce; ChatSpec*)
(* does not speak of the variables version and txn of CreditLedger.        *)
(***************************************************************************)
EXTENDS CreditAdmin, Billing, CreditLedgerProofs

RequestInv(r) ==
  /\ pc[r] = "done" <=> reply[r] # None
  /\ pc[r] \notin {"arrived", "trying", "done"} => target[r] # None
  /\ pc[r] = "disabling" => fault[r] # None
  /\ pc[r] \in {"settling", "caching", "recording", "metering", "marking",
                "notifying"} => charge[r] # None
  /\ pc[r] = "caching" => refill[r] # None
  /\ HoldOf(r) # None => HoldOf(r).account = Owner[r]
  /\ pc[r] = "arrived" => HoldOf(r) = None
  /\ pc[r] \in {"trying", "waiting", "disabling", "releasing", "settling"} =>
       HoldIs(r, "held")
  /\ pc[r] \in {"caching", "recording", "metering", "marking", "notifying"} =>
       HoldIs(r, "settled")
  /\ r \in logged => pc[r] \in {"metering", "marking", "notifying", "done"}
  /\ pc[r] \in {"metering", "marking", "notifying"} => r \in logged
  /\ reply[r] = "ok" => HoldIs(r, "settled") /\ r \in logged
  /\ reply[r] = "upstream_error" => HoldOf(r) # None /\ ~HoldIs(r, "settled")
  /\ reply[r] \in {"bad_request", "no_provider", "insufficient"} => HoldOf(r) = None
  /\ pc[r] = "done" /\ HoldIs(r, "held") => outcome[CloseCall(r)] \in {"none", "error"}

RequestsInv == \A r \in Request : RequestInv(r)
TypesInv    == LedgerTypeOK /\ PoolTypeOK /\ HandlerTypeOK /\ UsageTypeOK
ChatInv     == LedgerInv /\ TypesInv /\ RequestsInv

LEMMA InvImpliesProperties ==
  ChatInv => /\ ChatTypeOK /\ HoldFollowsRequest /\ ReplyMatchesLedger
             /\ StuckOnlyAfterFailure
BY DEF ChatInv, TypesInv, ChatTypeOK, RequestsInv, RequestInv, RequestsOK,
       HoldFollowsRequest, ReplyMatchesLedger, StuckOnlyAfterFailure

-----------------------------------------------------------------------------
(* What a request knows.                                                   *)

LEMMA Calls ==
  ASSUME NEW r \in Request
  PROVE  /\ PlaceCall(r) \in Call /\ CloseCall(r) \in Call
         /\ Owner[r] \in Account
         /\ PlaceCall(r) # CloseCall(r)
         /\ \A q \in Request : q # r => PlaceCall(q) # PlaceCall(r)
BY ChatConstants DEF PlaceCall, CloseCall

LEMMA Target ==
  ASSUME HandlerTypeOK, NEW r \in Request, RequestInv(r),
         pc[r] \notin {"arrived", "trying", "done"}
  PROVE  target[r] \in Mapping /\ TargetOf(r) \in Provider
BY ChatConstants DEF HandlerTypeOK, RequestInv, TargetOf

LEMMA Charge ==
  ASSUME HandlerTypeOK, NEW r \in Request, RequestInv(r),
         pc[r] \in {"settling", "caching", "recording", "metering", "marking",
                    "notifying"}
  PROVE  /\ charge[r] \in [cost : Cost, tokens : Tokens]
         /\ charge[r].cost \in Cost /\ charge[r].cost \in Int
         /\ charge[r].tokens \in Int
<1>1. charge[r] \in [cost : Cost, tokens : Tokens]
  BY DEF HandlerTypeOK, RequestInv
<1>2. charge[r].cost \in Cost /\ charge[r].tokens \in Tokens
  BY <1>1
<1>3. Cost \subseteq Int /\ Tokens \subseteq Int
  BY ChatConstants, LedgerConstants
<1> QED
  BY <1>1, <1>2, <1>3

-----------------------------------------------------------------------------
(* Every step of ChatBilling is a step of the ledger or leaves it alone.   *)

LEMMA HandlerUsesLedger ==
  ASSUME HandlerTypeOK, NEW r \in Request, RequestInv(r), Handler(r)
  PROVE  [LedgerNext]_ledgerVars
<1>1. PlaceCall(r) \in Call /\ CloseCall(r) \in Call /\ Owner[r] \in Account
  BY Calls
<1>2. CASE Place(r)
  BY <1>1, <1>2 DEF Place, LedgerNext
<1>3. CASE PlaceFails(r)
  BY <1>1, <1>3 DEF PlaceFails, LedgerNext
<1>4. CASE Release(r)
  BY <1>1, <1>4 DEF Release, LedgerNext
<1>5. CASE SettleFails(r)
  BY <1>1, <1>5 DEF SettleFails, LedgerNext
<1>6. CASE Settle(r)
  <2>1. charge[r].cost \in Cost
    BY <1>6, Charge DEF Settle, At
  <2> QED
    BY <1>1, <1>6, <2>1 DEF Settle, LedgerNext
<1>7. CASE UNCHANGED ledgerVars
  BY <1>7
<1>8. \/ Place(r) \/ PlaceFails(r) \/ Release(r) \/ SettleFails(r) \/ Settle(r)
      \/ UNCHANGED ledgerVars
  BY DEF Handler, Reject, NoCandidate, LookUp, CallUpstream, UpstreamAnswers,
         UpstreamFails, Disable, CacheBalance, Record, RecordFails, Meter, MeterFails,
         Mark, Notify
<1> QED
  BY <1>2, <1>3, <1>4, <1>5, <1>6, <1>7, <1>8

LEMMA ChatUsesLedger ==
  ASSUME HandlerTypeOK, RequestsInv, [ChatNext]_chatVars
  PROVE  [LedgerNext]_ledgerVars
<1>1. ASSUME NEW r \in Request, Handler(r)
      PROVE  [LedgerNext]_ledgerVars
  BY <1>1, HandlerUsesLedger DEF RequestsInv
<1>2. ASSUME NEW a \in Account, CreateAccount(a)
      PROVE  [LedgerNext]_ledgerVars
  BY <1>2 DEF CreateAccount, LedgerNext
<1>3. ASSUME NEW c \in AdminCall, AdjustCredits(c)
      PROVE  [LedgerNext]_ledgerVars
  <2>1. /\ c \in Call
        /\ Adjustment[c].account \in Account /\ Adjustment[c].delta \in Delta
    BY ChatConstants
  <2> QED
    BY <1>3, <2>1 DEF AdjustCredits, LedgerNext
<1>4. \/ \E r \in Request : Handler(r)
      \/ \E a \in Account : CreateAccount(a)
      \/ \E c \in AdminCall : AdjustCredits(c)
      \/ UNCHANGED ledgerVars
  BY DEF ChatNext, Drop, Expire, SetProviderStatus, SyncProviderQuota, chatVars
<1> QED
  BY <1>1, <1>2, <1>3, <1>4

-----------------------------------------------------------------------------
(* What the calls of the ledger do to one hold and to one outcome.         *)

LEMMA ReturnOnce ==
  ASSUME LedgerTypeOK, NEW c \in Call, NEW result, Return(c, result)
  PROVE  /\ outcome'[c] = result
         /\ \A d \in Call : outcome[d] # "idle" => outcome'[d] = outcome[d]
BY DEF LedgerTypeOK, Return

LEMMA PlacedHold ==
  ASSUME LedgerTypeOK, NEW c \in Call, NEW a \in Account, NEW e \in Estimate,
         PlaceHold(c, a, e)
  PROVE  /\ hold'[c] # None /\ hold'[c].status = "held" /\ hold'[c].account = a
         /\ \A d \in Call : d # c => hold'[d] = hold[d]
<1> DEFINE row == [status |-> "held", account |-> a, amount |-> e]
<1>1. hold' = [hold EXCEPT ![c] = row]
  BY DEF PlaceHold
<1>2. row \in HoldRow /\ row.status = "held" /\ row.account = a
  BY DEF HoldRow
<1> HIDE DEF row
<1>3. hold'[c] = row /\ \A d \in Call : d # c => hold'[d] = hold[d]
  BY <1>1 DEF LedgerTypeOK
<1> QED
  BY <1>2, <1>3, LedgerConstants

LEMMA ClosedHold ==
  ASSUME LedgerTypeOK, NEW h \in Call, IsOpenHold(h), NEW closed \in {"settled", "released"},
         hold' = [hold EXCEPT ![h] = [@ EXCEPT !.status = closed]]
  PROVE  /\ hold'[h] # None /\ hold'[h].status = closed
         /\ hold'[h].account = hold[h].account
         /\ \A d \in Call : d # h => hold'[d] = hold[d]
<1> DEFINE row == [hold[h] EXCEPT !.status = closed]
<1>1. hold[h] \in HoldRow
  BY HeldHold
<1>2. row \in HoldRow /\ row.status = closed /\ row.account = hold[h].account
  BY <1>1 DEF HoldRow
<1>3. hold' = [hold EXCEPT ![h] = row]
  BY Zenon
<1> HIDE DEF row
<1>4. hold'[h] = row /\ \A d \in Call : d # h => hold'[d] = hold[d]
  BY <1>3 DEF LedgerTypeOK
<1> QED
  BY <1>2, <1>4, LedgerConstants

-----------------------------------------------------------------------------
(* A step that leaves request r alone keeps its part of the invariant.     *)

Frame(r) ==
  /\ pc'[r] = pc[r] /\ reply'[r] = reply[r] /\ target'[r] = target[r]
  /\ fault'[r] = fault[r] /\ charge'[r] = charge[r] /\ refill'[r] = refill[r]
  /\ hold'[PlaceCall(r)] = hold[PlaceCall(r)]
  /\ r \in logged' <=> r \in logged
  /\ outcome[CloseCall(r)] # "idle" => outcome'[CloseCall(r)] = outcome[CloseCall(r)]

LEMMA FrameKeeps ==
  ASSUME NEW r \in Request, RequestInv(r), Frame(r)
  PROVE  RequestInv(r)'
BY DEF RequestInv, Frame, HoldOf, HoldIs

LEMMA QuietFrame ==
  ASSUME NEW r \in Request, UNCHANGED <<ledgerVars, pc, request, logged>>
  PROVE  Frame(r)
BY DEF Frame, ledgerVars, ledger, request

(* The steps of another request.                                           *)
LEMMA OtherFrame ==
  ASSUME LedgerTypeOK, HandlerTypeOK, NEW r \in Request, NEW q \in Request, q # r,
         RequestInv(q), Handler(q)
  PROVE  Frame(r)
<1>1. /\ PlaceCall(q) \in Call /\ CloseCall(q) \in Call /\ PlaceCall(r) \in Call
      /\ CloseCall(r) \in Call /\ PlaceCall(q) # PlaceCall(r) /\ Owner[q] \in Account
  BY Calls
<1>2. /\ pc'[r] = pc[r] /\ reply'[r] = reply[r] /\ target'[r] = target[r]
      /\ fault'[r] = fault[r] /\ charge'[r] = charge[r] /\ refill'[r] = refill[r]
      /\ r \in logged' <=> r \in logged
  BY DEF Handler, Reject, NoCandidate, LookUp, CallUpstream, UpstreamAnswers,
         UpstreamFails, Disable, CacheBalance, Record, RecordFails, Meter, MeterFails,
         Mark, Notify, Place, PlaceFails, Release, Settle, SettleFails, Answer, GoTo,
         request, usage, HandlerTypeOK
<1>3. /\ hold'[PlaceCall(r)] = hold[PlaceCall(r)]
      /\ outcome[CloseCall(r)] # "idle" => outcome'[CloseCall(r)] = outcome[CloseCall(r)]
  <2>1. ASSUME NEW e \in Estimate, PlaceHold(PlaceCall(q), Owner[q], e)
        PROVE  <1>3!:
    BY <1>1, <2>1, PlacedHold, ReturnOnce DEF PlaceHold
  <2>2. ASSUME NEW c \in Call, NoEffect(c)
        PROVE  <1>3!:
    BY <1>1, <2>2, ReturnOnce DEF NoEffect, ledger
  <2>3. ASSUME ReleaseHold(CloseCall(q), PlaceCall(q))
        PROVE  <1>3!:
    <3>1. /\ IsOpenHold(PlaceCall(q))
          /\ hold' = [hold EXCEPT ![PlaceCall(q)] = [@ EXCEPT !.status = "released"]]
          /\ Return(CloseCall(q), "ok")
      BY <2>3, Zenon DEF ReleaseHold, CanRelease
    <3> QED
      BY <1>1, <3>1, ClosedHold, ReturnOnce
  <2>4. ASSUME NEW cost, SettleHold(CloseCall(q), PlaceCall(q), cost)
        PROVE  <1>3!:
    <3>1. /\ IsOpenHold(PlaceCall(q))
          /\ hold' = [hold EXCEPT ![PlaceCall(q)] = [@ EXCEPT !.status = "settled"]]
          /\ Return(CloseCall(q), "ok")
      BY <2>4, Zenon DEF SettleHold, CanSettle
    <3> QED
      BY <1>1, <3>1, ClosedHold, ReturnOnce
  <2>5. CASE UNCHANGED ledgerVars
    BY <2>5 DEF ledgerVars, ledger
  <2> QED
    BY <1>1, <2>1, <2>2, <2>3, <2>4, <2>5
       DEF Handler, Reject, NoCandidate, LookUp, CallUpstream, UpstreamAnswers,
           UpstreamFails, Disable, CacheBalance, Record, RecordFails, Meter, MeterFails,
           Mark, Notify, Place, PlaceFails, Release, Settle, SettleFails
<1> QED
  BY <1>2, <1>3 DEF Frame

-----------------------------------------------------------------------------
(* The steps of the request itself.                                        *)

LEMMA OwnStep ==
  ASSUME TypesInv, LedgerTypeOK', NEW r \in Request, RequestInv(r), Handler(r)
  PROVE  RequestInv(r)'
<1> USE DEF TypesInv
<1>1. /\ PlaceCall(r) \in Call /\ CloseCall(r) \in Call /\ Owner[r] \in Account
      /\ None \notin Mapping /\ None \notin Fault /\ None \notin Replies /\ None \notin Int
      /\ None \notin [cost : Cost, tokens : Tokens]
  BY Calls, ChatConstants
<1>2. CASE Reject(r) \/ NoCandidate(r)
  BY <1>1, <1>2 DEF Reject, NoCandidate, At, Answer, GoTo, RequestInv, HoldOf, HoldIs,
     HandlerTypeOK, Replies, ledgerVars, ledger, usage
<1>3. CASE \E m \in Mapping : LookUp(r, m)
  BY <1>1, <1>3 DEF LookUp, At, RequestInv, HoldOf, HoldIs, ledgerVars, ledger, usage
<1>4. CASE Place(r)
  <2>1. PICK e \in Estimate : PlaceHold(PlaceCall(r), Owner[r], e)
    BY <1>4 DEF Place
  <2>2. /\ hold'[PlaceCall(r)] # None /\ hold'[PlaceCall(r)].status = "held"
        /\ hold'[PlaceCall(r)].account = Owner[r]
    BY <1>1, <2>1, PlacedHold
  <2> QED
    BY <1>1, <1>4, <2>2 DEF Place, HasCandidates, At, GoTo, RequestInv, HoldOf, HoldIs,
       HandlerTypeOK, Replies, request, usage
<1>5. CASE PlaceFails(r)
  <2>1. UNCHANGED ledger /\ NoEffect(PlaceCall(r))
    BY <1>5 DEF PlaceFails, NoEffect
  <2>2. reply'[r] \in {"insufficient", "internal"} /\ pc'[r] = "done"
    BY <1>5 DEF PlaceFails, Answer, GoTo, HandlerTypeOK
  <2> QED
    BY <1>1, <1>5, <2>1, <2>2 DEF PlaceFails, HasCandidates, At, Answer, GoTo,
       RequestInv, HoldOf, HoldIs, HandlerTypeOK, Replies, ledger, usage
<1>6. CASE \E m \in Mapping : CallUpstream(r, m)
  BY <1>1, <1>6 DEF CallUpstream, At, GoTo, RequestInv, HoldOf, HoldIs, HandlerTypeOK,
     ledgerVars, ledger, usage
<1>7. CASE UpstreamAnswers(r)
  BY <1>1, <1>7 DEF UpstreamAnswers, At, GoTo, RequestInv, HoldOf, HoldIs, HandlerTypeOK,
     ledgerVars, ledger, usage
<1>8. CASE \E f \in Fault : UpstreamFails(r, f)
  BY <1>1, <1>8 DEF UpstreamFails, ShouldDisable, At, GoTo, RequestInv, HoldOf, HoldIs,
     HandlerTypeOK, ledgerVars, ledger, usage
<1>9. CASE Disable(r)
  BY <1>1, <1>9 DEF Disable, At, GoTo, RequestInv, HoldOf, HoldIs, HandlerTypeOK,
     ledgerVars, ledger, request, usage
<1>10. CASE Release(r)
  <2>1. HoldIs(r, "held")
    BY <1>10 DEF Release, GivesUp, At, RequestInv
  <2>2. /\ reply'[r] = "upstream_error" /\ pc'[r] = "done" /\ target'[r] = target[r]
        /\ UNCHANGED logged /\ r \notin logged
    BY <1>10 DEF Release, GivesUp, At, Answer, GoTo, RequestInv, HandlerTypeOK, usage
  <2>3. CASE ReleaseHold(CloseCall(r), PlaceCall(r))
    <3>1. /\ IsOpenHold(PlaceCall(r))
          /\ hold' = [hold EXCEPT ![PlaceCall(r)] = [@ EXCEPT !.status = "released"]]
      BY <2>3, Zenon DEF ReleaseHold, CanRelease
    <3>2. /\ hold'[PlaceCall(r)] # None /\ hold'[PlaceCall(r)].status = "released"
          /\ hold'[PlaceCall(r)].account = hold[PlaceCall(r)].account
      BY <1>1, <3>1, ClosedHold
    <3> QED
      BY <1>1, <2>1, <2>2, <3>2 DEF RequestInv, HoldOf, HoldIs, Replies
  <2>4. CASE NoEffect(CloseCall(r))
    <3>1. PICK result \in {"none", "error"} : Return(CloseCall(r), result)
      BY <2>4 DEF NoEffect
    <3>2. outcome'[CloseCall(r)] = result
      BY <1>1, <3>1, ReturnOnce
    <3>3. UNCHANGED hold
      BY <2>4 DEF NoEffect, ledger
    <3> QED
      BY <1>1, <2>1, <2>2, <3>1, <3>2, <3>3 DEF RequestInv, HoldOf, HoldIs, Replies
  <2> QED
    BY <1>10, <2>3, <2>4 DEF Release
<1>11. CASE Settle(r)
  <2>1. /\ IsOpenHold(PlaceCall(r))
        /\ hold' = [hold EXCEPT ![PlaceCall(r)] = [@ EXCEPT !.status = "settled"]]
    BY <1>11, Zenon DEF Settle, SettleHold, CanSettle
  <2>2. /\ hold'[PlaceCall(r)] # None /\ hold'[PlaceCall(r)].status = "settled"
        /\ hold'[PlaceCall(r)].account = hold[PlaceCall(r)].account
    BY <1>1, <2>1, ClosedHold
  <2>3. balance' \in [Account -> Int]
    BY DEF LedgerTypeOK
  <2>4. refill'[r] # None
    BY <1>1, <1>11, <2>3 DEF Settle, HandlerTypeOK
  <2> QED
    BY <1>1, <1>11, <2>2, <2>4 DEF Settle, At, GoTo, RequestInv, HoldOf, HoldIs,
       HandlerTypeOK, Replies, usage
<1>12. CASE SettleFails(r)
  <2>1. PICK result \in {"none", "error"} : Return(CloseCall(r), result)
    BY <1>12 DEF SettleFails, NoEffect
  <2>2. outcome'[CloseCall(r)] = result
    BY <1>1, <2>1, ReturnOnce
  <2>3. UNCHANGED hold
    BY <1>12 DEF SettleFails, NoEffect, ledger
  <2> QED
    BY <1>1, <1>12, <2>1, <2>2, <2>3 DEF SettleFails, At, Answer, GoTo, RequestInv,
       HoldOf, HoldIs, HandlerTypeOK, Replies, usage
<1>13. CASE CacheBalance(r)
  BY <1>1, <1>13 DEF CacheBalance, At, GoTo, RequestInv, HoldOf, HoldIs, HandlerTypeOK,
     ledgerVars, ledger, request, usage
<1>14. CASE Record(r)
  BY <1>1, <1>14 DEF Record, At, GoTo, RequestInv, HoldOf, HoldIs, HandlerTypeOK,
     ledgerVars, ledger, request
<1>15. CASE RecordFails(r) \/ MeterFails(r)
  BY <1>1, <1>15 DEF RecordFails, MeterFails, At, Answer, GoTo, RequestInv, HoldOf, HoldIs,
     HandlerTypeOK, Replies, ledgerVars, ledger, usage
<1>16. CASE Meter(r)
  BY <1>1, <1>16 DEF Meter, At, Answer, GoTo, RequestInv, HoldOf, HoldIs, HandlerTypeOK,
     Replies, ledgerVars, ledger, request, usage
<1>17. CASE Mark(r)
  BY <1>1, <1>17 DEF Mark, At, GoTo, RequestInv, HoldOf, HoldIs, HandlerTypeOK,
     ledgerVars, ledger, request, usage
<1>18. CASE Notify(r)
  BY <1>1, <1>18 DEF Notify, At, Answer, GoTo, RequestInv, HoldOf, HoldIs, HandlerTypeOK,
     Replies, ledgerVars, ledger, usage
<1> QED
  BY <1>2, <1>3, <1>4, <1>5, <1>6, <1>7, <1>8, <1>9, <1>10, <1>11, <1>12, <1>13, <1>14,
     <1>15, <1>16, <1>17, <1>18 DEF Handler

-----------------------------------------------------------------------------
(* The types of the handler's variables.                                   *)

LEMMA HandlerTypes ==
  ASSUME TypesInv, LedgerTypeOK', NEW r \in Request, RequestInv(r), Handler(r)
  PROVE  HandlerTypeOK'
<1> USE DEF TypesInv
<1>1. Owner[r] \in Account
  BY Calls
<1>2. CASE Reject(r) \/ NoCandidate(r) \/ PlaceFails(r) \/ SettleFails(r) \/ Release(r)
           \/ RecordFails(r) \/ MeterFails(r) \/ Notify(r)
  BY <1>2 DEF Reject, NoCandidate, PlaceFails, SettleFails, Release, RecordFails,
     MeterFails, Notify, Answer, GoTo, HandlerTypeOK, Places, Replies
<1>3. CASE Place(r) \/ Disable(r) \/ CacheBalance(r) \/ Record(r) \/ Mark(r)
  BY <1>3 DEF Place, Disable, CacheBalance, Record, Mark, GoTo, HandlerTypeOK, Places,
     request
<1>4. CASE Meter(r)
  BY <1>4 DEF Meter, Answer, GoTo, HandlerTypeOK, Places, Replies, request
<1>5. CASE \E m \in Mapping : LookUp(r, m) \/ CallUpstream(r, m)
  BY <1>5 DEF LookUp, CallUpstream, GoTo, HandlerTypeOK, Places
<1>6. CASE UpstreamAnswers(r)
  BY <1>6 DEF UpstreamAnswers, GoTo, HandlerTypeOK, Places
<1>7. CASE \E f \in Fault : UpstreamFails(r, f)
  BY <1>7 DEF UpstreamFails, GoTo, HandlerTypeOK, Places
<1>8. CASE Settle(r)
  <2>1. balance'[Owner[r]] \in Int
    BY <1>1 DEF LedgerTypeOK
  <2> QED
    BY <1>8, <2>1 DEF Settle, GoTo, HandlerTypeOK, Places
<1> QED
  BY <1>2, <1>3, <1>4, <1>5, <1>6, <1>7, <1>8 DEF Handler

LEMMA StoreTypes ==
  ASSUME TypesInv, NEW r \in Request, RequestInv(r), Handler(r)
  PROVE  PoolTypeOK' /\ UsageTypeOK'
<1> USE DEF TypesInv
<1>1. Owner[r] \in Account /\ Fault \subseteq Reason
  BY Calls, ChatConstants
<1>2. CASE Disable(r)
  <2>1. fault[r] \in Reason
    BY <1>1, <1>2 DEF Disable, At, RequestInv, HandlerTypeOK
  <2> QED
    BY <1>2, <2>1 DEF Disable, SetStatus, PoolTypeOK, UsageTypeOK, pool, usage
<1>3. CASE CacheBalance(r)
  <2>1. refill[r] \in Int
    BY <1>3 DEF CacheBalance, At, RequestInv, HandlerTypeOK
  <2> QED
    BY <1>1, <1>3, <2>1 DEF CacheBalance, PoolTypeOK, UsageTypeOK, pool, usage
<1>4. CASE Record(r)
  <2>1. /\ TargetOf(r) \in Provider
        /\ charge[r].cost \in Int /\ charge[r].tokens \in Int
    BY <1>4, Target, Charge DEF Record, At
  <2> QED
    BY <1>1, <1>4, <2>1 DEF Record, PoolTypeOK, UsageTypeOK, pool
<1>5. CASE Meter(r)
  <2>1. TargetOf(r) \in Provider /\ charge[r].tokens \in Int
    BY <1>5, Target, Charge DEF Meter, At
  <2> QED
    BY <1>5, <2>1 DEF Meter, AddUsage, PoolTypeOK, UsageTypeOK, usage
<1>6. CASE Mark(r)
  <2>1. alertSent' \in [Provider -> BOOLEAN]
    BY <1>6 DEF Mark, MarkAlertSent, PoolTypeOK, pool
  <2> QED
    BY <1>6, <2>1 DEF Mark, MarkAlertSent, PoolTypeOK, UsageTypeOK, pool, usage
<1>7. CASE Notify(r)
  <2>1. TargetOf(r) \in Provider
    BY <1>7, Target DEF Notify, At
  <2>2. notices' \in [Provider -> Nat]
    BY <1>7, <2>1 DEF Notify, UsageTypeOK
  <2> QED
    BY <1>7, <2>2 DEF Notify, PoolTypeOK, UsageTypeOK, pool, usage
<1>8. CASE UNCHANGED <<pool, cached, usage, notices>>
  BY <1>8 DEF PoolTypeOK, UsageTypeOK, pool, usage
<1> QED
  BY <1>2, <1>3, <1>4, <1>5, <1>6, <1>7, <1>8
     DEF Handler, Reject, NoCandidate, LookUp, CallUpstream, UpstreamAnswers,
         UpstreamFails, RecordFails, MeterFails, Place, PlaceFails, Release, Settle,
         SettleFails

-----------------------------------------------------------------------------
(* The invariant.                                                          *)

LEMMA ChatInitInv == ChatInit => ChatInv
<1> SUFFICES ASSUME ChatInit
             PROVE  ChatInv
  OBVIOUS
<1>1. LedgerInv
  BY InitInv DEF ChatInit
<1>2. PoolTypeOK
  BY DEF ChatInit, PoolInit, PoolTypeOK
<1>3. HandlerTypeOK /\ UsageTypeOK
  BY DEF ChatInit, HandlerTypeOK, UsageTypeOK, Places
<1>4. ASSUME NEW r \in Request
      PROVE  RequestInv(r)
  <2>1. HoldOf(r) = None
    BY Calls DEF ChatInit, LedgerInit, HoldOf
  <2> QED
    BY <2>1, ChatConstants DEF ChatInit, RequestInv, HoldIs, Replies
<1> QED
  BY <1>1, <1>2, <1>3, <1>4 DEF ChatInv, TypesInv, RequestsInv, LedgerInv

LEMMA ChatNextInv == ChatInv /\ [ChatNext]_chatVars => ChatInv'
<1> SUFFICES ASSUME ChatInv, [ChatNext]_chatVars
             PROVE  ChatInv'
  OBVIOUS
<1>1. LedgerInv' /\ LedgerTypeOK'
  BY ChatUsesLedger, NextInv DEF ChatInv, TypesInv, LedgerInv
<1>2. ASSUME NEW r \in Request, Handler(r)
      PROVE  ChatInv'
  <2>1. HandlerTypeOK' /\ PoolTypeOK' /\ UsageTypeOK'
    BY <1>1, <1>2, HandlerTypes, StoreTypes DEF ChatInv, RequestsInv
  <2>2. ASSUME NEW q \in Request
        PROVE  RequestInv(q)'
    <3>1. CASE q = r
      BY <1>1, <1>2, <3>1, OwnStep DEF ChatInv, RequestsInv
    <3>2. CASE q # r
      BY <1>2, <3>2, OtherFrame, FrameKeeps DEF ChatInv, TypesInv, RequestsInv
    <3> QED
      BY <3>1, <3>2
  <2> QED
    BY <1>1, <2>1, <2>2 DEF ChatInv, TypesInv, RequestsInv
<1>3. ASSUME NEW c \in AdminCall, AdjustCredits(c)
      PROVE  ChatInv'
  <2>1. PICK result : Return(c, result)
    BY <1>3 DEF AdjustCredits, Adjust, NoEffect
  <2>2. ASSUME NEW q \in Request
        PROVE  Frame(q)
    BY <1>3, <2>1, Calls, ReturnOnce, ChatConstants
       DEF AdjustCredits, Adjust, NoEffect, ledger, chatOnly, request, usage, Frame,
           ChatInv, TypesInv
  <2>3. HandlerTypeOK' /\ PoolTypeOK' /\ UsageTypeOK'
    BY <1>3 DEF AdjustCredits, chatOnly, request, usage, pool, HandlerTypeOK, PoolTypeOK,
       UsageTypeOK, ChatInv, TypesInv
  <2> QED
    BY <1>1, <2>2, <2>3, FrameKeeps DEF ChatInv, TypesInv, RequestsInv
<1>4. ASSUME UNCHANGED <<hold, outcome, pc, logged, reply, target, fault, charge, refill>>,
             HandlerTypeOK', PoolTypeOK', UsageTypeOK'
      PROVE  ChatInv'
  <2>1. ASSUME NEW q \in Request
        PROVE  Frame(q)
    BY <1>4 DEF Frame
  <2> QED
    BY <1>1, <1>4, <2>1, FrameKeeps DEF ChatInv, TypesInv, RequestsInv
<1>5. ASSUME NEW a \in Account, CreateAccount(a)
      PROVE  ChatInv'
  BY <1>4, <1>5 DEF CreateAccount, OpenAccount, chatOnly, request, usage, pool, HandlerTypeOK,
     PoolTypeOK, UsageTypeOK, ChatInv, TypesInv
<1>6. ASSUME NEW a \in Account, Expire(a)
      PROVE  ChatInv'
  BY <1>4, <1>6 DEF Expire, ledgerVars, ledger, request, usage, pool, HandlerTypeOK,
     PoolTypeOK, UsageTypeOK, ChatInv, TypesInv
<1>7. ASSUME NEW r \in Request, Drop(r)
      PROVE  ChatInv'
  BY <1>4, <1>7 DEF Drop, ledgerVars, ledger, usage, pool, HandlerTypeOK, PoolTypeOK,
     UsageTypeOK, ChatInv, TypesInv
<1>8. ASSUME NEW p \in Provider, NEW s \in {"active", "admin"}, SetProviderStatus(p, s)
      PROVE  ChatInv'
  <2>1. s \in Reason \cup {"active"}
    BY ChatConstants
  <2> QED
    BY <1>4, <1>8, <2>1 DEF SetProviderStatus, SetStatus, ledgerVars, ledger, chatOnly,
       request, usage, pool, HandlerTypeOK, PoolTypeOK, UsageTypeOK, ChatInv, TypesInv
<1>9. ASSUME NEW p \in Provider, NEW n \in OfficialUsed, SyncProviderQuota(p, n)
      PROVE  ChatInv'
  <2>1. n \in Int
    BY ChatConstants
  <2>2. alertSent' \in [Provider -> BOOLEAN] /\ used' \in [Provider -> Int]
    BY <1>9, <2>1 DEF SyncProviderQuota, SyncQuota, PoolTypeOK, ChatInv, TypesInv
  <2> QED
    BY <1>4, <1>9, <2>2 DEF SyncProviderQuota, SyncQuota, ledgerVars, ledger, chatOnly,
       request, usage, HandlerTypeOK, PoolTypeOK, UsageTypeOK, ChatInv, TypesInv
<1>10. CASE UNCHANGED chatVars
  BY <1>4, <1>10 DEF chatVars, ledgerVars, ledger, request, usage, pool, HandlerTypeOK,
     PoolTypeOK, UsageTypeOK, ChatInv, TypesInv
<1> QED
  BY <1>2, <1>3, <1>5, <1>6, <1>7, <1>8, <1>9, <1>10 DEF ChatNext

-----------------------------------------------------------------------------
(* The alert flag.  Only Mark sets it, and only Notify, which counts, takes *)
(* a request away from where Mark brought it.                              *)

LEMMA FlagStep ==
  ASSUME ChatInv, SilencedOnlyAfterNotice, NEW r \in Request, Handler(r),
         NEW p \in Provider, alertSent'[p]
  PROVE  \/ notices'[p] > 0
         \/ \E q \in Request : pc'[q] = "notifying" /\ TargetOf(q)' = p
<1> USE DEF ChatInv, TypesInv
<1>1. notices[p] \in Nat
  BY DEF UsageTypeOK
<1>2. ASSUME NEW q \in Request, q # r, pc[q] = "notifying", TargetOf(q) = p
      PROVE  pc'[q] = "notifying" /\ TargetOf(q)' = p
  BY <1>2, OtherFrame DEF RequestsInv, Frame, TargetOf
<1>3. CASE Mark(r)
  <2>1. pc'[r] = "notifying" /\ TargetOf(r)' = TargetOf(r) /\ UNCHANGED notices
    BY <1>3 DEF Mark, GoTo, HandlerTypeOK, TargetOf, request
  <2>2. CASE TargetOf(r) = p
    BY <2>1, <2>2
  <2>3. CASE TargetOf(r) # p
    <3>1. alertSent[p]
      BY <1>3, <2>3 DEF Mark, MarkAlertSent, PoolTypeOK, pool
    <3> QED
      BY <1>2, <2>1, <2>3, <3>1 DEF SilencedOnlyAfterNotice
  <2> QED
    BY <2>2, <2>3
<1>4. CASE Notify(r)
  <2>1. /\ TargetOf(r) \in Provider /\ alertSent[p]
        /\ notices' = [notices EXCEPT ![TargetOf(r)] = @ + 1]
    BY <1>4, Target DEF Notify, At, pool, RequestsInv
  <2>2. CASE TargetOf(r) = p
    BY <1>1, <2>1, <2>2 DEF UsageTypeOK
  <2>3. CASE TargetOf(r) # p
    <3>1. notices'[p] = notices[p]
      BY <2>1, <2>3 DEF UsageTypeOK
    <3> QED
      BY <1>2, <2>1, <2>3, <3>1 DEF SilencedOnlyAfterNotice
  <2> QED
    BY <2>2, <2>3
<1>5. CASE UNCHANGED <<alertSent, notices>> /\ pc[r] # "notifying"
  BY <1>2, <1>5 DEF SilencedOnlyAfterNotice
<1> QED
  BY <1>3, <1>4, <1>5
     DEF Handler, Reject, NoCandidate, LookUp, CallUpstream, UpstreamAnswers,
         UpstreamFails, RecordFails, Meter, MeterFails, Place, PlaceFails, Release,
         Settle, SettleFails, Disable, CacheBalance, Record, AddUsage, SetStatus, At,
         HasCandidates, GivesUp, pool, usage

LEMMA FlagInv ==
  ChatInv /\ SilencedOnlyAfterNotice /\ [ChatNext]_chatVars => SilencedOnlyAfterNotice'
<1> SUFFICES ASSUME ChatInv, SilencedOnlyAfterNotice, [ChatNext]_chatVars,
                    NEW p \in Provider, alertSent'[p]
             PROVE  \/ notices'[p] > 0
                    \/ \E q \in Request : pc'[q] = "notifying" /\ TargetOf(q)' = p
  BY DEF SilencedOnlyAfterNotice
<1>1. CASE \E r \in Request : Handler(r)
  BY <1>1, FlagStep
<1>2. CASE \E x \in Provider, n \in OfficialUsed : SyncProviderQuota(x, n)
  <2>1. PICK x \in Provider, n \in OfficialUsed : SyncProviderQuota(x, n)
    BY <1>2
  <2>2. alertSent[p] /\ x # p
    BY <2>1 DEF SyncProviderQuota, SyncQuota, PoolTypeOK, ChatInv, TypesInv
  <2> QED
    BY <2>1, <2>2 DEF SyncProviderQuota, chatOnly, request, TargetOf, UsageTypeOK,
       SilencedOnlyAfterNotice, ChatInv, TypesInv
<1>3. CASE UNCHANGED <<alertSent, notices, pc, target>>
  BY <1>3 DEF TargetOf, SilencedOnlyAfterNotice
<1> QED
  BY <1>1, <1>2, <1>3
     DEF ChatNext, Drop, CreateAccount, Expire, AdjustCredits, SetProviderStatus, SetStatus,
         chatOnly, chatVars, request, pool

-----------------------------------------------------------------------------
(* The theorems.                                                           *)

(* Under any traffic every variable keeps its type, and a request that has *)
(* reached a place in the handler has learnt what it needs there.          *)
THEOREM ChatTypeCorrect == ChatSpec => []ChatTypeOK
BY ChatInitInv, ChatNextInv, InvImpliesProperties, PTL DEF ChatSpec

(* For any number of requests, the hold of each follows it through the     *)
(* handler, the response agrees with the ledger and with usage_logs, and   *)
(* credit is stuck on hold only after a close that had no effect, or where *)
(* the request was dropped.                                                *)
THEOREM ChatSafe ==
  ChatSpec => [](HoldFollowsRequest /\ ReplyMatchesLedger /\ StuckOnlyAfterFailure)
<1>1. ChatInv => HoldFollowsRequest /\ ReplyMatchesLedger /\ StuckOnlyAfterFailure
  BY InvImpliesProperties
<1> QED
  BY ChatInitInv, ChatNextInv, <1>1, PTL DEF ChatSpec

(* A request that was answered in full was charged, and one that was       *)
(* refused was not.                                                        *)
THEOREM RepliesMatchTheLedger == ChatSpec => []ReplyMatchesLedger
BY ChatSafe, PTL

(* Credit that no request will close any more was left on hold by a close  *)
(* that failed, or by a request that was dropped.                          *)
THEOREM NothingSticksByItself == ChatSpec => []StuckOnlyAfterFailure
BY ChatSafe, PTL

(* Whatever is dropped, fails or is synced between add_usage, the flag and *)
(* the notice, a provider's alerts are not silenced without a notice, or a *)
(* request at the point of sending one.                                    *)
THEOREM ChatAlertsSafe == ChatSpec => []SilencedOnlyAfterNotice
<1>1. ChatInit => SilencedOnlyAfterNotice
  BY DEF ChatInit, PoolInit, SilencedOnlyAfterNotice
<1> QED
  BY ChatInitInv, ChatNextInv, <1>1, FlagInv, PTL DEF ChatSpec

(* The handler and the administrators touch credits only through the calls *)
(* of the repository: with any of them running, the ledger behaves as      *)
(* AtomicLedger says.                                                      *)
THEOREM ChatRefinesLedger == ChatSpec => LedgerSpec
<1>1. ChatInit => LedgerInit
  BY DEF ChatInit
<1>2. ChatInv /\ [ChatNext]_chatVars => [LedgerNext]_ledgerVars
  BY ChatUsesLedger DEF ChatInv, TypesInv
<1> QED
  BY ChatInitInv, ChatNextInv, <1>1, <1>2, PTL DEF ChatSpec, LedgerSpec

(* With any number of requests in the handler no account is oversold,      *)
(* credits.held is the sum of the open holds, and the books balance.       *)
THEOREM ChatNeverOversells ==
  ChatSpec => [](NeverOversold /\ BooksBalance /\ HeldIsSumOfHolds)
BY ChatRefinesLedger, LedgerSafe, PTL

(* Whatever races to close a hold, of the request that placed it or of     *)
(* nobody, it is settled or released once.                                 *)
THEOREM ChatClosesOnce == ChatSpec => HoldsCloseOnce
BY ChatRefinesLedger, LedgerClosesOnce

-----------------------------------------------------------------------------
(* How many steps of its own a request still is from its answer, at most.  *)
(* A mapping that is not looked up yet stands for its query and for the    *)
(* three steps of a candidate that is called, fails and is disabled.       *)

Left == [arrived |-> 20, waiting |-> 12, disabling |-> 11, trying |-> 10,
         releasing |-> 9, settling |-> 9, caching |-> 8, recording |-> 7,
         metering |-> 6, marking |-> 5, notifying |-> 4, done |-> 0]

StepsLeft(r) == 4 * Cardinality(unseen[r]) + 3 * Cardinality(todo[r]) + Left[pc[r]]

Advance(r) ==
  /\ StepsLeft(r) \in Nat
  /\ StepsLeft(r)' <= StepsLeft(r)
  /\ Handler(r) => StepsLeft(r)' < StepsLeft(r)

LEMMA FewerIsLess ==
  ASSUME NEW S, IsFiniteSet(S)
  PROVE  /\ Cardinality(S) \in Nat
         /\ \A x \in S : Cardinality(S \ {x}) = Cardinality(S) - 1
         /\ \A x : Cardinality(S \cup {x}) \in {Cardinality(S), Cardinality(S) + 1}
<1>1. Cardinality(S) \in Nat
  BY FS_CardinalityType
<1>2. ASSUME NEW x
      PROVE  Cardinality(S \cup {x}) \in {Cardinality(S), Cardinality(S) + 1}
  BY FS_AddElement
<1>3. ASSUME NEW x \in S
      PROVE  Cardinality(S \ {x}) = Cardinality(S) - 1
  BY FS_RemoveElement
<1> QED
  BY <1>1, <1>2, <1>3

LEMMA OwnAdvance ==
  ASSUME IsFiniteSet(Mapping), NEW r \in Request, HandlerTypeOK, HandlerTypeOK', Handler(r)
  PROVE  StepsLeft(r)' < StepsLeft(r)
<1> DEFINE n == Cardinality(unseen[r])
           k == Cardinality(todo[r])
<1>1. IsFiniteSet(unseen[r]) /\ IsFiniteSet(todo[r]) /\ n \in Nat /\ k \in Nat
  BY FS_Subset, FS_CardinalityType DEF HandlerTypeOK
<1>2. /\ StepsLeft(r) = 4 * n + 3 * k + Left[pc[r]]
      /\ StepsLeft(r)' = 4 * n' + 3 * k' + Left[pc'[r]]
  BY DEF StepsLeft
<1>3. Left[pc[r]] \in Nat /\ Left[pc'[r]] \in Nat
  BY DEF HandlerTypeOK, Places, Left
<1>4. ASSUME NEW m \in Mapping, LookUp(r, m)
      PROVE  StepsLeft(r)' < StepsLeft(r)
  <2>1. /\ m \in unseen[r] /\ unseen'[r] = unseen[r] \ {m}
        /\ todo'[r] = todo[r] \/ todo'[r] = todo[r] \cup {m}
        /\ pc'[r] = pc[r]
    BY <1>4 DEF LookUp, HandlerTypeOK
  <2>2. n' = n - 1 /\ k' \in {k, k + 1}
    <3>1. n' = n - 1
      BY <1>1, <2>1, FewerIsLess
    <3>2. k' \in {k, k + 1}
      BY <1>1, <2>1, FewerIsLess
    <3> QED
      BY <3>1, <3>2
  <2> HIDE DEF n, k
  <2> QED
    BY <1>1, <1>2, <1>3, <2>1, <2>2
<1>5. ASSUME NEW m \in Mapping, CallUpstream(r, m)
      PROVE  StepsLeft(r)' < StepsLeft(r)
  <2>1. /\ m \in todo[r] /\ todo'[r] = todo[r] \ {m} /\ unseen'[r] = unseen[r]
        /\ pc[r] = "trying" /\ pc'[r] = "waiting"
    BY <1>5 DEF CallUpstream, At, GoTo, HandlerTypeOK
  <2>2. k' = k - 1 /\ n' = n
    BY <1>1, <2>1, FewerIsLess
  <2>3. Left[pc[r]] = 10 /\ Left[pc'[r]] = 12
    BY <2>1 DEF Left
  <2> HIDE DEF n, k
  <2> QED
    BY <1>1, <1>2, <2>2, <2>3
<1>6. ASSUME unseen'[r] = unseen[r], todo'[r] = todo[r], Left[pc'[r]] < Left[pc[r]]
      PROVE  StepsLeft(r)' < StepsLeft(r)
  <2>1. n' = n /\ k' = k
    BY <1>6
  <2> HIDE DEF n, k
  <2> QED
    BY <1>1, <1>2, <1>3, <1>6, <2>1
<1>7. ASSUME Reject(r) \/ NoCandidate(r) \/ Place(r) \/ PlaceFails(r)
      PROVE  StepsLeft(r)' < StepsLeft(r)
  <2>1. /\ pc[r] = "arrived" /\ pc'[r] \in {"trying", "done"}
        /\ unseen' = unseen /\ todo' = todo
    BY <1>7 DEF Reject, NoCandidate, Place, PlaceFails, HasCandidates, At, Answer, GoTo,
       request, HandlerTypeOK
  <2> QED
    BY <1>6, <2>1 DEF Left
<1>8. ASSUME UpstreamAnswers(r) \/ Disable(r) \/ (\E f \in Fault : UpstreamFails(r, f))
      PROVE  StepsLeft(r)' < StepsLeft(r)
  <2>1. /\ \/ pc[r] = "waiting" /\ pc'[r] \in {"settling", "disabling", "releasing"}
           \/ pc[r] = "disabling" /\ pc'[r] = "trying"
        /\ unseen' = unseen /\ todo' = todo
    BY <1>8 DEF UpstreamAnswers, Disable, UpstreamFails, At, GoTo, request, HandlerTypeOK
  <2> QED
    BY <1>6, <2>1 DEF Left
<1>9. ASSUME Release(r) \/ Settle(r) \/ SettleFails(r) \/ CacheBalance(r)
      PROVE  StepsLeft(r)' < StepsLeft(r)
  <2>1. /\ \/ pc[r] \in {"trying", "releasing", "settling"} /\ pc'[r] = "done"
           \/ pc[r] = "settling" /\ pc'[r] = "caching"
           \/ pc[r] = "caching" /\ pc'[r] = "recording"
        /\ unseen' = unseen /\ todo' = todo
    BY <1>9 DEF Release, GivesUp, Settle, SettleFails, CacheBalance, At, Answer, GoTo, request,
       HandlerTypeOK
  <2> QED
    BY <1>6, <2>1 DEF Left
<1>10. ASSUME \/ Record(r) \/ RecordFails(r)
              \/ Meter(r) \/ MeterFails(r) \/ Mark(r) \/ Notify(r)
       PROVE  StepsLeft(r)' < StepsLeft(r)
  <2>1. /\ \/ pc[r] = "recording" /\ pc'[r] \in {"metering", "done"}
           \/ pc[r] = "metering" /\ pc'[r] \in {"marking", "done"}
           \/ pc[r] = "marking" /\ pc'[r] = "notifying"
           \/ pc[r] = "notifying" /\ pc'[r] = "done"
        /\ unseen' = unseen /\ todo' = todo
    BY <1>10 DEF Record, RecordFails, Meter, MeterFails, Mark, Notify, At, Answer, GoTo,
       request, HandlerTypeOK
  <2> QED
    BY <1>6, <2>1 DEF Left
<1> QED
  BY <1>4, <1>5, <1>7, <1>8, <1>9, <1>10 DEF Handler

LEMMA OthersStay ==
  ASSUME HandlerTypeOK, [ChatNext]_chatVars, NEW r \in Request, ~Handler(r)
  PROVE  StepsLeft(r)' = StepsLeft(r)
<1>1. pc'[r] = pc[r] /\ unseen'[r] = unseen[r] /\ todo'[r] = todo[r]
  <2>1. ASSUME NEW q \in Request, q # r, Handler(q)
        PROVE  <1>1!:
    BY <2>1
       DEF Handler, Reject, NoCandidate, LookUp, CallUpstream, UpstreamAnswers, UpstreamFails,
           Disable, CacheBalance, Record, RecordFails, Meter, MeterFails, Mark, Notify, Place,
           PlaceFails, Release, Settle, SettleFails, Answer, GoTo, request, HandlerTypeOK
  <2>2. CASE UNCHANGED <<pc, unseen, todo>>
    BY <2>2
  <2>3. (\E q \in Request : Handler(q)) \/ UNCHANGED <<pc, unseen, todo>>
    BY DEF ChatNext, Drop, CreateAccount, Expire, AdjustCredits, SetProviderStatus,
           SyncProviderQuota, chatOnly, request, chatVars
  <2> QED
    BY <2>1, <2>2, <2>3
<1> QED
  BY <1>1 DEF StepsLeft

(* A request goes only forward, also when its upstreams fail one after     *)
(* the other, and nothing that other requests or administrators do sets it *)
(* back: it is answered after at most 4 * |Mapping| + 20 steps of its own. *)
(* That it takes them is what EveryRequestEnds adds.                       *)
THEOREM RequestsAdvance ==
  IsFiniteSet(Mapping) => (ChatSpec => [][\A r \in Request : Advance(r)]_chatVars)
<1> SUFFICES ASSUME IsFiniteSet(Mapping)
             PROVE  ChatSpec => [][\A r \in Request : Advance(r)]_chatVars
  OBVIOUS
<1>1. ChatInv /\ ChatInv' /\ [ChatNext]_chatVars => [\A r \in Request : Advance(r)]_chatVars
  <2> SUFFICES ASSUME ChatInv, ChatInv', [ChatNext]_chatVars, NEW r \in Request
               PROVE  Advance(r)
    OBVIOUS
  <2>1. StepsLeft(r) \in Nat /\ StepsLeft(r)' \in Nat
    <3>1. HandlerTypeOK /\ HandlerTypeOK'
      BY DEF ChatInv, TypesInv
    <3>2. /\ IsFiniteSet(unseen[r]) /\ IsFiniteSet(todo[r])
          /\ IsFiniteSet(unseen'[r]) /\ IsFiniteSet(todo'[r])
      BY <3>1, FS_Subset DEF HandlerTypeOK
    <3>3. /\ Cardinality(unseen[r]) \in Nat /\ Cardinality(todo[r]) \in Nat
          /\ Cardinality(unseen'[r]) \in Nat /\ Cardinality(todo'[r]) \in Nat
      BY <3>2, FS_CardinalityType
    <3>4. Left[pc[r]] \in Nat /\ Left[pc'[r]] \in Nat
      BY <3>1 DEF HandlerTypeOK, Places, Left
    <3> QED
      BY <3>3, <3>4 DEF StepsLeft
  <2>2. CASE Handler(r)
    BY <2>1, <2>2, OwnAdvance DEF Advance, ChatInv, TypesInv
  <2>3. CASE ~Handler(r)
    BY <2>1, <2>3, OthersStay DEF Advance, ChatInv, TypesInv
  <2> QED
    BY <2>2, <2>3
<1> QED
  BY ChatInitInv, ChatNextInv, <1>1, PTL DEF ChatSpec

-----------------------------------------------------------------------------
(* set_credits next to the handler.                                        *)

PlannedOK == \A c \in SetCall : planned[c] # None => planned[c].delta \in Int

LEMMA ReadKeeps ==
  ASSUME ChatInv, PlannedOK, NEW c \in SetCall, ReadBalance(c)
  PROVE  PlannedOK'
<1> DEFINE a == Setting[c].account
           read == [from |-> balance[a], delta |-> Setting[c].balance - balance[a]]
<1>1. read.delta \in Int
  BY SetConstants DEF ChatInv, TypesInv, LedgerTypeOK
<1>2. planned' = [planned EXCEPT ![c] = read]
  BY DEF ReadBalance
<1> HIDE DEF read
<1>3. \A d \in SetCall : planned'[d] = planned[d] \/ planned'[d] = read
  BY <1>2
<1> QED
  BY <1>1, <1>3 DEF PlannedOK

LEMMA SetKeeps ==
  ASSUME ChatInv, PlannedOK, NEW c \in SetCall, SetCredits(c)
  PROVE  ChatInv'
<1>1. c \in Call /\ Setting[c].account \in Account /\ planned[c].delta \in Int
  BY SetConstants DEF PlannedOK, SetCredits
<1>2. ASSUME Adjust(c, Setting[c].account, planned[c].delta)
      PROVE  LedgerInv'
  BY <1>1, <1>2, AdjustInv DEF ChatInv
<1>3. ASSUME NoEffect(c)
      PROVE  LedgerInv'
  BY <1>1, <1>3, NextInv DEF ChatInv, LedgerNext
<1>4. PICK result : Return(c, result)
  BY DEF SetCredits, Adjust, NoEffect
<1>5. ASSUME NEW q \in Request
      PROVE  Frame(q)
  BY <1>4, Calls, ReturnOnce, SetConstants
     DEF SetCredits, Adjust, NoEffect, ledger, chatOnly, request, usage, Frame,
         ChatInv, TypesInv
<1>6. HandlerTypeOK' /\ PoolTypeOK' /\ UsageTypeOK'
  BY DEF SetCredits, chatOnly, request, usage, pool, HandlerTypeOK, PoolTypeOK,
     UsageTypeOK, ChatInv, TypesInv
<1> QED
  BY <1>2, <1>3, <1>5, <1>6, FrameKeeps
     DEF SetCredits, ChatInv, LedgerInv, TypesInv, RequestsInv

-----------------------------------------------------------------------------
(* The books of set_credits, the handler and the usage summary.            *)

SettledPriced == \A r \in Request : HoldIs(r, "settled") => charge[r] # None
AppliedRead   == \A c \in SetCall : outcome[c] = "ok" => planned[c] # None

(* A row is there only for a committed adjustment, and says what it was.   *)
RowsAreTrue ==
  \A c \in CreditCall : audit[c] # None =>
    /\ c \in ended /\ outcome[c] = "ok"
    /\ audit[c] = [account |-> AccountOf(c), delta |-> DeltaOf(c)]

RecordsInv ==
  /\ audit \in [CreditCall -> [account : Account, delta : Int] \cup {None}]
  /\ RowsAreTrue

Reconciled(a) ==
  /\ IsFiniteSet(Charged(a)) /\ IsFiniteSet(RowsOf(a)) /\ IsFiniteSet(WithoutRow(a))
  /\ Deposited(a) - booked[a] = CostOf(Charged(a))
  /\ booked[a] + accountCredits[a] = Deposited(a) - CostOf(Charged(a) \ logged)

AdminInv ==
  /\ ChatInv /\ PlannedOK /\ SettledPriced /\ AppliedRead /\ RecordsInv
  /\ \A a \in Account : Reconciled(a)

LEMMA ChargeIsInt ==
  ASSUME HandlerTypeOK, NEW r \in Request, charge[r] # None
  PROVE  charge[r].cost \in Int
<1>1. charge[r] \in [cost : Cost, tokens : Tokens]
  BY DEF HandlerTypeOK
<1>2. charge[r].cost \in Cost
  BY <1>1
<1>3. Cost \subseteq Int
  BY LedgerConstants
<1> QED
  BY <1>2, <1>3

LEMMA CostIsInt ==
  ASSUME HandlerTypeOK, NEW S \in SUBSET Request, IsFiniteSet(S),
         \A r \in S : charge[r] # None
  PROVE  CostOf(S) \in Int
<1> DEFINE f == [r \in S |-> charge[r].cost]
<1>1. DOMAIN f = S /\ \A r \in S : f[r] \in Int
  BY ChargeIsInt
<1> HIDE DEF f
<1>2. SumFunctionOnSet(f, DOMAIN f) \in Int
  BY <1>1, SumIsInt
<1> QED
  BY <1>2 DEF f, CostOf, SumFunction

LEMMA CostOfOneMore ==
  ASSUME HandlerTypeOK, NEW S \in SUBSET Request, IsFiniteSet(S), NEW r \in Request,
         r \notin S, \A q \in S \cup {r} : charge[q] # None
  PROVE  CostOf(S \cup {r}) = charge[r].cost + CostOf(S)
<1> DEFINE f == [q \in S |-> charge[q].cost]
           g == [q \in S \cup {r} |-> charge[q].cost]
<1>1. /\ DOMAIN f = S /\ DOMAIN g = DOMAIN f \cup {r} /\ g[r] = charge[r].cost
      /\ \A q \in S : f[q] = charge[q].cost /\ g[q] = f[q]
  OBVIOUS
<1>2. charge[r].cost \in Int /\ \A q \in S : charge[q].cost \in Int
  BY ChargeIsInt
<1> HIDE DEF f, g
<1>3. SumFunction(g) = g[r] + SumFunction(f)
  BY <1>1, <1>2, SumOfOneMore
<1> QED
  BY <1>1, <1>3 DEF f, g, CostOf

LEMMA CostUnchanged ==
  ASSUME NEW S, \A r \in S : charge'[r] = charge[r]
  PROVE  CostOf(S)' = CostOf(S)
BY DEF CostOf

(* What is applied, and what is recorded, are integers on accounts.        *)
LEMMA AppliedCall ==
  ASSUME PlannedOK, AppliedRead, NEW c \in CreditCall, outcome[c] = "ok"
  PROVE  AccountOf(c) \in Account /\ DeltaOf(c) \in Int
<1>1. CASE c \in AdminCall
  BY <1>1, ChatConstants, LedgerConstants DEF AccountOf, DeltaOf
<1>2. CASE c \in SetCall /\ c \notin AdminCall
  BY <1>2, SetConstants DEF AccountOf, DeltaOf, PlannedOK, AppliedRead
<1> QED
  BY <1>1, <1>2 DEF CreditCall

LEMMA RowIsInt ==
  ASSUME RecordsInv, NEW c \in CreditCall, audit[c] # None
  PROVE  audit[c].account \in Account /\ audit[c].delta \in Int
BY DEF RecordsInv

LEMMA DepositsAreInt ==
  ASSUME PlannedOK, AppliedRead, RecordsInv, NEW a \in Account,
         IsFiniteSet(RowsOf(a)), IsFiniteSet(WithoutRow(a))
  PROVE  Recorded(a) \in Int /\ Unrecorded(a) \in Int
<1> DEFINE f == [c \in RowsOf(a) |-> audit[c].delta]
           g == [c \in WithoutRow(a) |-> DeltaOf(c)]
<1>1. DOMAIN f = RowsOf(a) /\ \A c \in RowsOf(a) : f[c] \in Int
  BY RowIsInt DEF RowsOf
<1>2. DOMAIN g = WithoutRow(a) /\ \A c \in WithoutRow(a) : g[c] \in Int
  BY AppliedCall DEF WithoutRow
<1> HIDE DEF f, g
<1>3. SumFunctionOnSet(f, DOMAIN f) \in Int /\ SumFunctionOnSet(g, DOMAIN g) \in Int
  BY <1>1, <1>2, SumIsInt
<1> QED
  BY <1>3 DEF f, g, SumFunction, Recorded, Unrecorded

LEMMA BooksAreInt ==
  ASSUME AdminInv, NEW a \in Account
  PROVE  /\ CostOf(Charged(a)) \in Int /\ CostOf(Charged(a) \ logged) \in Int
         /\ Recorded(a) \in Int /\ Unrecorded(a) \in Int
         /\ Deposited(a) \in Int /\ booked[a] \in Int /\ accountCredits[a] \in Int
<1>1. /\ IsFiniteSet(Charged(a)) /\ IsFiniteSet(Charged(a) \ logged)
      /\ IsFiniteSet(RowsOf(a)) /\ IsFiniteSet(WithoutRow(a))
  BY FS_Subset DEF AdminInv, Reconciled
<1>2. Charged(a) \in SUBSET Request /\ \A q \in Charged(a) : charge[q] # None
  BY DEF Charged, AdminInv, SettledPriced
<1>3. CostOf(Charged(a)) \in Int /\ CostOf(Charged(a) \ logged) \in Int
  BY <1>1, <1>2, CostIsInt DEF AdminInv, ChatInv, TypesInv
<1>4. Recorded(a) \in Int /\ Unrecorded(a) \in Int
  BY <1>1, DepositsAreInt DEF AdminInv
<1>5. Deposited(a) \in Int
  BY <1>4 DEF Deposited
<1> QED
  BY <1>3, <1>4, <1>5 DEF AdminInv, ChatInv, TypesInv, LedgerTypeOK, UsageTypeOK

(* A step that none of the books of an account sees.                       *)
DepositsFrame(a) ==
  /\ RowsOf(a)' = RowsOf(a) /\ \A c \in RowsOf(a) : audit'[c] = audit[c]
  /\ WithoutRow(a)' = WithoutRow(a) /\ \A c \in WithoutRow(a) : DeltaOf(c)' = DeltaOf(c)

BooksFrame(a) ==
  /\ Charged(a)' = Charged(a) /\ (Charged(a) \ logged)' = Charged(a) \ logged
  /\ \A r \in Charged(a) : charge'[r] = charge[r]
  /\ DepositsFrame(a)
  /\ booked'[a] = booked[a] /\ accountCredits'[a] = accountCredits[a]

LEMMA DepositedUnchanged ==
  ASSUME NEW a \in Account, DepositsFrame(a)
  PROVE  Deposited(a)' = Deposited(a)
<1>1. Recorded(a)' = Recorded(a)
  BY DEF DepositsFrame, Recorded
<1>2. Unrecorded(a)' = Unrecorded(a)
  BY DEF DepositsFrame, Unrecorded
<1> QED
  BY <1>1, <1>2 DEF Deposited

LEMMA BooksKept ==
  ASSUME NEW a \in Account, Reconciled(a), BooksFrame(a)
  PROVE  Reconciled(a)'
<1>1. Deposited(a)' = Deposited(a)
  BY DepositedUnchanged DEF BooksFrame
<1>2. /\ CostOf(Charged(a))' = CostOf(Charged(a))
      /\ CostOf(Charged(a) \ logged)' = CostOf(Charged(a) \ logged)
  BY DEF BooksFrame, CostOf
<1> QED
  BY <1>1, <1>2 DEF BooksFrame, DepositsFrame, Reconciled

(* The calls of administrators are not those of requests.                  *)
LEMMA AdminCalls ==
  /\ CreditCall \subseteq Call /\ AdminCall \cap SetCall = {}
  /\ \A r \in Request, c \in CreditCall : c # PlaceCall(r) /\ c # CloseCall(r)
BY ChatConstants, SetConstants DEF PlaceCall, CloseCall, CreditCall

LEMMA OutcomesFrame ==
  ASSUME NEW a \in Account, UNCHANGED <<planned, audit>>,
         \A c \in CreditCall : outcome'[c] = "ok" <=> outcome[c] = "ok"
  PROVE  DepositsFrame(a)
BY DEF DepositsFrame, RowsOf, WithoutRow, DeltaOf, AccountOf

LEMMA ChargesFrame ==
  ASSUME NEW a \in Account, UNCHANGED logged,
         \A r \in Request : HoldIs(r, "settled")' <=> HoldIs(r, "settled"),
         \A r \in Request : HoldIs(r, "settled") => charge'[r] = charge[r]
  PROVE  /\ Charged(a)' = Charged(a) /\ (Charged(a) \ logged)' = Charged(a) \ logged
         /\ \A r \in Charged(a) : charge'[r] = charge[r]
BY DEF Charged

LEMMA HandlerLeavesAdmins ==
  ASSUME LedgerTypeOK, NEW r \in Request, Handler(r), NEW c \in CreditCall
  PROVE  outcome'[c] = outcome[c]
<1>1. c \in Call /\ c # PlaceCall(r) /\ c # CloseCall(r)
  BY AdminCalls
<1>2. ASSUME NEW d \in Call, NEW result, Return(d, result), d # c
      PROVE  outcome'[c] = outcome[c]
  BY <1>1, <1>2 DEF Return, LedgerTypeOK
<1>3. \/ \E result : Return(PlaceCall(r), result) \/ Return(CloseCall(r), result)
      \/ UNCHANGED outcome
  BY DEF Handler, Reject, NoCandidate, LookUp, CallUpstream, UpstreamAnswers,
         UpstreamFails, Disable, CacheBalance, Record, RecordFails, Meter, MeterFails,
         Mark, Notify, Place, PlaceFails, Release, Settle, SettleFails, PlaceHold, NoEffect,
         ReleaseHold, SettleHold, ledgerVars
<1> QED
  BY <1>1, <1>2, <1>3, Calls

LEMMA SettleBooks ==
  ASSUME AdminInv, NEW r \in Request, Settle(r), UNCHANGED <<planned, records>>
  PROVE  SettledPriced' /\ \A a \in Account : Reconciled(a)'
<1> DEFINE a == Owner[r]
           cost == charge[r].cost
<1>1. /\ pc[r] = "settling" /\ HoldIs(r, "held") /\ HoldOf(r).account = a
      /\ charge[r] # None /\ r \notin logged /\ a \in Account
  BY Calls DEF Settle, At, AdminInv, ChatInv, RequestsInv, RequestInv, HoldIs
<1>2. cost \in Int
  BY <1>1, ChargeIsInt DEF AdminInv, ChatInv, TypesInv
<1>3. /\ IsOpenHold(PlaceCall(r)) /\ UNCHANGED <<charge, logged, accountCredits>>
      /\ hold' = [hold EXCEPT ![PlaceCall(r)] = [@ EXCEPT !.status = "settled"]]
      /\ booked' = [booked EXCEPT ![a] = @ - cost]
  BY <1>1, Zenon DEF Settle, SettleHold, CanSettle, usage, HoldOf
<1>4. HoldIs(r, "settled")' /\ \A q \in Request : q # r => HoldOf(q)' = HoldOf(q)
  <2>1. /\ hold'[PlaceCall(r)] # None /\ hold'[PlaceCall(r)].status = "settled"
        /\ \A d \in Call : d # PlaceCall(r) => hold'[d] = hold[d]
    BY <1>3, Calls, ClosedHold DEF AdminInv, ChatInv, TypesInv
  <2> QED
    BY <2>1, Calls DEF HoldOf, HoldIs
<1>5. ~HoldIs(r, "settled")
  BY <1>1 DEF HoldIs
<1>6. \A c \in CreditCall : outcome'[c] = outcome[c]
  BY HandlerLeavesAdmins DEF Handler, AdminInv, ChatInv, TypesInv
<1>7. SettledPriced'
  BY <1>1, <1>3, <1>4 DEF SettledPriced, AdminInv, HoldIs
<1>8. ASSUME NEW b \in Account
      PROVE  DepositsFrame(b) /\ Deposited(b)' = Deposited(b)
  BY <1>6, OutcomesFrame, DepositedUnchanged DEF records
<1>9. ASSUME NEW b \in Account, b # a
      PROVE  Reconciled(b)'
  <2>1. Charged(b)' = Charged(b)
    BY <1>4, <1>5, <1>9 DEF Charged, HoldIs
  <2>2. booked'[b] = booked[b]
    BY <1>3, <1>9 DEF AdminInv, ChatInv, TypesInv, LedgerTypeOK
  <2>3. BooksFrame(b)
    BY <1>3, <1>8, <2>1, <2>2 DEF BooksFrame
  <2> QED
    BY <2>3, BooksKept DEF AdminInv
<1>10. Reconciled(a)'
  <2>1. /\ Charged(a)' = Charged(a) \cup {r} /\ r \notin Charged(a)
        /\ (Charged(a) \ logged)' = (Charged(a) \ logged) \cup {r}
    BY <1>1, <1>3, <1>4, <1>5 DEF Charged, HoldIs
  <2>2. booked'[a] = booked[a] - cost
    BY <1>1, <1>3 DEF AdminInv, ChatInv, TypesInv, LedgerTypeOK
  <2>3. /\ IsFiniteSet(Charged(a)) /\ IsFiniteSet(Charged(a) \ logged)
        /\ IsFiniteSet(Charged(a) \cup {r})
    BY <1>1, FS_Subset, FS_AddElement DEF AdminInv, Reconciled
  <2>4. Charged(a) \in SUBSET Request /\ \A q \in Charged(a) \cup {r} : charge[q] # None
    BY <1>1 DEF Charged, AdminInv, SettledPriced
  <2>5. /\ CostOf(Charged(a) \cup {r}) = cost + CostOf(Charged(a))
        /\ CostOf((Charged(a) \ logged) \cup {r}) = cost + CostOf(Charged(a) \ logged)
    BY <2>1, <2>3, <2>4, CostOfOneMore DEF AdminInv, ChatInv, TypesInv
  <2>6. /\ CostOf(Charged(a))' = CostOf(Charged(a) \cup {r})
        /\ CostOf(Charged(a) \ logged)' = CostOf((Charged(a) \ logged) \cup {r})
    BY <1>3, <2>1 DEF CostOf
  <2>7. /\ CostOf(Charged(a)) \in Int /\ CostOf(Charged(a) \ logged) \in Int
        /\ Deposited(a) \in Int /\ booked[a] \in Int /\ accountCredits[a] \in Int
    BY <1>1, BooksAreInt
  <2>8. /\ Deposited(a) - booked[a] = CostOf(Charged(a))
        /\ booked[a] + accountCredits[a] = Deposited(a) - CostOf(Charged(a) \ logged)
    BY <1>1 DEF AdminInv, Reconciled
  <2>9. Deposited(a)' = Deposited(a) /\ accountCredits'[a] = accountCredits[a]
    BY <1>1, <1>3, <1>8
  <2>10. /\ Deposited(a)' - booked'[a] = CostOf(Charged(a))'
         /\ booked'[a] + accountCredits'[a] = Deposited(a)' - CostOf(Charged(a) \ logged)'
    <3> HIDE DEF cost, a
    <3> QED
      BY <1>2, <2>2, <2>5, <2>6, <2>7, <2>8, <2>9
  <2>11. /\ IsFiniteSet(RowsOf(a)) /\ IsFiniteSet(WithoutRow(a))
         /\ RowsOf(a)' = RowsOf(a) /\ WithoutRow(a)' = WithoutRow(a)
    BY <1>1, <1>8 DEF AdminInv, Reconciled, DepositsFrame
  <2> QED
    BY <2>1, <2>3, <2>10, <2>11 DEF Reconciled
<1> QED
  BY <1>7, <1>9, <1>10

LEMMA RecordBooks ==
  ASSUME AdminInv, NEW r \in Request, Record(r), UNCHANGED <<planned, records>>
  PROVE  SettledPriced' /\ \A a \in Account : Reconciled(a)'
<1> DEFINE a == Owner[r]
           cost == charge[r].cost
<1>1. /\ pc[r] = "recording" /\ HoldIs(r, "settled") /\ charge[r] # None
      /\ r \notin logged /\ a \in Account
  BY Calls DEF Record, At, AdminInv, ChatInv, RequestsInv, RequestInv
<1>2. cost \in Int
  BY <1>1, ChargeIsInt DEF AdminInv, ChatInv, TypesInv
<1>3. /\ logged' = logged \cup {r}
      /\ accountCredits' = [accountCredits EXCEPT ![a] = @ + cost]
      /\ UNCHANGED <<hold, charge, booked, outcome>>
  BY DEF Record, ledgerVars, ledger, request
<1>4. SettledPriced'
  BY <1>3 DEF SettledPriced, AdminInv, HoldIs, HoldOf
<1>5. ASSUME NEW b \in Account
      PROVE  /\ Charged(b)' = Charged(b) /\ \A q \in Charged(b) : charge'[q] = charge[q]
             /\ DepositsFrame(b) /\ Deposited(b)' = Deposited(b) /\ booked'[b] = booked[b]
  <2>1. DepositsFrame(b)
    BY <1>3, OutcomesFrame DEF records
  <2> QED
    BY <1>3, <2>1, DepositedUnchanged DEF Charged, HoldIs, HoldOf
<1>6. ASSUME NEW b \in Account, b # a
      PROVE  Reconciled(b)'
  <2>1. (Charged(b) \ logged)' = Charged(b) \ logged
    BY <1>3, <1>5, <1>6 DEF Charged
  <2>2. accountCredits'[b] = accountCredits[b]
    BY <1>3, <1>6 DEF AdminInv, ChatInv, TypesInv, UsageTypeOK
  <2>3. BooksFrame(b)
    BY <1>5, <2>1, <2>2 DEF BooksFrame
  <2> QED
    BY <2>3, BooksKept DEF AdminInv
<1>7. Reconciled(a)'
  <2> DEFINE rest == Charged(a) \ (logged \cup {r})
  <2>1. /\ (Charged(a) \ logged)' = rest /\ Charged(a) \ logged = rest \cup {r}
        /\ r \notin rest
    BY <1>1, <1>3, <1>5 DEF Charged
  <2>2. IsFiniteSet(rest) /\ rest \in SUBSET Request /\ \A q \in rest \cup {r} : charge[q] # None
    BY <1>1, FS_Subset DEF AdminInv, Reconciled, Charged, SettledPriced
  <2> HIDE DEF rest
  <2>3. CostOf(rest \cup {r}) = cost + CostOf(rest) /\ CostOf(rest) \in Int
    BY <2>1, <2>2, CostOfOneMore, CostIsInt DEF AdminInv, ChatInv, TypesInv
  <2>4. /\ CostOf(Charged(a) \ logged)' = CostOf(rest)
        /\ CostOf(Charged(a))' = CostOf(Charged(a))
    BY <1>1, <1>3, <1>5, <2>1 DEF CostOf
  <2>5. accountCredits'[a] = accountCredits[a] + cost
    BY <1>1, <1>3 DEF AdminInv, ChatInv, TypesInv, UsageTypeOK
  <2>6. /\ CostOf(Charged(a)) \in Int /\ Deposited(a) \in Int /\ booked[a] \in Int
        /\ accountCredits[a] \in Int
    BY <1>1, BooksAreInt
  <2>7. /\ Deposited(a) - booked[a] = CostOf(Charged(a))
        /\ booked[a] + accountCredits[a] = Deposited(a) - CostOf(rest \cup {r})
        /\ IsFiniteSet(Charged(a)) /\ IsFiniteSet(RowsOf(a)) /\ IsFiniteSet(WithoutRow(a))
    BY <1>1, <2>1 DEF AdminInv, Reconciled
  <2>8. /\ Deposited(a)' = Deposited(a) /\ booked'[a] = booked[a]
        /\ Charged(a)' = Charged(a) /\ RowsOf(a)' = RowsOf(a) /\ WithoutRow(a)' = WithoutRow(a)
    BY <1>1, <1>5 DEF DepositsFrame
  <2>9. /\ Deposited(a)' - booked'[a] = CostOf(Charged(a))'
        /\ booked'[a] + accountCredits'[a] = Deposited(a)' - CostOf(Charged(a) \ logged)'
    <3> HIDE DEF cost, a
    <3> QED
      BY <1>2, <2>3, <2>4, <2>5, <2>6, <2>7, <2>8
  <2> QED
    BY <2>7, <2>8, <2>9 DEF Reconciled
<1> QED
  BY <1>4, <1>6, <1>7

(* A deposit: as much more to be recorded as is in the books.              *)
LEMMA DepositBooks ==
  ASSUME AdminInv, NEW a \in Account, NEW n \in Int,
         UNCHANGED <<hold, charge, logged, accountCredits>>,
         booked' = [booked EXCEPT ![a] = @ + n],
         \A b \in Account : /\ IsFiniteSet(RowsOf(b)') /\ IsFiniteSet(WithoutRow(b)')
                            /\ Deposited(b)' = Deposited(b) + IF b = a THEN n ELSE 0
  PROVE  \A b \in Account : Reconciled(b)'
<1> TAKE b \in Account
<1>1. /\ Charged(b)' = Charged(b) /\ (Charged(b) \ logged)' = Charged(b) \ logged
      /\ CostOf(Charged(b))' = CostOf(Charged(b))
      /\ CostOf(Charged(b) \ logged)' = CostOf(Charged(b) \ logged)
  BY DEF Charged, HoldIs, HoldOf, CostOf
<1>2. booked'[b] = booked[b] + IF b = a THEN n ELSE 0
  BY BooksAreInt DEF AdminInv, ChatInv, TypesInv, LedgerTypeOK
<1>3. /\ Deposited(b)' - booked'[b] = CostOf(Charged(b))'
      /\ booked'[b] + accountCredits'[b] = Deposited(b)' - CostOf(Charged(b) \ logged)'
  <2>1. /\ Deposited(b) - booked[b] = CostOf(Charged(b))
        /\ booked[b] + accountCredits[b] = Deposited(b) - CostOf(Charged(b) \ logged)
    BY DEF AdminInv, Reconciled
  <2>2. /\ CostOf(Charged(b)) \in Int /\ CostOf(Charged(b) \ logged) \in Int
        /\ Deposited(b) \in Int /\ booked[b] \in Int /\ accountCredits[b] \in Int
    BY BooksAreInt
  <2>3. /\ Deposited(b)' = Deposited(b) + IF b = a THEN n ELSE 0
        /\ accountCredits'[b] = accountCredits[b]
    OBVIOUS
  <2> QED
    BY <1>1, <1>2, <2>1, <2>2, <2>3
<1> QED
  BY <1>1, <1>3 DEF AdminInv, Reconciled

(* A committed adjustment, by either handler, has no row yet.              *)
LEMMA AppliedBooks ==
  ASSUME AdminInv, NEW c \in CreditCall, UNCHANGED <<planned, records, chatOnly>>,
         AccountOf(c) \in Account, DeltaOf(c) \in Int,
         Adjust(c, AccountOf(c), DeltaOf(c))
  PROVE  SettledPriced' /\ \A a \in Account : Reconciled(a)'
<1> DEFINE a == AccountOf(c)
           n == DeltaOf(c)
<1>1. UNCHANGED <<audit, planned>> /\ \A d : DeltaOf(d)' = DeltaOf(d)
  BY DEF records, DeltaOf
<1>2. /\ UNCHANGED <<hold, charge, logged, accountCredits>>
      /\ booked' = [booked EXCEPT ![a] = @ + n]
      /\ Return(c, "ok")
  BY DEF Adjust, chatOnly, request, usage
<1>3. SettledPriced'
  BY <1>2 DEF SettledPriced, AdminInv, HoldIs, HoldOf
<1>4. outcome[c] # "ok" /\ outcome'[c] = "ok" /\ \A d \in Call : d # c => outcome'[d] = outcome[d]
  BY <1>2, AdminCalls DEF Return, AdminInv, ChatInv, TypesInv, LedgerTypeOK
<1>5. audit[c] = None
  BY <1>4 DEF AdminInv, RecordsInv, RowsAreTrue
<1>6. ASSUME NEW b \in Account
      PROVE  /\ RowsOf(b)' = RowsOf(b)
             /\ WithoutRow(b)' = IF b = a THEN WithoutRow(b) \cup {c} ELSE WithoutRow(b)
             /\ c \notin WithoutRow(b)
  BY <1>1, <1>4, <1>5, AdminCalls DEF RowsOf, WithoutRow, AccountOf
<1>7. ASSUME NEW b \in Account
      PROVE  /\ IsFiniteSet(RowsOf(b)') /\ IsFiniteSet(WithoutRow(b)')
             /\ Deposited(b)' = Deposited(b) + IF b = a THEN n ELSE 0
  <2>1. IsFiniteSet(RowsOf(b)) /\ IsFiniteSet(WithoutRow(b))
    BY DEF AdminInv, Reconciled
  <2>2. IsFiniteSet(WithoutRow(b)')
    <3>1. IsFiniteSet(WithoutRow(b) \cup {c})
      BY <2>1, FS_AddElement
    <3> HIDE DEF a
    <3> QED
      BY <1>6, <2>1, <3>1
  <2> DEFINE f == [d \in WithoutRow(b) |-> DeltaOf(d)]
             g == [d \in WithoutRow(b)' |-> DeltaOf(d)]
  <2>3. Recorded(b)' = Recorded(b)
    BY <1>1, <1>6 DEF Recorded
  <2>4. Unrecorded(b) = SumFunction(f) /\ Unrecorded(b)' = SumFunction(g)
    BY <1>1 DEF Unrecorded
  <2>5. Recorded(b) \in Int /\ Unrecorded(b) \in Int
    BY BooksAreInt
  <2>6. SumFunction(g) = SumFunction(f) + IF b = a THEN n ELSE 0
    <3>1. CASE b = a
      <4>1. \A d \in WithoutRow(b) : DeltaOf(d) \in Int
        BY AppliedCall DEF WithoutRow, AdminInv
      <4>2. /\ DOMAIN f = WithoutRow(b) /\ DOMAIN g = DOMAIN f \cup {c} /\ g[c] = n
            /\ \A d \in DOMAIN f : f[d] \in Int /\ g[d] = f[d]
        BY <1>6, <3>1, <4>1
      <4> HIDE DEF f, g, n, a
      <4>3. SumFunction(g) = n + SumFunction(f)
        BY <1>6, <2>1, <4>2, SumOfOneMore DEF n
      <4> QED
        BY <2>4, <2>5, <3>1, <4>3 DEF n
    <3>2. CASE b # a
      <4>1. g = f
        BY <1>6, <3>2
      <4> HIDE DEF f, g
      <4> QED
        BY <2>4, <2>5, <3>2, <4>1
    <3> QED
      BY <3>1, <3>2
  <2> HIDE DEF f, g, a
  <2>7. Deposited(b)' = Deposited(b) + IF b = a THEN n ELSE 0
    BY <2>3, <2>4, <2>5, <2>6 DEF Deposited
  <2> QED
    BY <1>6, <2>1, <2>2, <2>7
<1> HIDE DEF a, n
<1> QED
  BY <1>2, <1>3, <1>7, DepositBooks DEF a, n

(* A row: what was without one is on record, and nothing else moves.       *)
LEMMA RecordedBooks ==
  ASSUME AdminInv, NEW c \in CreditCall, RecordAdjustment(c)
  PROVE  RecordsInv' /\ \A a \in Account : Reconciled(a)'
<1> DEFINE a == AccountOf(c)
           n == DeltaOf(c)
           row == [account |-> a, delta |-> n]
<1>1. a \in Account /\ n \in Int /\ outcome[c] = "ok" /\ c \notin ended
  BY AppliedCall DEF RecordAdjustment, Applied, AdminInv
<1>2. audit[c] = None
  BY <1>1 DEF AdminInv, RecordsInv, RowsAreTrue
<1>3. /\ UNCHANGED <<planned, outcome, hold, charge, logged, booked, accountCredits>>
      /\ audit' = [audit EXCEPT ![c] = row] /\ ended' = ended \cup {c}
      /\ \A d : DeltaOf(d)' = DeltaOf(d)
  BY DEF RecordAdjustment, chatVars, ledgerVars, ledger, request, usage, DeltaOf
<1>4. row \in [account : Account, delta : Int] /\ row # None
      /\ row.account = a /\ row.delta = n
  BY <1>1, SetConstants
<1>5. /\ audit'[c] = row /\ \A d \in CreditCall : d # c => audit'[d] = audit[d]
      /\ audit' \in [CreditCall -> [account : Account, delta : Int] \cup {None}]
  <2> HIDE DEF row
  <2> QED
    BY <1>3, <1>4 DEF AdminInv, RecordsInv
<1>6. RecordsInv'
  <2>1. ASSUME NEW d \in CreditCall, audit'[d] # None
        PROVE  /\ d \in ended' /\ outcome'[d] = "ok"
               /\ audit'[d] = [account |-> AccountOf(d), delta |-> DeltaOf(d)]
    BY <1>1, <1>3, <1>5, <2>1 DEF AdminInv, RecordsInv, RowsAreTrue
  <2> HIDE DEF row, a, n
  <2> QED
    BY <1>3, <1>5, <2>1 DEF RecordsInv, RowsAreTrue, AccountOf
<1>7. ASSUME NEW b \in Account
      PROVE  Reconciled(b)'
  <2>1. /\ Charged(b)' = Charged(b) /\ (Charged(b) \ logged)' = Charged(b) \ logged
        /\ CostOf(Charged(b))' = CostOf(Charged(b))
        /\ CostOf(Charged(b) \ logged)' = CostOf(Charged(b) \ logged)
    BY <1>3 DEF Charged, HoldIs, HoldOf, CostOf
  <2>2. IsFiniteSet(RowsOf(b)) /\ IsFiniteSet(WithoutRow(b))
    BY DEF AdminInv, Reconciled
  <2> HIDE DEF row
  <2>3. CASE b # a
    <3>1. DepositsFrame(b)
      BY <1>2, <1>3, <1>4, <1>5, <2>3 DEF DepositsFrame, RowsOf, WithoutRow, AccountOf
    <3> QED
      BY <1>3, <2>1, <3>1, BooksKept DEF BooksFrame, AdminInv, Charged
  <2>4. CASE b = a
    <3>1. /\ RowsOf(b)' = RowsOf(b) \cup {c} /\ c \notin RowsOf(b)
          /\ WithoutRow(b) = WithoutRow(b)' \cup {c} /\ c \notin WithoutRow(b)'
      BY <1>1, <1>2, <1>3, <1>4, <1>5, <2>4 DEF RowsOf, WithoutRow, AccountOf
    <3>2. IsFiniteSet(RowsOf(b)') /\ IsFiniteSet(WithoutRow(b)')
      BY <2>2, <3>1, FS_AddElement, FS_Subset
    <3> DEFINE f == [d \in RowsOf(b) |-> audit[d].delta]
               g == [d \in RowsOf(b)' |-> audit'[d].delta]
               p == [d \in WithoutRow(b)' |-> DeltaOf(d)]
               q == [d \in WithoutRow(b) |-> DeltaOf(d)]
    <3>3. /\ Recorded(b) = SumFunction(f) /\ Recorded(b)' = SumFunction(g)
          /\ Unrecorded(b)' = SumFunction(p) /\ Unrecorded(b) = SumFunction(q)
      BY <1>3 DEF Recorded, Unrecorded
    <3>4. Recorded(b) \in Int /\ Unrecorded(b) \in Int
      BY BooksAreInt
    <3>5. SumFunction(g) = n + SumFunction(f)
      <4>1. \A d \in RowsOf(b) : audit[d].delta \in Int /\ audit'[d] = audit[d]
        BY <1>5, <3>1, RowIsInt DEF RowsOf, AdminInv
      <4>2. /\ DOMAIN f = RowsOf(b) /\ DOMAIN g = DOMAIN f \cup {c} /\ g[c] = n
            /\ \A d \in DOMAIN f : f[d] \in Int /\ g[d] = f[d]
        BY <1>4, <1>5, <3>1, <4>1
      <4> HIDE DEF f, g, n
      <4> QED
        BY <1>1, <2>2, <3>1, <4>2, SumOfOneMore
    <3>6. SumFunction(q) = n + SumFunction(p)
      <4>1. \A d \in WithoutRow(b) : DeltaOf(d) \in Int
        BY AppliedCall DEF WithoutRow, AdminInv
      <4>2. /\ DOMAIN p = WithoutRow(b)' /\ DOMAIN q = DOMAIN p \cup {c} /\ q[c] = n
            /\ \A d \in DOMAIN p : p[d] \in Int /\ q[d] = p[d]
        BY <3>1, <4>1
      <4> HIDE DEF p, q, n
      <4> QED
        BY <1>1, <3>1, <3>2, <4>2, SumOfOneMore
    <3>7. SumFunction(p) \in Int
      <4>1. \A d \in WithoutRow(b)' : DeltaOf(d) \in Int
        BY <3>1, AppliedCall DEF WithoutRow, AdminInv
      <4>2. DOMAIN p = WithoutRow(b)' /\ \A d \in DOMAIN p : p[d] \in Int
        BY <4>1
      <4> HIDE DEF p
      <4> QED
        BY <3>2, <4>2, SumIsInt DEF SumFunction
    <3> HIDE DEF f, g, p, q, n
    <3>8. Deposited(b)' = Deposited(b)
      BY <1>1, <3>3, <3>4, <3>5, <3>6, <3>7 DEF Deposited
    <3> QED
      BY <1>3, <2>1, <3>2, <3>8 DEF AdminInv, Reconciled
  <2> QED
    BY <2>3, <2>4
<1> QED
  BY <1>6, <1>7

(* A step that returns nothing but failures to administrators, and that    *)
(* settles and records nothing.                                            *)
LEMMA QuietBooks ==
  ASSUME AdminInv, UNCHANGED <<booked, logged, accountCredits, audit>>,
         \A r \in Request : HoldIs(r, "settled")' <=> HoldIs(r, "settled"),
         \A r \in Request : HoldIs(r, "settled") => charge'[r] = charge[r],
         \A c \in CreditCall : outcome'[c] = "ok" <=> outcome[c] = "ok",
         \A c \in SetCall : outcome[c] = "ok" => planned'[c] = planned[c]
  PROVE  SettledPriced' /\ \A a \in Account : Reconciled(a)'
<1>1. SettledPriced'
  BY DEF SettledPriced, AdminInv
<1>2. ASSUME NEW a \in Account
      PROVE  BooksFrame(a)
  <2>1. DepositsFrame(a)
    BY DEF DepositsFrame, RowsOf, WithoutRow, DeltaOf, AccountOf, CreditCall
  <2> QED
    BY <2>1, ChargesFrame DEF BooksFrame
<1> QED
  BY <1>1, <1>2, BooksKept DEF AdminInv

LEMMA HandlerBooks ==
  ASSUME AdminInv, NEW r \in Request, Handler(r), UNCHANGED <<planned, records>>
  PROVE  SettledPriced' /\ \A a \in Account : Reconciled(a)'
<1>1. CASE Settle(r)
  BY <1>1, SettleBooks
<1>2. CASE Record(r)
  BY <1>2, RecordBooks
<1>3. CASE ~Settle(r) /\ ~Record(r)
  <2>1. UNCHANGED <<booked, logged, accountCredits>>
    BY <1>3 DEF Handler, Reject, NoCandidate, LookUp, CallUpstream, UpstreamAnswers,
       UpstreamFails, Disable, CacheBalance, RecordFails, Meter, MeterFails,
       Mark, Notify, Place, PlaceFails, Release, SettleFails, PlaceHold, NoEffect,
       ReleaseHold, ledgerVars, ledger, usage
  <2>2. \A c \in CreditCall : outcome'[c] = outcome[c]
    BY HandlerLeavesAdmins DEF AdminInv, ChatInv, TypesInv
  <2>3. ASSUME NEW q \in Request, q # r
        PROVE  /\ HoldIs(q, "settled")' <=> HoldIs(q, "settled")
               /\ charge'[q] = charge[q]
    BY <2>3, OtherFrame DEF Frame, HoldIs, HoldOf, AdminInv, ChatInv, TypesInv, RequestsInv
  <2>4. /\ HoldIs(r, "settled")' <=> HoldIs(r, "settled")
        /\ HoldIs(r, "settled") => charge'[r] = charge[r]
    <3>1. CASE UNCHANGED <<hold, charge>>
      BY <3>1 DEF HoldIs, HoldOf
    <3>2. CASE UpstreamAnswers(r)
      BY <3>2 DEF UpstreamAnswers, At, HoldIs, HoldOf, ledgerVars, ledger, AdminInv, ChatInv,
         RequestsInv, RequestInv
    <3>3. ASSUME NEW e \in Estimate, PlaceHold(PlaceCall(r), Owner[r], e), UNCHANGED charge
          PROVE  <2>4!:
      <4>1. hold'[PlaceCall(r)].status = "held"
        BY <3>3, Calls, PlacedHold DEF AdminInv, ChatInv, TypesInv
      <4>2. hold[PlaceCall(r)] = None
        BY <3>3, Calls DEF PlaceHold, Return, AdminInv, ChatInv, TypesInv, LedgerTypeOK
      <4> QED
        BY <4>1, <4>2 DEF HoldIs, HoldOf
    <3>4. CASE ReleaseHold(CloseCall(r), PlaceCall(r))
      <4>1. /\ IsOpenHold(PlaceCall(r))
            /\ hold' = [hold EXCEPT ![PlaceCall(r)] = [@ EXCEPT !.status = "released"]]
        BY <3>4, Zenon DEF ReleaseHold, CanRelease
      <4>2. hold'[PlaceCall(r)].status = "released" /\ hold[PlaceCall(r)].status = "held"
        BY <4>1, Calls, ClosedHold, HeldHold DEF AdminInv, ChatInv, TypesInv
      <4> QED
        BY <4>2 DEF HoldIs, HoldOf
    <3> QED
      BY <1>3, <3>1, <3>2, <3>3, <3>4
         DEF Handler, Reject, NoCandidate, LookUp, CallUpstream,
             UpstreamFails, Disable, CacheBalance, RecordFails, Meter, MeterFails,
             Mark, Notify, Place, PlaceFails, Release, SettleFails, NoEffect, Answer,
             ledgerVars, ledger, request
  <2> QED
    BY <2>1, <2>2, <2>3, <2>4, QuietBooks DEF AdminInv, records
<1> QED
  BY <1>1, <1>2, <1>3

LEMMA ChatBooks ==
  ASSUME AdminInv, [ChatNext]_chatVars, UNCHANGED <<planned, records>>
  PROVE  SettledPriced' /\ \A a \in Account : Reconciled(a)'
<1>1. ASSUME NEW r \in Request, Handler(r)
      PROVE  SettledPriced' /\ \A a \in Account : Reconciled(a)'
  BY <1>1, HandlerBooks
<1>2. ASSUME NEW c \in AdminCall, AdjustCredits(c)
      PROVE  SettledPriced' /\ \A a \in Account : Reconciled(a)'
  <2>1. CASE Adjust(c, Adjustment[c].account, Adjustment[c].delta)
    <3>1. c \in CreditCall /\ AccountOf(c) = Adjustment[c].account /\ DeltaOf(c) = Adjustment[c].delta
      BY DEF CreditCall, AccountOf, DeltaOf
    <3>2. AccountOf(c) \in Account /\ DeltaOf(c) \in Int
      <4>1. Adjustment[c] \in [account : Account, delta : Delta]
        BY ChatConstants
      <4>2. Adjustment[c].account \in Account /\ Adjustment[c].delta \in Int
        BY <4>1, LedgerConstants
      <4> QED
        BY <3>1, <4>2
    <3>3. Adjust(c, AccountOf(c), DeltaOf(c))
      BY <2>1, <3>1
    <3> QED
      BY <1>2, <3>1, <3>2, <3>3, AppliedBooks DEF AdjustCredits
  <2>2. CASE NoEffect(c)
    <3>1. \A d \in CreditCall : outcome'[d] = "ok" <=> outcome[d] = "ok"
      BY <2>2, AdminCalls DEF NoEffect, Return, AdminInv, ChatInv, TypesInv, LedgerTypeOK
    <3> QED
      BY <1>2, <2>2, <3>1, QuietBooks
         DEF AdjustCredits, NoEffect, ledger, chatOnly, request, usage, records, HoldIs, HoldOf
  <2> QED
    BY <1>2, <2>1, <2>2 DEF AdjustCredits
<1>3. CASE UNCHANGED <<booked, hold, outcome, charge, logged, accountCredits>>
  BY <1>3, QuietBooks DEF records, HoldIs, HoldOf
<1> QED
  BY <1>1, <1>2, <1>3
     DEF ChatNext, Drop, CreateAccount, OpenAccount, Expire, SetProviderStatus,
         SyncProviderQuota, chatOnly, chatVars, ledgerVars, ledger, request, usage

LEMMA ReadBooks ==
  ASSUME AdminInv, NEW c \in SetCall, ReadBalance(c)
  PROVE  AppliedRead' /\ RecordsInv' /\ SettledPriced' /\ \A a \in Account : Reconciled(a)'
<1>1. UNCHANGED <<booked, hold, outcome, charge, logged, accountCredits, audit, ended>>
  BY DEF ReadBalance, chatVars, ledgerVars, ledger, request, usage, records
<1>2. outcome[c] # "ok" /\ \A d \in SetCall : d # c => planned'[d] = planned[d]
  BY DEF ReadBalance, AdminInv, AppliedRead
<1>3. AppliedRead'
  BY <1>1, <1>2 DEF AdminInv, AppliedRead
<1>4. RecordsInv'
  BY <1>1, <1>2 DEF AdminInv, RecordsInv, RowsAreTrue, AccountOf, DeltaOf, CreditCall
<1> QED
  BY <1>1, <1>2, <1>3, <1>4, QuietBooks DEF HoldIs, HoldOf

(* Rows stay true when calls return for the first time.                    *)
LEMMA ReturnKeepsRows ==
  ASSUME AdminInv, UNCHANGED <<planned, records>>,
         \A c \in CreditCall : outcome[c] = "ok" => outcome'[c] = "ok"
  PROVE  RecordsInv'
BY DEF AdminInv, RecordsInv, RowsAreTrue, AccountOf, DeltaOf, records

LEMMA AdminInitInv == AdminInit => AdminInv
<1> SUFFICES ASSUME AdminInit
             PROVE  AdminInv
  OBVIOUS
<1>1. ChatInv /\ PlannedOK
  BY ChatInitInv DEF AdminInit, PlannedOK
<1>2. /\ \A r \in Request : ~HoldIs(r, "settled")
      /\ \A c \in Call : outcome[c] # "ok"
  BY Calls DEF AdminInit, ChatInit, LedgerInit, HoldIs, HoldOf
<1>3. ASSUME NEW a \in Account
      PROVE  Reconciled(a)
  <2>1. Charged(a) = {} /\ RowsOf(a) = {} /\ WithoutRow(a) = {}
    BY <1>2, AdminCalls DEF Charged, RowsOf, WithoutRow, AdminInit
  <2>2. /\ Recorded(a) = 0 /\ Unrecorded(a) = 0
        /\ CostOf(Charged(a)) = 0 /\ CostOf(Charged(a) \ logged) = 0
    BY <2>1, SumOfNone DEF Recorded, Unrecorded, CostOf
  <2>3. booked[a] = 0 /\ accountCredits[a] = 0
    BY DEF AdminInit, ChatInit, LedgerInit
  <2> QED
    BY <2>1, <2>2, <2>3, FS_EmptySet DEF Reconciled, Deposited
<1>4. RecordsInv
  BY DEF AdminInit, RecordsInv, RowsAreTrue
<1> QED
  BY <1>1, <1>2, <1>3, <1>4, AdminCalls DEF AdminInv, SettledPriced, AppliedRead, CreditCall

LEMMA AdminNextInv ==
  ASSUME AdminInv, [AdminNext]_adminVars
  PROVE  AdminInv'
<1> USE DEF AdminInv
<1>1. CASE [ChatNext]_chatVars /\ UNCHANGED <<planned, records>>
  <2>1. ChatInv' /\ PlannedOK'
    BY <1>1, ChatNextInv DEF PlannedOK
  <2>2. /\ \A c \in SetCall : outcome'[c] = outcome[c]
        /\ \A c \in CreditCall : outcome[c] = "ok" => outcome'[c] = "ok"
    <3>1. ASSUME NEW c \in CreditCall, NEW d \in AdminCall, AdjustCredits(d)
          PROVE  /\ c \in SetCall => outcome'[c] = outcome[c]
                 /\ outcome[c] = "ok" => outcome'[c] = "ok"
      BY <3>1, AdminCalls
         DEF AdjustCredits, Adjust, NoEffect, Return, ChatInv, TypesInv, LedgerTypeOK, CreditCall
    <3> QED
      BY <1>1, <3>1, HandlerLeavesAdmins
         DEF ChatNext, Drop, CreateAccount, OpenAccount, Expire, SetProviderStatus,
             SyncProviderQuota, chatVars, ledgerVars, ChatInv, TypesInv, CreditCall
  <2>3. AppliedRead' /\ RecordsInv'
    BY <1>1, <2>2, ReturnKeepsRows DEF AppliedRead
  <2> QED
    BY <1>1, <2>1, <2>3, ChatBooks
<1>2. ASSUME NEW c \in SetCall, ReadBalance(c)
      PROVE  AdminInv'
  <2>1. ChatInv' /\ PlannedOK'
    BY <1>2, ChatNextInv, ReadKeeps DEF ReadBalance
  <2> QED
    BY <1>2, <2>1, ReadBooks
<1>3. ASSUME NEW c \in SetCall, SetCredits(c)
      PROVE  AdminInv'
  <2>1. /\ planned[c] # None /\ UNCHANGED <<planned, records, chatOnly>>
        /\ c \in CreditCall /\ c \notin AdminCall
    BY <1>3, AdminCalls DEF SetCredits, CreditCall
  <2>2. ChatInv' /\ PlannedOK'
    BY <1>3, <2>1, SetKeeps DEF PlannedOK
  <2>3. \A d \in CreditCall : d # c => outcome'[d] = outcome[d]
    BY <1>3, <2>1, AdminCalls DEF SetCredits, Adjust, NoEffect, Return, ChatInv, TypesInv, LedgerTypeOK
  <2>4. outcome[c] # "ok"
    BY <1>3, <2>1, AdminCalls DEF SetCredits, Adjust, NoEffect, Return, ChatInv, TypesInv, LedgerTypeOK
  <2>5. AppliedRead' /\ RecordsInv'
    BY <2>1, <2>3, <2>4, ReturnKeepsRows DEF AppliedRead, CreditCall
  <2>6. CASE Adjust(c, Setting[c].account, planned[c].delta)
    <3>1. /\ AccountOf(c) = Setting[c].account /\ DeltaOf(c) = planned[c].delta
          /\ AccountOf(c) \in Account /\ DeltaOf(c) \in Int
      BY <2>1, SetConstants DEF AccountOf, DeltaOf, PlannedOK
    <3>2. Adjust(c, AccountOf(c), DeltaOf(c))
      BY <2>6, <3>1
    <3> QED
      BY <2>1, <2>2, <2>5, <3>1, <3>2, AppliedBooks
  <2>7. CASE NoEffect(c)
    <3>1. \A d \in CreditCall : outcome'[d] = "ok" <=> outcome[d] = "ok"
      BY <2>1, <2>3, <2>4, <2>7, AdminCalls DEF NoEffect, Return, ChatInv, TypesInv, LedgerTypeOK
    <3>2. SettledPriced' /\ \A a \in Account : Reconciled(a)'
      BY <2>1, <2>7, <3>1, QuietBooks
         DEF NoEffect, ledger, chatOnly, request, usage, records, HoldIs, HoldOf
    <3> QED
      BY <2>2, <2>5, <3>2
  <2> QED
    BY <1>3, <2>6, <2>7 DEF SetCredits
<1>4. ASSUME NEW c \in CreditCall, RecordAdjustment(c)
      PROVE  AdminInv'
  <2>1. UNCHANGED <<chatVars, planned>>
    BY <1>4 DEF RecordAdjustment
  <2>2. ChatInv' /\ PlannedOK' /\ AppliedRead' /\ SettledPriced'
    BY <2>1, ChatNextInv
       DEF PlannedOK, AppliedRead, SettledPriced, HoldIs, HoldOf, chatVars, ledgerVars, ledger, request
  <2> QED
    BY <1>4, <2>2, RecordedBooks
<1>5. ASSUME NEW c \in CreditCall, RecordLost(c)
      PROVE  AdminInv'
  <2>1. /\ UNCHANGED <<chatVars, planned, audit>> /\ ended \subseteq ended'
        /\ UNCHANGED <<booked, hold, outcome, charge, logged, accountCredits>>
    BY <1>5 DEF RecordLost, chatVars, ledgerVars, ledger, request, usage
  <2>2. ChatInv' /\ PlannedOK' /\ AppliedRead'
    BY <2>1, ChatNextInv DEF PlannedOK, AppliedRead
  <2>3. RecordsInv'
    BY <2>1 DEF RecordsInv, RowsAreTrue, AccountOf, DeltaOf
  <2>4. SettledPriced' /\ \A a \in Account : Reconciled(a)'
    BY <2>1, QuietBooks DEF HoldIs, HoldOf
  <2> QED
    BY <2>2, <2>3, <2>4
<1> QED
  BY <1>1, <1>2, <1>3, <1>4, <1>5 DEF AdminNext, adminVars

(* Balances may be set at any time, to anything: the holds and the replies *)
(* of the requests in flight stay as they should be, no account is         *)
(* oversold, credits.held is the sum of the open holds and the books       *)
(* balance.                                                                *)
THEOREM SetCreditsIsSafe ==
  AdminSpec => [](/\ ChatTypeOK /\ HoldFollowsRequest /\ ReplyMatchesLedger
                  /\ StuckOnlyAfterFailure
                  /\ NeverOversold /\ HeldIsSumOfHolds /\ BooksBalance)
<1>1. AdminInv => /\ ChatTypeOK /\ HoldFollowsRequest /\ ReplyMatchesLedger
                  /\ StuckOnlyAfterFailure
                  /\ NeverOversold /\ HeldIsSumOfHolds /\ BooksBalance
  BY InvImpliesProperties, InvImpliesPromises DEF AdminInv, ChatInv, LedgerInv
<1>2. AdminInv /\ [AdminNext]_adminVars => AdminInv'
  BY AdminNextInv
<1> QED
  BY AdminInitInv, <1>1, <1>2, PTL DEF AdminSpec

(* The two steps of set_credits are to the ledger one adjustment, by an    *)
(* amount that nobody names beforehand.                                    *)
THEOREM AdminRefinesLedger == Delta = Int => (AdminSpec => LedgerSpec)
<1> SUFFICES ASSUME Delta = Int
             PROVE  AdminSpec => LedgerSpec
  OBVIOUS
<1>1. AdminInit => LedgerInit
  BY DEF AdminInit, ChatInit
<1>2. AdminInv /\ [AdminNext]_adminVars => [LedgerNext]_ledgerVars
  <2> SUFFICES ASSUME AdminInv, [AdminNext]_adminVars
               PROVE  [LedgerNext]_ledgerVars
    OBVIOUS
  <2>1. CASE [ChatNext]_chatVars
    BY <2>1, ChatUsesLedger DEF AdminInv, ChatInv, TypesInv
  <2>2. ASSUME NEW c \in SetCall, SetCredits(c)
        PROVE  [LedgerNext]_ledgerVars
    <3>1. c \in Call /\ Setting[c].account \in Account /\ planned[c].delta \in Delta
      BY <2>2, SetConstants DEF AdminInv, PlannedOK, SetCredits
    <3> QED
      BY <2>2, <3>1 DEF SetCredits, LedgerNext
  <2> QED
    BY <2>1, <2>2 DEF AdminNext, ReadBalance, RecordAdjustment, RecordLost, adminVars
<1>3. AdminInv /\ [AdminNext]_adminVars => AdminInv'
  BY AdminNextInv
<1> QED
  BY AdminInitInv, <1>1, <1>2, <1>3, PTL DEF AdminSpec, LedgerSpec

(* Whatever is set, adjusted, charged and recorded, in any order and by    *)
(* any number of calls, and whichever audit records are lost: the          *)
(* transactions of an account are what its audit records and its           *)
(* adjustments without a record add up to, less the cost of its settled    *)
(* requests; the usage summary is that cost less the part that was not     *)
(* recorded; and every audit record tells the account and the delta of an  *)
(* adjustment that was committed.                                          *)
THEOREM BooksReconcile == AdminSpec => [](ChargesReconcile /\ RowsAreTrue)
<1>1. AdminInv => ChargesReconcile /\ RowsAreTrue
  BY DEF AdminInv, Reconciled, ChargesReconcile, RecordsInv
<1>2. AdminInv /\ [AdminNext]_adminVars => AdminInv'
  BY AdminNextInv
<1> QED
  BY AdminInitInv, <1>1, <1>2, PTL DEF AdminSpec

-----------------------------------------------------------------------------
(* The amounts.                                                            *)

LEMMA ThousandthIsInt ==
  ASSUME NEW n \in Int
  PROVE  /\ Thousandth(n) \in Int
         /\ n >= 0 => Thousandth(n) >= 0 /\ 1000 * Thousandth(n) <= n
         /\ n >= 0 => n < 1000 * (Thousandth(n) + 1)
BY DEF Thousandth

LEMMA SaturateFits ==
  ASSUME NEW n \in Int
  PROVE  /\ Saturate(n) \in MinInt .. MaxInt
         /\ n >= 0 => Saturate(n) >= 0 /\ Saturate(n) <= n
BY BillingConstants DEF Saturate, MinInt

LEMMA PartNotOver ==
  ASSUME NEW n \in Nat
  PROVE  Thousandth(Saturate(n)) \in Nat /\ 1000 * Thousandth(Saturate(n)) <= n
<1> DEFINE x == Saturate(n)
<1>1. x \in Int /\ 0 <= x /\ x <= n
  BY SaturateFits, BillingConstants DEF MinInt
<1> HIDE DEF x
<1>2. Thousandth(x) \in Int /\ 0 <= Thousandth(x) /\ 1000 * Thousandth(x) <= x
  BY <1>1, ThousandthIsInt
<1> QED
  BY <1>1, <1>2 DEF x

(* Whatever the upstream reports, the sum of the two parts of a price is   *)
(* in the range of i64: it needs no saturation.                            *)
THEOREM PriceFits ==
  ASSUME NEW p \in Int, NEW c \in Int, NEW input \in Int, NEW output \in Int
  PROVE  ComputeCredits([prompt |-> p, completion |-> c], input, output) \in MinInt .. MaxInt
<1> DEFINE x == Saturate(p * input)
           y == Saturate(c * output)
<1>1. x \in MinInt .. MaxInt /\ y \in MinInt .. MaxInt
  BY SaturateFits
<1> HIDE DEF x, y
<1>2. Thousandth(x) + Thousandth(y) \in MinInt .. MaxInt
  BY <1>1, BillingConstants DEF MinInt, Thousandth
<1> QED
  BY <1>2 DEF x, y, ComputeCredits

(* Rates and counts that are not negative: rounding and saturation are in  *)
(* favour of the account, which never pays more than the exact price.      *)
THEOREM NeverOvercharged ==
  ASSUME NEW p \in Nat, NEW c \in Nat, NEW input \in Nat, NEW output \in Nat
  PROVE  1000 * ActualCredits([prompt |-> p, completion |-> c], input, output)
           <= p * input + c * output
<1> DEFINE a == p * input
           b == c * output
           u == [prompt |-> p, completion |-> c]
<1>1. a \in Nat /\ b \in Nat
  OBVIOUS
<1>2. ComputeCredits(u, input, output) = Thousandth(Saturate(a)) + Thousandth(Saturate(b))
  BY DEF ComputeCredits
<1> HIDE DEF a, b, u
<1>3. /\ Thousandth(Saturate(a)) \in Nat /\ 1000 * Thousandth(Saturate(a)) <= a
      /\ Thousandth(Saturate(b)) \in Nat /\ 1000 * Thousandth(Saturate(b)) <= b
  BY <1>1, PartNotOver
<1>4. 1000 * ActualCredits(u, input, output) <= a + b
  BY <1>1, <1>2, <1>3 DEF ActualCredits
<1> QED
  BY <1>4 DEF a, b, u

(* What ChatConstants and LedgerConstants assume of the amounts of a       *)
(* request is what chat.rs computes: a hold is positive, a cost is not     *)
(* negative, whatever the text, the upstream's figures and the rates are.  *)
THEOREM AmountsAreSound ==
  ASSUME NEW p \in Int, NEW c \in Int, NEW input \in Int, NEW output \in Int
  PROVE  /\ EstimatedCredits(p, input, output) \in Nat \ {0}
         /\ ActualCredits([prompt |-> p, completion |-> c], input, output) \in Nat
<1>1. ComputeCredits([prompt |-> p, completion |-> 0], input, output) \in Int
  BY PriceFits, BillingConstants DEF MinInt
<1>2. ComputeCredits([prompt |-> p, completion |-> c], input, output) \in Int
  BY PriceFits, BillingConstants DEF MinInt
<1> QED
  BY <1>1, <1>2 DEF EstimatedCredits, ActualCredits
=============================================================================
