# TokenHub: a verification project

TokenHub is a gateway to large language models: it authenticates a caller by API
token, picks an upstream provider, forwards the chat request, and charges the
caller's account in credits. This directory models it in TLA+, checks the models
with TLC, and proves the main results with TLAPS. Paths are those of the
repository, without `src/crates/`; "design" is
`docs/specs/2026-07-24-tokenhub-backend-design.md`.

## 1. The system

| Component | State it keeps | Operations | Hard behaviour | Module |
|---|---|---|---|---|
| Credits repository, `storage/src/repo/credits.rs` | `credits` (balance, held, version), `credit_holds`, `credit_transactions` | `init`, `adjust`, `place_hold`, `settle_hold`, `release_hold` | read-then-write transactions, one version guards two tables, errors and rollback | `CreditLedger` |
| Chat handler, `api/src/handlers/chat.rs` | a request's progress through its awaits | `chat_completions` | failure at a dozen awaits, dropped futures, fallback over a stale list | `ChatBilling` |
| Provider quota, `storage/src/repo/provider.rs` | status, used, alert flag | `set_status`, `add_usage`, `mark_alert_sent`, `sync_quota` | test and set in separate statements, sync at any time | `ProviderPool` |
| Usage log, `storage/src/repo/usage_log.rs` | `usage_logs`, two summaries | `insert_and_aggregate` | a transaction of its own, after the charge | `ChatBilling` |
| Credit handlers, `api/src/handlers/admin/credits.rs` | audit records | `adjust_credits`, `set_credits` | read and adjust in two transactions, the audit record in a third that may fail | `CreditAdmin` |
| Billing, `billing` | - | `compute_credits`, `resolve_usage`, estimate | saturation, rounding | `Billing` |
| Models, providers and mappings, `storage/src/repo/{model,provider}.rs` and their handlers | three tables, audit records | CRUD, `set_rates` | look-ups one query at a time, read-write-record | `CatalogTables`, `ModelCatalog` |
| Route selection, `router-llm/src/selector.rs` | - | `select` | two strategies, weighted shuffle | `ModelCatalog` |
| API tokens, `api/src/middleware/auth_chat.rs`, `cache/src/token_cache.rs` | `accounts`, `api_tokens`, cache entries | issue, revoke, look up, fill | revocation against a fill in flight | `TokenAuth` |
| Rate limit, `cache/src/{memory,redis_backend,rate_cache}.rs` | one counter with an expiry | `incr_with_expire`, `check` | lost increments, counters without expiry | `RateLimit` |
| Admin sessions, `api/src/handlers/admin/auth.rs`, `auth_admin.rs` | administrators, access and refresh tokens | login, refresh, logout, authenticate | double refresh, ignored failures, revocation between two reads | `AdminSession` |
| Service accounts, `api/src/handlers/admin/services.rs`, `auth/src/jwt.rs` | `service_accounts`, JWTs | create, update, delete, reset, exchange | a JWT outlives what it was issued on | `ServiceAccount` |
| Audit sink, `audit/src/sink.rs` | channel, two batches, fallback file | `log_usage`, `log_audit`, worker, close | batching, backpressure, failed flush | `AuditSink` |
| Tunnel agent, `agent` | controller state, supervisor task, child process | toggle, open, close, status, supervise | check then act, cancellation, one config file | `TunController` |
| Start-up, configuration, CLI, reports, devices, policies, domain types | - | - | - | none |

How they interact. The chat handler authenticates (`auth_chat`), reads the
catalogue, then calls the credits repository (hold, then settle or release), the
provider registry, the usage log, the balance cache and the notifier, each by an
awaited call on a connection pool; nothing is held across two calls. Admin
handlers authenticate (`auth_admin`) and call the same repositories concurrently.
Shared state is one SQLite database in WAL mode, and the cache.

`PROJECT.json` lists under `hazards` what is hard to test here, each at its line
and with the properties that would catch it.

## 2. The modules

```
AtomicLedger  <-- extends and implements -- CreditLedger <- MCCreditLedger
   ^                                             ^
ProviderPool                            CreditLedgerProofs
   ^
ChatBilling <- MCChatBilling            RateCounter <-- implements -- RedisWindow
   ^                ^                       ^                             ^
CreditAdmin   <- MCCreditAdmin          RateLimit ------------------------'
   ^                ^                       |  '--> MemoryWindow (extended)
   |             Billing                RateLimitProofs
ChatBillingProofs (extends CreditAdmin, Billing and CreditLedgerProofs)

CatalogTables <- ModelCatalog <- MCModelCatalog, ModelCatalogProofs
TokenAuth <- MCTokenAuth, TokenAuthProofs
AdminSession
   ^
AdminAccess --> ServiceAccount (instance)
   ^   ^-- MCAdminAccess
AdminSessionProofs
AuditSink <- MCAuditSink, AuditSinkProofs
TunController <- MCTunController, TunControllerProofs
```

An await is where another task may run and where a handler may end, because hyper
drops the future of a client that goes away; so a handler is split at its awaits,
and a crash is the end of all handlers, with what is in SQLite kept. A statement,
or a transaction that only writes, is one step: SQLite has one writer at a time and
hides what is not committed.

Operators whose comment begins with "Wrong:" are variants of the operator that
follows them, with a plausible mistake. They appear in no specification; they
record which mistake each property catches, and are paired with it in
`PROJECT.json`. Variables marked "(history)" are read by no action's guard.

**AtomicLedger** is what the repository promises: five operations, each taking
effect in one step judged against the ledger of that step, or having no effect
(`None` or `Err`). A call has an identity, used once; the call of `place_hold` names
the hold it makes, for the UUID that the code generates.

**CreditLedger** is how `credits.rs` does it, on the variables of `AtomicLedger` with
the version and the open transactions added. `begin` is `BEGIN DEFERRED` in WAL
mode, so the reads of a transaction see one snapshot: `ReadAdjust` and the like
remember the row in `txn`, or refuse. `CommitAdjust` and the like are everything
from `UPDATE ... WHERE version = ?` to the commit; `Conflict` is
`rows_affected() == 0`; `Abort` is any `?`, a drop, or a stop. SQLite would also
refuse to upgrade a stale snapshot: one of the errors of `Abort`, on which the model
does not rely. `place_hold` subtracts inside the `UPDATE`, the others write values
computed from the read; the model keeps the difference.

**ChatBilling** composes `AtomicLedger`, `ProviderPool`, the usage tables and the
balance cache. `pc` says at which await of `chat_completions` a request is:

| `pc` | code | next |
|---|---|---|
| `arrived` | rejections, look-up of each provider, `place_hold` | `Reject`, `LookUp`, `NoCandidate`, `Place`, `PlaceFails` |
| `trying` | the loop at line 139 | `CallUpstream`, or `Release` when no candidate is left |
| `waiting` | the upstream call, 156-161 | `UpstreamAnswers`, `UpstreamFails` |
| `disabling` | `set_status`, 178-182 | `Disable` (a failure is ignored) |
| `releasing` | `release_hold`, 189 | `Release` (may have no effect, ignored) |
| `settling` | `settle_hold`, 228-233 | `Settle`, `SettleFails` |
| `caching` | balance cache, 236-237 | `CacheBalance` |
| `recording` | `insert_and_aggregate`, 256-260 | `Record`, `RecordFails` |
| `metering` | `add_usage` and the threshold, 263-272 | `Meter`, `MeterFails` |
| `marking`, `notifying` | `mark_alert_sent`, 273; notifier, 276-295 | `Mark`, `Notify` |

`Drop` ends a request at any of them; a drop while a ledger call runs is that call's
commit and then `Drop`, or `Drop` alone. That ledger calls are single steps here is
no assumption: `CreditLedgerProofs!Refinement` proves it of the repository.

**CreditAdmin** adds `set_credits`, which reads the balance and adjusts by the
difference in another transaction, and what both handlers do after a committed
adjustment: `RecordAdjustment` inserts the audit record (`credits.rs:87`, `:153`), and
`RecordLost` is the insert that fails, which the handlers ignore, or the call that is
dropped before it. **Billing** is the arithmetic in i64; the
instance of `CreditAdmin` takes its estimates, costs and totals from it.

**CatalogTables** has one operation per SQL statement on models, providers and mappings,
with foreign keys enforced; **ModelCatalog** adds the handlers that read and then write,
and the chat request that reads the tables one query at a time and sorts its candidates
(`TriedBefore`: every order that a strategy may give). `trail` keeps of the audit log
the prices in those records that no record of a later call follows: one, or several when
calls on a model have overlapped. Only `ModelProviderRepo` (`model.rs`) is modelled:
`ModelProviderMappingRepo` (`provider.rs`) has no caller.

**TokenAuth** splits `authenticate` after the cache look-up, after the read of the row
and before the fill. **RateLimit** picks a backend as `connect` does and runs calls
of `incr_with_expire` on it: **MemoryWindow**, which locks a shard three times and has
a clock, or **RedisWindow**, two commands on a server that may fail between them;
**RateCounter** is the atomic counter that `backend.rs:29` describes.

**AdminSession** has the calls of `auth.rs` and the two reads of `auth_admin.rs`;
`branch` follows a refresh token back to the event that opened its line: a login, a
refresh that raced another with the same token, or a revocation that failed.
**ServiceAccount** has the table of services, the handlers on it, the exchange of a
secret for a JWT, and the clock that ends a JWT; **AdminAccess** puts the two ways in
beside each other, as `authenticate_admin` does.

**AuditSink** has callers, the bounded channel, the worker with its biased select, the
batches, the database, and the fallback file; with `Streaming` an entry that was
written is used for a new one, so that arrivals need never stop.
**TunController** has the toggle handler (status and open or close under two locks), the
Mutex that `close` holds across its await, the supervisor task with its back-off, the
child, and the configuration file they share.

## 3. What the runs check

| Run | Instance | Properties |
|---|---|---|
| `ledger` | 2 accounts, 5 calls, adjustments -1/+3, estimates 1/2, costs 0/2 | `TypeOK`, `NeverOversold`, `HeldIsSumOfHolds`, `BooksBalance`, `CurrentVersionMeansCurrentRead`, `HoldsCloseOnce`, `ImplementsAtomicLedger` |
| `chat` | 2 requests, 1 mapping, a deposit, a `set_credits`, amounts from `Billing` | `ChatTypeOK`, `ChargesReconcile` |
| `chat_liveness` | 2 requests, 2 mappings of a provider with quota 1, syncs, faults quota and caller, fairness | `HoldFollowsRequest`, `ReplyMatchesLedger`, `StuckOnlyAfterFailure`, `SilencedOnlyAfterNotice`, `EveryRequestEnds` |
| `token` | 2 tokens, 2 accounts, 2 requests, fairness | `AuthTypeOK`, `ActsForItsOwner`, `RevocationIsFinal`, `RevocationTakesHold` |
| `rate` | 4 calls, maximum 1, window of 2 ticks, clock to 3, either backend, fairness | `CountsOnlyTheWindow`, `AtMostMaxAdmitted`, `ImplementsRateCounter`, `EveryWindowEnds` |
| `audit` | 4 entries of 2 kinds, streaming, batches and channel of 2, fairness | `SinkTypeOK`, `BufferBounded`, `NothingLost`, `DrainsOnClose`, `WrittenUnlessStarved` |
| `tunnel` | 2 calls, 2 tasks, fairness | `TunTypeOK`, `InactiveMeansClosed`, `OneTunnelAtATime`, `StatusNamesTheTunnel`, `CloseReturns`, `TunnelIsRestarted` |
| `session` | 1 administrator, 3 access and 3 refresh tokens, 2 calls, 4 names of branches; 1 service, 2 secrets, 1 scope, 1 JWT of 2 ticks | `AccessTypeOK`, `RevocationIsImmediate`, `OneLivePair`, `AccessFadesOut` |
| `catalog` | 1 model with a mapping to each of 2 providers, 2 edits, 1 request | `CatalogTypeOK`, `TrailNamesThePrice`, `RouteIsUsable` |

What they say, beyond their comments in the modules:

* `ImplementsAtomicLedger`: each commit is one atomic call, every read, refusal and
  conflict a stutter or a `NoEffect`. `CurrentVersionMeansCurrentRead` is why: the
  version of the credits row vouches for the hold too, since whoever closes a hold
  bumps it.
* `ChargesReconcile` ties four tables together. What the transactions say beyond the deltas
  in the audit records, and those of the adjustments that have no record (yet, or ever), is
  the cost of the settled requests; and the usage summary falls short of that by the
  requests charged and not (yet, or ever) recorded. It does not say that every adjustment
  is recorded, for the code does not see to that; it says that each record there is names a
  delta that was applied.
* `SilencedOnlyAfterNotice`: a notice can be lost (with the request that was about to send
  it) or doubled, but a provider is not silent for no reason.
* `RevocationIsFinal` and `RevocationTakesHold`: once the row is revoked and neither
  an entry nor a fill in flight is left, the token is refused for good; and that state
  is reached. Only the cached entry and fills already under way are in between.
* `RouteIsUsable`: while the tables change under it, a route names enabled mappings of
  the asked model only, once each, best level first, with credentials that the provider
  had while active since the request asked.
* `CountsOnlyTheWindow`, `AtMostMaxAdmitted`: however calls overlap, the memory counter
  never counts an increment of an earlier window; and of the calls of a window that overlap
  no other it admits at most the maximum, since calls that overlap (and may be admitted
  beyond it) never take back what was counted of those. The Redis counter implements
  `RateCounter` whatever overlaps.
* `RevocationIsImmediate`: what decides is whether the token died before its row was read,
  or the administrator was disabled before theirs was; the two reads may have a logout, an
  expiry or a change of status before, between or after them.
* `OneLivePair`: a branch has one live refresh token. So a session has one for its login,
  one more for each refresh that raced another with the same token, and one more for each
  revocation that failed; what else overlaps, is dropped or fails, adds none, and a branch
  that came of a race or a failure does not split by itself.
* `AccessFadesOut`: what a service's row no longer grants is gone a lifetime of a JWT
  later, and the time that the exchange took which issued it, if the row changed meanwhile.
* `TrailNamesThePrice`: calls on a model may record in another order than they wrote, so
  the last record need not name the price. One of the records that no later call's
  follows does, when all calls have ended; and what `rate.update` calls the old price
  was on record, or about to be. A record that is lost suspends this until a later
  call's takes its place.
* `WrittenUnlessStarved`: an entry is written, or lost by a failure, in the end. The one
  exception is that from some time on the worker never finds the channel empty and yet
  receives no entry of that kind; a busy channel alone is none.
* `NothingLost`: an entry the channel took is in a row, in the file, or in memory, unless
  database and file both failed or the process stopped.
* `InactiveMeansClosed`, `OneTunnelAtATime`, `StatusNamesTheTunnel` each have two parts.
  Until a `close` is dropped at its await (`abandoned`), an inactive controller has no
  frpc, there is one at most, and it serves the id in the status. After that too, an
  frpc that should not be there was told to end: at most one was not, an inactive
  controller has none such, and a child that read the file written for another task did
  so only if one of the two tasks was told to end. `CloseReturns` says that a task that
  was told does end.

Bounds. Requests, calls of the ledger and entries each happen once (or, where a model is
cyclic, their number in flight is bounded), so most runs need no state constraint.
`Horizon` bounds the clock of `MemoryWindow`, and `Resets` the secrets of a service.
Five ledger calls are a hold, two racing attempts to close it, and an adjustment on
either side; estimates and costs are such that a settlement may cost less or more than
its hold, up to more than the account has. `Delta` of `chat` is -9..9, wider than any
difference `set_credits` can compute there. Two requests give every pairwise race in the
handler; a quota of 1 is crossed by each of them. Three refresh tokens are what two
racing refreshes need. Four names of branches are enough for every token to have one:
beside the two tokens there may be when a call opens a branch from which a token can
still come, only the other call has one. Four rate calls are two that run alone and two
that overlap each other before, between or after them, against a maximum of one; three
ticks begin a second window. Two constraints, both called `OneSideAtATime`, keep
independent halves from being multiplied: in `session` the two ways in share no table;
in `catalog` requests and the other two tables ask of a model only that it is there, so
either the calls that write prices run freely and there is no provider yet, or all the
rest does and the only calls of the first kind are deletions. Symmetry is over
interchangeable identities and only in runs whose liveness properties do not tell them
apart or that have none. `ledger`, `rate` and `audit` really stop (calls used up, clock
at its horizon, worker gone), so they do not check for deadlock.

Fairness, in each case weak unless said otherwise, and none for administrators,
clients or failures:

* a request's handler (`chat_liveness`): the upstream client has timeouts
  (`router-llm/src/client.rs:79`), SQLite a busy timeout, the pool an acquire timeout,
  and tokio polls every ready task. No step of a request can be disabled by others for
  ever, as a ledger call that cannot succeed can return with no effect. The write of the
  balance to the cache (`chat.rs:237`) returns because the cache in memory waits for
  nothing. With Redis that is an assumption on the server: it answers, or its connection
  breaks. `redis_backend.rs` asks for no response timeout, so a server that accepts a
  command and stays silent holds the request, and the code alone does not promise
  `EveryRequestEnds` then;
* `token`: a request moves, and entries expire (a TTL of ten minutes);
* `rate`: a call's second command is sent, and the server expires keys;
* `audit`: the worker works, and, strongly, its timer: the biased select looks at it only
  when nothing is to be received, and nothing promises that it is seen in between unless
  that happens again and again. `WrittenUnlessStarved` claims no more than that;
* `tunnel`: supervisor tasks, a child that reads its file, a `close` that waits (a killed
  child exits), and, strongly, that frpc can be started if it is tried again and again;
  `TunnelIsRestarted` needs that, `CloseReturns` does not.

### Where the code and its documents disagree

Each of these runs checks one property that a document or comment states, and TLC shows
a behaviour of the code that violates it.

| Run | Property | What happens |
|---|---|---|
| `stuck_hold` | `NothingHeldAfterReply` (design, line 763) | `settle_hold` returns `None`, the handler answers 500, and the estimate stays on hold |
| `timeout` | `TimeoutDisablesNoProvider` (`fallback.rs:79`) | a timeout disables the provider |
| `token_revoked` | `RevokedTokenRefused` (`token_cache.rs:51`) | a token is accepted from the cache after its revocation |

Others met while modelling, which no run is spent on:

* the charge and its record are two transactions (`chat.rs:228`, `:256`), where the design
  (line 229) has one; `ChargesReconcile` says what remains true;
* two requests may both notify (`chat.rs:270`), although line 276 says the flag prevents
  it; a late `mark_alert_sent` may set the flag after a sync reset it
  (`provider.rs:242`); raising `quota_limit` does not reset it either;
* the memory `incr_with_expire` is not atomic (`memory.rs:77`), and on Redis a failure
  between INCR and EXPIRE leaves a counter with no expiry (`redis_backend.rs:59`), where
  `backend.rs:29` promises an atomic increment with a window;
* `write_fallback` ignores every error (`sink.rs:173`), where line 121 says that nothing
  is lost; the timer may never be looked at while entries keep coming (`sink.rs:72`),
  where line 3 promises a flush each second;
* a `close` dropped while it waits leaves the controller inactive with frpc still up
  (`tun_controller.rs:87`), where its comment says that it waits for the exit;
* logout leaves the refresh token of the session live (`auth.rs:139`);
* after a reset of its secret, or when it is disabled, a service keeps the JWTs it has
  until they expire, where the design (line 688) has old credentials fail at once; and
  `update_service` with a whitelist alone clears the scopes (`services.rs:127`);
* the `to` of a `set_credits` audit record need not be the balance that results;
* a committed adjustment, price or model may have no audit record: the handlers insert it
  afterwards and ignore a failure (`credits.rs:87`, `models.rs:242`).

## 4. What is proved

TLAPS proves these for every value of the constants, finite or not, from the named
assumptions on them, which the runs evaluate. They say that values of one kind are not
mistaken for another, that bounds are naturals, and that estimates are positive and
costs not negative; `AmountsAreSound` proves the last two of the code's arithmetic.

* `CreditLedgerProofs` begins with the theory of sums that the books need: what
  `SumFunction` of the community modules is on a finite set of amounts, and how one
  amount more changes it (`SumOfOneMore`). The library's induction theorems cannot be
  instantiated, so the induction is on a smallest counterexample (`SmallestSet`).
  Of `AtomicLedger`: `LedgerSafe` (types, `NeverOversold`, `BooksBalance`,
  `HeldIsSumOfHolds`) and `LedgerClosesOnce`. The invariant keeps `balance >= 0` and the
  sum of holds; `held >= 0` follows, the amounts of holds being positive. Of
  `CreditLedger`: `TypeCorrect` and `VersionWitness` are one induction, since a commit's
  values are right only if what was read is still so. `Refinement` follows step by step;
  `RepositorySafe`, `BooksAlwaysBalance`, `HeldNeverDrifts` and `RepositoryClosesOnce`
  follow from it and the two theorems about `AtomicLedger`.
* `ChatBillingProofs`: the invariant is a conjunction over requests (`RequestInv`); a step
  of another request or of an administrator leaves a request's part alone
  (`OtherFrame`, `FrameKeeps`), its own step is treated action by action (`OwnStep`).
  `ChatTypeCorrect`, `ChatSafe`, `ChatAlertsSafe`, `ChatRefinesLedger`,
  `ChatNeverOversells` and `ChatClosesOnce` follow. With `set_credits`, whose differences
  may be any integer: `SetCreditsIsSafe`, and `BooksReconcile`, for which each account's
  records, adjustments without one, charges and usage are sums (`Reconciled`) over finite
  sets that a step leaves alone or moves one element into or between. That a settled
  request has a charge, an applied `set_credits` its plan, and a record the delta of a
  committed adjustment (`SettledPriced`, `AppliedRead`, `RowsAreTrue`) is what makes them
  sums of the right numbers.
  `AdminRefinesLedger` takes the ledger to allow any adjustment (`Delta = Int`), as the
  code does. `PriceFits`, `NeverOvercharged` and `AmountsAreSound` are about `Billing`, for
  every i64: a price fits its type, an answer costs no more than its tokens at their
  rates, and the clamps of `chat.rs` give positive holds and natural costs.
* `ModelCatalogProofs`: `CatalogInvariant`, `CatalogTypeCorrect`, `TrailIsTrue` and
  `RoutesAreUsable`. `TrailInv` says that the price of a model is in the trail or still
  to be recorded by a call that wrote it (`Accounted`), and that while there is a call
  which no record has met, what it read is so too, and if it has written, the last to
  write has not recorded (`Unmet`): its own record cannot hide that one. `RequestsInv`
  says of a request that what it has looked up and what it is to look up are mappings it
  was given, each with credentials that were good since it asked. Only finitely many
  mappings are ever stored, so the orderings of candidates (`SetToSeqs`) need no
  assumption of finiteness.
* `TokenAuthProofs`: types; `AcceptedActsForOwner` (the entry under a key is always of the
  owner of that token); `DeadTokensStayDead`, by which `Dead` is stable under every step.
* `AuditSinkProofs`: types, `NothingIsLost`, and `MemoryIsBounded`, whose invariant
  `Bounded` says when a batch is full and that it is then about to be flushed;
  `ExitsDrained`, from `ClosedInv`: what the worker drains is closed, received to the end,
  and each batch that is not empty has its turn.
* `TunControllerProofs`: `TunTypeCorrect`; `ControllerInvariant` (until a `close` is
  abandoned, a task that has not ended is the one in the state or the one that the holder
  of the Mutex waits for, and frpc runs only under such a task, on the file it wrote), and
  two more that hold after that as well: `EveryChildIsWatched` (frpc has a task, and that
  task was signalled or the controller still can) and `EveryChildIsNamed` (the file it read
  was its own, or one of the two tasks was signalled). `ClosedMeansClosed`,
  `NeverTwoTunnels` and `StatusIsTrue` follow from the three, each for both parts.
* `AdminSessionProofs`: the invariant joins `Wired` (what a call holds at each of its
  places), `Known` (rows refer to rows that are there and stay), `Refused` (a request
  with a dead token is still before the read that refuses it) and `Single` (a branch has
  one token and one call at most, and both only while the call has yet to revoke the
  token). A branch is handed on: from a token to the call that found it, and to the
  token that this call makes, which is why nobody else can come to have it.
  `DeadTokensRefused` and `SessionsDoNotFork` follow. Of the services,
  `WithdrawnAccessFades` follows from the invariant that what a row grants has not
  lapsed (`Granted`), and what the row that an exchange has read granted has lapsed no
  longer than the exchange waits (`Waiting`); `SessionsBeside` carries the theorems
  about sessions over to the two ways in together, and with it `AccessTypeCorrect`.
* `RateLimitProofs`: `RateTypeCorrect`; `OnlyTheWindowCounts` and `LoneCallsAreLimited`
  from an invariant that says calls read the clock no later than it is, that the entry
  counts its increments once each, and that the calls of a window that overlapped no
  other were given different answers, none above the count (`Sequential`);
  `RedisIsACounter`, the refinement of `RateCounter`; and `OneCallOwesTheExpiry`: a key
  without a time to live is owed its EXPIRE by the call whose increment made it, and
  that one alone.

Only model-checked is liveness, for fairness and ENABLED are outside the prover's reach:
`EveryRequestEnds`, `RevocationTakesHold`, `EveryWindowEnds`, `DrainsOnClose`,
`WrittenUnlessStarved`, `CloseReturns` and `TunnelIsRestarted`. What can be said without
fairness is proved as an action property for four of them: a number (or a set) that no
step raises and that the steps which fairness is about lower.

| Theorem | What goes down |
|---|---|
| `RequestsAdvance` | `StepsLeft` of a request, at most 4 for each mapping and 20 more: no failure of an upstream and nothing others do sets a request back |
| `RevokedTokensDieOut` | the requests that had read a row before it was revoked: none joins them, and an entry is written only by one that leaves them |
| `ClosedSinkEnds` | `WorkLeft` of the worker once the last handle is gone |
| `SignalledTasksEnd` | `StepsToEnd` of a task that was told to end, also if the call that told it was dropped |

`RequestsAdvance` assumes that a model has finitely many mappings.

## 5. Not modelled

* Policies and devices: tables that nothing enforces or reads yet. Reports: read-only
  queries. Start-up (except the choice of the cache backend), configuration, CLI:
  wiring and one-shot commands. Domain types: values of the other modules.
* `classify` is abstract: five kinds of fault, not which status or body is of which.
* Counting tokens of a text (a library): any number. Cryptography: an HMAC is a key, a
  password is right or not.
* `quota_limit` and `quota_threshold` are constants of `ProviderPool`; a raise of the
  limit after an alert is listed as a hazard without a property.
* The balance cache has a writer and no reader in the code, so nothing is said of what a
  stale balance would do. `reset_totp`, `revoke_all_access_tokens` and
  `TokenCache::revoke` have no caller.
* The two statements of `create_account` are not split: an account without a credits row
  is one that is not opened yet, on which every ledger call has no effect.
* The whitelist of a service, `expires_at` of an API token (always `None`), and streaming
  answers (refused by the code).
