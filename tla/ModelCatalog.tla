----------------------------- MODULE ModelCatalog -----------------------------
(***************************************************************************)
(* Administrators edit models, providers and mappings                      *)
(* (crates/api/src/handlers/admin/models.rs and providers.rs) while chat   *)
(* requests read them to find their route (handlers/chat.rs, and           *)
(* crates/router-llm/src/selector.rs).  Neither side takes a snapshot: a   *)
(* handler that reads and writes, or that reads twice, does so in separate *)
(* statements with an await between them.                                  *)
(*                                                                         *)
(* Of the audit log only what it says of the price of a model is kept; the *)
(* records of the other handlers say who did what and nothing else.        *)
(***************************************************************************)
EXTENDS CatalogTables, SequencesExt

CONSTANTS
  Call,      \* calls of the handlers that write a price
  Request    \* chat requests

Unknown == "unknown"     \* the price in a record that was lost

Prices == Rate \cup {None, Unknown}
Doings == [model : Model, before : Prices, after : Prices, met : BOOLEAN]

ASSUME HandlerConstants ==
  {None, Unknown} \cap Rate = {} /\ None # Unknown /\ None \notin Doings

VARIABLES
  at,          \* where each call stands
  doing,       \* what it writes, and what it has read before
  trail,       \* prices of each model by the records about it that are not
               \* followed by one of a call that came later (history)
  place,       \* where each request stands
  asked,       \* the model it asks for
  row,         \* the settings it has read
  unseen,      \* mappings whose provider it has still to look up
  candidates,  \* mapping and credentials of those found active
  route,       \* the candidates in the order of RouteSelector
  offered,     \* credentials of providers active since it asked (history)
  disturbed    \* requests during which the tables have changed (history)

callVars    == <<at, doing, trail>>
requestVars == <<place, asked, row, unseen, candidates, route, offered, disturbed>>
vars        == <<tables, callVars, requestVars>>

CatalogInit ==
  /\ TablesInit
  /\ at         = [c \in Call |-> "idle"]
  /\ doing      = [c \in Call |-> None]
  /\ trail      = [m \in Model |-> {None}]
  /\ place      = [r \in Request |-> "idle"]
  /\ asked      = [r \in Request |-> None]
  /\ row        = [r \in Request |-> mapping]
  /\ unseen     = [r \in Request |-> <<>>]
  /\ candidates = [r \in Request |-> <<>>]
  /\ route      = [r \in Request |-> <<>>]
  /\ offered    = [r \in Request |-> {}]
  /\ disturbed  = {}

-----------------------------------------------------------------------------
(* The requests in flight notice each change of the tables (history).      *)

Offers(rows) ==
  {<<p, rows[p].key>> : p \in {q \in Provider : rows[q] # None /\ rows[q].active}}

Noticed ==
  /\ disturbed' = disturbed \cup {r \in Request : place[r] # "idle"}
  /\ offered' = [r \in Request |-> IF place[r] = "idle" THEN {}
                                   ELSE offered[r] \cup Offers(provider')]
  /\ UNCHANGED <<place, asked, row, unseen, candidates, route>>

-----------------------------------------------------------------------------
(* Handlers of models.  The statement that writes the price and the record *)
(* in audit_logs are two steps, so the records of two calls may come in    *)
(* the other order than the prices; a call is met by those that other      *)
(* calls on the model insert while it is in flight.                        *)

Busy(m) == {c \in Call : at[c] # "idle" /\ doing[c].model = m}

Doing(m, before, after, met) ==
  [model |-> m, before |-> before, after |-> after, met |-> met]

Begin(c, m, where, before, after) ==
  /\ at[c] = "idle"
  /\ at' = [at EXCEPT ![c] = where]
  /\ doing' = [doing EXCEPT ![c] = Doing(m, before, after, FALSE)]

CreateModel(c, m, rate) ==
  /\ InsertModel(m, rate) /\ Begin(c, m, "recording", Unknown, rate)
  /\ Noticed /\ UNCHANGED trail

UpdateModel(c, m, rate) ==
  /\ WriteModel(m, rate) /\ Begin(c, m, "recording", Unknown, rate)
  /\ Noticed /\ UNCHANGED trail

RemoveModel(c, m) ==
  /\ DeleteModel(m) /\ Begin(c, m, "recording", Unknown, None)
  /\ Noticed /\ UNCHANGED trail

(* set_rates: the price that the record will call the old one.             *)
ReadRates(c, m, rate) ==
  /\ model[m] # None
  /\ Begin(c, m, "writing", model[m], rate)
  /\ UNCHANGED <<tables, trail, requestVars>>

SetRates(c) ==
  /\ at[c] = "writing"
  /\ WriteModel(doing[c].model, doing[c].after)
  /\ at' = [at EXCEPT ![c] = "recording"]
  /\ Noticed /\ UNCHANGED <<doing, trail>>

(* A record takes the place of all that were there when its call began.    *)
Insert(c, price) ==
  LET m == doing[c].model
  IN  /\ at[c] = "recording"
      /\ at' = [at EXCEPT ![c] = "idle"]
      /\ trail' = [trail EXCEPT ![m] = IF doing[c].met THEN @ \cup {price} ELSE {price}]
      /\ doing' = [d \in Call |->
           IF d = c THEN None
           ELSE IF d \in Busy(m) THEN Doing(m, doing[d].before, doing[d].after, TRUE)
           ELSE doing[d]]
      /\ UNCHANGED <<tables, requestVars>>

(* Wrong: the record names the price that was read.                        *)
RecordBefore(c) == Insert(c, doing[c].before)

Record(c) == Insert(c, doing[c].after)

(* The call is dropped, or the record is refused, which is ignored.        *)
RecordLost(c) == Insert(c, Unknown)

(* Nothing has been written: the model is gone by now, the statement is    *)
(* refused, or the call is dropped.                                        *)
GiveUp(c) ==
  /\ at[c] = "writing"
  /\ at' = [at EXCEPT ![c] = "idle"]
  /\ doing' = [doing EXCEPT ![c] = None]
  /\ UNCHANGED <<tables, trail, requestVars>>

-----------------------------------------------------------------------------
(* Handlers of providers and mappings: one statement each.                 *)

Edited == Noticed /\ UNCHANGED callVars

CreateProvider(p, key) == InsertProvider(p, key) /\ Edited
EditProvider(p, key)   == UpdateProvider(p, key) /\ Edited
RemoveProvider(p)      == DeleteProvider(p) /\ Edited
EnableProvider(p)      == SetStatus(p, TRUE) /\ Edited

(* An administrator's call, or a chat request whose upstream call failed.  *)
DisableProvider(p)     == SetStatus(p, FALSE) /\ Edited

CreateMapping(k, setting) == InsertMapping(k, setting) /\ Edited
EditMapping(k, setting)   == UpdateMapping(k, setting) /\ Edited
RemoveMapping(k)          == DeleteMapping(k) /\ Edited

-----------------------------------------------------------------------------
(* A chat request.                                                         *)

Forget(r) ==
  /\ row'        = [row EXCEPT ![r] = [k \in Mapping |-> None]]
  /\ candidates' = [candidates EXCEPT ![r] = <<>>]

Idle(r) ==
  /\ place'      = [place EXCEPT ![r] = "idle"]
  /\ asked'      = [asked EXCEPT ![r] = None]
  /\ unseen'     = [unseen EXCEPT ![r] = <<>>]
  /\ Forget(r)
  /\ route'      = [route EXCEPT ![r] = <<>>]
  /\ offered'    = [offered EXCEPT ![r] = {}]
  /\ disturbed'  = disturbed \ {r}

(* get_by_name                                                             *)
Ask(r, m) ==
  /\ place[r] = "idle" /\ model[m] # None
  /\ place'   = [place EXCEPT ![r] = "listing"]
  /\ asked'   = [asked EXCEPT ![r] = m]
  /\ offered' = [offered EXCEPT ![r] = Offers(provider)]
  /\ UNCHANGED <<tables, callVars, row, unseen, candidates, route, disturbed>>

List(r) ==
  /\ place[r] = "listing"
  /\ \E s \in SetToSeqs(Enabled(asked[r])) :
       /\ IsSorted(s, ListedBefore)
       /\ unseen' = [unseen EXCEPT ![r] = s]
  /\ row'   = [row EXCEPT ![r] = [k \in Mapping |->
                 IF k \in Enabled(asked[r]) THEN mapping[k] ELSE None]]
  /\ place' = [place EXCEPT ![r] = "looking"]
  /\ UNCHANGED <<tables, callVars, asked, candidates, route, offered, disturbed>>

(* Wrong: the status of the provider is not looked at.                     *)
LookUpAny(r) ==
  /\ place[r] = "looking" /\ unseen[r] # <<>>
  /\ LET k == Head(unseen[r])
     IN  candidates' = IF provider[ProviderOf[k]] # None
                       THEN [candidates EXCEPT ![r] =
                               Append(@, <<k, provider[ProviderOf[k]].key>>)]
                       ELSE candidates
  /\ unseen' = [unseen EXCEPT ![r] = Tail(@)]
  /\ UNCHANGED <<tables, callVars, place, asked, row, route, offered, disturbed>>

LookUp(r) ==
  /\ place[r] = "looking" /\ unseen[r] # <<>>
  /\ LET k == Head(unseen[r])
     IN  candidates' = IF IsActive(ProviderOf[k])
                       THEN [candidates EXCEPT ![r] =
                               Append(@, <<k, provider[ProviderOf[k]].key>>)]
                       ELSE candidates
  /\ unseen' = [unseen EXCEPT ![r] = Tail(@)]
  /\ UNCHANGED <<tables, callVars, place, asked, row, route, offered, disturbed>>

(* RouteSelector: the strategy is that of the first candidate.  In turn,   *)
(* by level and then by falling weight; or at random, by level only: every *)
(* weight counts as at least one, so any order within a level may come.    *)
TriedBefore(r, k, l) ==
  LET strategy == row[r][candidates[r][1][1]].strategy
  IN  \/ row[r][k].level < row[r][l].level
      \/ /\ row[r][k].level = row[r][l].level
         /\ strategy = "random" \/ row[r][k].weight >= row[r][l].weight

(* The handler takes the credentials of a candidate from the first one it  *)
(* finds with the same provider.                                           *)
KeyOf(r, k) ==
  LET same == {i \in DOMAIN candidates[r] : ProviderOf[candidates[r][i][1]] = ProviderOf[k]}
  IN  candidates[r][CHOOSE i \in same : \A j \in same : i <= j][2]

Select(r) ==
  /\ place[r] = "looking" /\ unseen[r] = <<>> /\ candidates[r] # <<>>
  /\ \E s \in SetToSeqs({candidates[r][i][1] : i \in DOMAIN candidates[r]}) :
       /\ IsSorted(s, LAMBDA k, l : TriedBefore(r, k, l))
       /\ route' = [route EXCEPT ![r] = [i \in DOMAIN s |-> <<s[i], KeyOf(r, s[i])>>]]
  /\ Forget(r)
  /\ place' = [place EXCEPT ![r] = "routed"]
  /\ UNCHANGED <<tables, callVars, asked, unseen, offered, disturbed>>

(* Answered (for want of a route, too), or dropped.                        *)
Leave(r) == place[r] # "idle" /\ Idle(r) /\ UNCHANGED <<tables, callVars>>

CatalogNext ==
  \/ \E c \in Call :
       \/ \E m \in Model : \/ RemoveModel(c, m)
                           \/ \E rate \in Rate : \/ CreateModel(c, m, rate)
                                                 \/ UpdateModel(c, m, rate)
                                                 \/ ReadRates(c, m, rate)
       \/ SetRates(c) \/ Record(c) \/ RecordLost(c) \/ GiveUp(c)
  \/ \E p \in Provider :
       \/ \E key \in Key : CreateProvider(p, key) \/ EditProvider(p, key)
       \/ RemoveProvider(p) \/ EnableProvider(p) \/ DisableProvider(p)
  \/ \E k \in Mapping :
       \/ \E setting \in Setting : CreateMapping(k, setting) \/ EditMapping(k, setting)
       \/ RemoveMapping(k)
  \/ \E r \in Request :
       \/ \E m \in Model : Ask(r, m)
       \/ List(r) \/ LookUp(r) \/ Select(r) \/ Leave(r)

CatalogSpec == CatalogInit /\ [][CatalogNext]_vars

-----------------------------------------------------------------------------
CatalogTypeOK ==
  /\ TablesOK
  /\ at    \in [Call -> {"idle", "writing", "recording"}]
  /\ doing \in [Call -> Doings \cup {None}]
  /\ trail \in [Model -> SUBSET Prices]
  /\ place \in [Request -> {"idle", "listing", "looking", "routed"}]
  /\ asked \in [Request -> Model \cup {None}]
  /\ row   \in [Request -> [Mapping -> Setting \cup {None}]]
  /\ unseen \in [Request -> Seq(Mapping)]
  /\ candidates \in [Request -> Seq(Mapping \X Key)]
  /\ route      \in [Request -> Seq(Mapping \X Key)]
  /\ offered    \in [Request -> SUBSET (Provider \X Key)]
  /\ disturbed  \in SUBSET Request
  /\ \A c \in Call : at[c] = "idle" <=> doing[c] = None
  /\ \A r \in Request :
       /\ place[r] # "idle" => asked[r] \in Model
       /\ \A i \in DOMAIN unseen[r] : row[r][unseen[r][i]] # None

(* One of these calls has written the price and not recorded it yet.       *)
ToBeRecorded(price, calls) == \E c \in calls : at[c] = "recording" /\ doing[c].after = price

(* The audit log accounts for the price of a model, whatever calls overlap:*)
(* when all have ended, a record that no later call's record follows names *)
(* it (none, after model.delete).  And the price that rate.update calls    *)
(* the old one is named by such a record, or by a call that has still to   *)
(* record it, unless others came in while it was at work.  Nothing is said *)
(* after a lost record, until one of a later call takes its place.         *)
TrailNamesThePrice ==
  \A m \in Model : Unknown \notin trail[m] =>
    /\ Busy(m) = {} => model[m] \in trail[m]
    /\ \A c \in Busy(m) :
         LET price == doing[c].before
         IN  ~doing[c].met /\ price # Unknown =>
               price \in trail[m] \/ ToBeRecorded(price, Busy(m) \ {c})

(* The route names each mapping once, all of them of the model asked for,  *)
(* and calls each with credentials offered to the request.  If the tables  *)
(* did not change meanwhile, it holds every enabled mapping to an active   *)
(* provider, best level first.                                             *)
Usable(r) ==
  LET tried == {route[r][i][1] : i \in DOMAIN route[r]}
  IN  /\ \A i, j \in DOMAIN route[r] : route[r][i][1] = route[r][j][1] => i = j
      /\ \A i \in DOMAIN route[r] :
           /\ ModelOf[route[r][i][1]] = asked[r]
           /\ <<ProviderOf[route[r][i][1]], route[r][i][2]>> \in offered[r]
      /\ r \notin disturbed =>
           /\ tried = {k \in Enabled(asked[r]) : IsActive(ProviderOf[k])}
           /\ \A i, j \in DOMAIN route[r] :
                i < j => mapping[route[r][i][1]].level <= mapping[route[r][j][1]].level

(* However the tables change while a request reads them, its route is      *)
(* usable: no credential in it is older than the request, and none is that *)
(* of another provider or of one that was never active meanwhile; and no   *)
(* candidate is missed or tried too early if nothing changed.              *)
RouteIsUsable == \A r \in Request : place[r] = "routed" => Usable(r)
=============================================================================
