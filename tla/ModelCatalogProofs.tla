-------------------------- MODULE ModelCatalogProofs --------------------------
(***************************************************************************)
(* Proofs about ModelCatalog, for any sets of models, providers, mappings, *)
(* prices, calls and requests.                                             *)
(*                                                                         *)
(* The invariant of the handlers (TrailInv) and that of the requests       *)
(* (RequestsInv) share no variable but the tables.  The price of a model   *)
(* is in the trail, or still to be recorded by the call that wrote it; and *)
(* it is the latter while there is a call that has written and that no     *)
(* record has met.  A request that has seen no change of the tables has    *)
(* each enabled mapping in what it has looked up or in what it will.       *)
(***************************************************************************)
EXTENDS ModelCatalog, FiniteSetTheorems, WellFoundedInduction, TLAPS

-----------------------------------------------------------------------------
(* The invariant.                                                          *)

CallsInv ==
  /\ at    \in [Call -> {"idle", "writing", "recording"}]
  /\ doing \in [Call -> Doings \cup {None}]
  /\ trail \in [Model -> SUBSET Prices]
  /\ \A c \in Call : at[c] = "idle" <=> doing[c] = None
  /\ \A c \in Call : at[c] = "writing" => doing[c].after \in Rate

(* The price has a record, or a call that is to make it.                   *)
Accounted(m) ==
  Unknown \in trail[m] \/ model[m] \in trail[m] \/ ToBeRecorded(model[m], Busy(m))

(* A call during which no record has been made: if it has written, the     *)
(* last to write has not recorded.                                         *)
Unmet(c) ==
  LET m == doing[c].model
  IN  /\ at[c] = "recording" => ToBeRecorded(model[m], Busy(m))
      /\ Unknown \notin trail[m] /\ doing[c].before # Unknown =>
           doing[c].before \in trail[m] \/ ToBeRecorded(doing[c].before, Busy(m) \ {c})

TrailInv ==
  /\ \A m \in Model : Accounted(m)
  /\ \A c \in Call : at[c] # "idle" /\ ~doing[c].met => Unmet(c)

Rows   == Setting \cup {None}
Listed == {k \in Mapping : mapping[k] # None}

UnseenBy(r) == {unseen[r][i] : i \in DOMAIN unseen[r]}
FoundBy(r)  == {candidates[r][i][1] : i \in DOMAIN candidates[r]}

RequestsTyped ==
  /\ place \in [Request -> {"idle", "listing", "looking", "routed"}]
  /\ asked \in [Request -> Model \cup {None}]
  /\ row   \in [Request -> [Mapping -> Rows]]
  /\ unseen \in [Request -> Seq(Mapping)]
  /\ candidates \in [Request -> Seq(Mapping \X Key)]
  /\ route      \in [Request -> Seq(Mapping \X Key)]
  /\ offered    \in [Request -> SUBSET (Provider \X Key)]
  /\ disturbed  \in SUBSET Request

(* What is still to be looked up and what has been found.                  *)
Reading(r) ==
  /\ \A k \in Mapping : row[r][k] # None => ModelOf[k] = asked[r]
  /\ \A k \in UnseenBy(r) \cup FoundBy(r) : row[r][k] # None
  /\ \A i, j \in DOMAIN unseen[r] : unseen[r][i] = unseen[r][j] => i = j
  /\ \A i, j \in DOMAIN candidates[r] :
        candidates[r][i][1] = candidates[r][j][1] => i = j
  /\ UnseenBy(r) \cap FoundBy(r) = {}
  /\ \A i \in DOMAIN candidates[r] :
        <<ProviderOf[candidates[r][i][1]], candidates[r][i][2]>> \in offered[r]

(* Nothing is missed while the tables stay as they are.                    *)
ReadingAll(r) ==
  /\ \A k \in Enabled(asked[r]) : row[r][k] = mapping[k]
  /\ UnseenBy(r) \cup FoundBy(r) \subseteq Enabled(asked[r])
  /\ FoundBy(r) \subseteq {k \in Mapping : IsActive(ProviderOf[k])}
  /\ \A k \in Enabled(asked[r]) :
        IsActive(ProviderOf[k]) => k \in UnseenBy(r) \cup FoundBy(r)

RequestInv(r) ==
  /\ place[r] # "idle" => asked[r] \in Model /\ Offers(provider) \subseteq offered[r]
  /\ place[r] # "looking" => unseen[r] = <<>> /\ candidates[r] = <<>>
  /\ place[r] = "looking" => Reading(r) /\ (r \notin disturbed => ReadingAll(r))
  /\ place[r] = "routed" => Usable(r)

(* Only finitely many mappings are ever there.                             *)
StoreInv == TablesOK /\ IsFiniteSet(Listed)

RequestsInv == RequestsTyped /\ \A r \in Request : RequestInv(r)

CatalogInv == StoreInv /\ CallsInv /\ TrailInv /\ RequestsInv

LEMMA InvImpliesProperties ==
  CatalogInv => CatalogTypeOK /\ TrailNamesThePrice /\ RouteIsUsable
<1> SUFFICES ASSUME CatalogInv
             PROVE  CatalogTypeOK /\ TrailNamesThePrice /\ RouteIsUsable
  OBVIOUS
<1>1. CatalogTypeOK
  <2>1. ASSUME NEW r \in Request
        PROVE  /\ place[r] # "idle" => asked[r] \in Model
               /\ \A i \in DOMAIN unseen[r] : row[r][unseen[r][i]] # None
    BY DEF CatalogInv, RequestsInv, RequestInv, Reading, UnseenBy
  <2> QED
    BY <2>1 DEF CatalogTypeOK, CatalogInv, StoreInv, CallsInv, RequestsInv, RequestsTyped, Rows
<1>2. TrailNamesThePrice
  <2>1. ASSUME NEW m \in Model, Unknown \notin trail[m], Busy(m) = {}
        PROVE  model[m] \in trail[m]
    BY <2>1 DEF CatalogInv, TrailInv, Accounted, ToBeRecorded
  <2>2. ASSUME NEW m \in Model, Unknown \notin trail[m], NEW c \in Busy(m),
               ~doing[c].met, doing[c].before # Unknown
        PROVE  doing[c].before \in trail[m] \/ ToBeRecorded(doing[c].before, Busy(m) \ {c})
    <3>1. c \in Call /\ at[c] # "idle" /\ doing[c].model = m
      BY DEF Busy
    <3> QED
      BY <2>2, <3>1 DEF CatalogInv, TrailInv, Unmet
  <2> QED
    BY <2>1, <2>2 DEF TrailNamesThePrice
<1>3. RouteIsUsable
  BY DEF RouteIsUsable, CatalogInv, RequestsInv, RequestInv
<1> QED
  BY <1>1, <1>2, <1>3

LEMMA CatalogInitInv == CatalogInit => CatalogInv
<1> SUFFICES ASSUME CatalogInit
             PROVE  CatalogInv
  OBVIOUS
<1>1. StoreInv
  <2>1. Listed = {}
    BY DEF CatalogInit, TablesInit, Listed
  <2> QED
    BY <2>1, FS_EmptySet DEF CatalogInit, TablesInit, StoreInv, TablesOK
<1>2. CallsInv /\ TrailInv
  BY DEF CatalogInit, TablesInit, CallsInv, TrailInv, Accounted, Prices
<1>3. RequestsTyped
  BY DEF CatalogInit, TablesInit, RequestsTyped, Rows
<1>4. \A r \in Request : RequestInv(r)
  BY DEF CatalogInit, RequestInv
<1> QED
  BY <1>1, <1>2, <1>3, <1>4 DEF CatalogInv, RequestsInv

-----------------------------------------------------------------------------
(* The tables.                                                             *)

(* A row is told from the absence of a row.                                *)
LEMMA RowsAreRows ==
  /\ \A rate \in Rate : rate # None /\ rate # Unknown
  /\ \A setting \in Setting : setting # None /\ setting.level \in Int
  /\ \A key \in Key, active \in BOOLEAN : [key |-> key, active |-> active] # None
  /\ None # Unknown
<1>1. \A key \in Key, active \in BOOLEAN :
        [key |-> key, active |-> active] \in [key : Key, active : BOOLEAN]
  OBVIOUS
<1> QED
  BY <1>1, CatalogConstants, HandlerConstants

LEMMA ModelsStep ==
  ASSUME StoreInv, NEW m \in Model, NEW price \in Rate \cup {None},
         model' = [model EXCEPT ![m] = price], price = None => MappingsOf(m) = {},
         UNCHANGED <<provider, mapping>>
  PROVE  StoreInv'
<1>1. \A k \in Mapping : mapping[k] # None => model'[ModelOf[k]] # None
  BY CatalogConstants DEF StoreInv, TablesOK, MappingsOf
<1> QED
  BY <1>1 DEF StoreInv, TablesOK, Listed

LEMMA ProvidersStep ==
  ASSUME StoreInv, NEW p \in Provider,
         NEW credentials \in [key : Key, active : BOOLEAN] \cup {None},
         provider' = [provider EXCEPT ![p] = credentials],
         credentials = None => MappingsTo(p) = {},
         UNCHANGED <<model, mapping>>
  PROVE  StoreInv'
<1>1. \A k \in Mapping : mapping[k] # None => provider'[ProviderOf[k]] # None
  BY CatalogConstants DEF StoreInv, TablesOK, MappingsTo
<1> QED
  BY <1>1 DEF StoreInv, TablesOK, Listed

LEMMA MappingsStep ==
  ASSUME StoreInv, NEW k \in Mapping, NEW setting \in Rows,
         mapping' = [mapping EXCEPT ![k] = setting],
         setting # None => model[ModelOf[k]] # None /\ provider[ProviderOf[k]] # None,
         UNCHANGED <<model, provider>>
  PROVE  StoreInv'
<1>1. IsFiniteSet(Listed \cup {k})
  BY FS_AddElement DEF StoreInv
<1>2. Listed' \in SUBSET (Listed \cup {k})
  BY DEF Listed, StoreInv, TablesOK
<1>3. IsFiniteSet(Listed')
  BY <1>1, <1>2, FS_Subset
<1> QED
  BY <1>3 DEF StoreInv, TablesOK, Rows

LEMMA BusyCall ==
  ASSUME CallsInv, NEW c \in Call, at[c] # "idle"
  PROVE  /\ doing[c] \in Doings /\ doing[c] # None
         /\ doing[c].model \in Model /\ doing[c].before \in Prices
         /\ doing[c].after \in Prices /\ doing[c].met \in BOOLEAN
         /\ c \in Busy(doing[c].model)
BY DEF CallsInv, Busy, Doings

LEMMA StoreStep == StoreInv /\ CallsInv /\ [CatalogNext]_vars => StoreInv'
<1> SUFFICES ASSUME StoreInv, CallsInv, [CatalogNext]_vars
             PROVE  StoreInv'
  OBVIOUS
<1>1. CASE UNCHANGED tables
  BY <1>1 DEF tables, StoreInv, TablesOK, Listed
<1>2. ASSUME NEW c \in Call, NEW m \in Model, NEW rate \in Rate,
             CreateModel(c, m, rate) \/ UpdateModel(c, m, rate)
      PROVE  StoreInv'
  BY <1>2, ModelsStep, RowsAreRows DEF CreateModel, UpdateModel, InsertModel, WriteModel
<1>3. ASSUME NEW c \in Call, NEW m \in Model, RemoveModel(c, m)
      PROVE  StoreInv'
  BY <1>3, ModelsStep DEF RemoveModel, DeleteModel
<1>4. ASSUME NEW c \in Call, SetRates(c)
      PROVE  StoreInv'
  <2>1. doing[c].model \in Model /\ doing[c].after \in Rate
    BY <1>4, BusyCall DEF SetRates, CallsInv
  <2> QED
    BY <1>4, <2>1, ModelsStep, RowsAreRows DEF SetRates, WriteModel
<1>5. ASSUME NEW p \in Provider, NEW key \in Key,
             CreateProvider(p, key) \/ EditProvider(p, key)
      PROVE  StoreInv'
  BY <1>5, ProvidersStep, RowsAreRows
     DEF CreateProvider, EditProvider, InsertProvider, UpdateProvider, StoreInv, TablesOK
<1>6. ASSUME NEW p \in Provider,
             RemoveProvider(p) \/ EnableProvider(p) \/ DisableProvider(p)
      PROVE  StoreInv'
  BY <1>6, ProvidersStep, RowsAreRows
     DEF RemoveProvider, EnableProvider, DisableProvider, DeleteProvider, SetStatus,
         StoreInv, TablesOK
<1>7. ASSUME NEW k \in Mapping, NEW setting \in Setting,
             CreateMapping(k, setting) \/ EditMapping(k, setting)
      PROVE  StoreInv'
  BY <1>7, MappingsStep
     DEF CreateMapping, EditMapping, InsertMapping, UpdateMapping, StoreInv, TablesOK, Rows
<1>8. ASSUME NEW k \in Mapping, RemoveMapping(k)
      PROVE  StoreInv'
  BY <1>8, MappingsStep DEF RemoveMapping, DeleteMapping, Rows
<1>9. ASSUME NEW c \in Call,
             \/ \E m \in Model, rate \in Rate : ReadRates(c, m, rate)
             \/ Record(c) \/ RecordLost(c) \/ GiveUp(c)
      PROVE  UNCHANGED tables
  BY <1>9 DEF ReadRates, Record, RecordLost, Insert, GiveUp
<1>10. ASSUME NEW r \in Request,
              (\E m \in Model : Ask(r, m)) \/ List(r) \/ LookUp(r) \/ Select(r) \/ Leave(r)
       PROVE  UNCHANGED tables
  BY <1>10 DEF Ask, List, LookUp, Select, Leave
<1>11. CASE UNCHANGED vars
  BY <1>1, <1>11 DEF vars
<1> QED
  BY <1>1, <1>2, <1>3, <1>4, <1>5, <1>6, <1>7, <1>8, <1>9, <1>10, <1>11 DEF CatalogNext

-----------------------------------------------------------------------------
(* The price of a model and its trail.                                     *)

LEMMA DoingType ==
  ASSUME NEW m \in Model, NEW before \in Prices, NEW after \in Prices, NEW met \in BOOLEAN
  PROVE  /\ Doing(m, before, after, met) \in Doings /\ Doing(m, before, after, met) # None
         /\ Doing(m, before, after, met).model = m
         /\ Doing(m, before, after, met).before = before
         /\ Doing(m, before, after, met).after = after
         /\ Doing(m, before, after, met).met = met
<1>1. Doing(m, before, after, met) \in Doings
  BY DEF Doing, Doings
<1> QED
  BY <1>1, HandlerConstants, Zenon DEF Doing

(* What is accounted for stays so where nothing happens.                   *)
LEMMA ElsewhereKept ==
  ASSUME NEW n \in Model, model'[n] = model[n], trail'[n] = trail[n], Busy(n)' = Busy(n),
         \A d \in Busy(n) : at'[d] = at[d] /\ doing'[d] = doing[d]
  PROVE  /\ Accounted(n) => Accounted(n)'
         /\ \A d \in Busy(n) : Unmet(d) => Unmet(d)'
<1>1. ToBeRecorded(model[n], Busy(n)) => ToBeRecorded(model[n], Busy(n))'
  BY DEF ToBeRecorded
<1>2. Accounted(n) => Accounted(n)'
  BY <1>1 DEF Accounted
<1>3. ASSUME NEW d \in Busy(n), Unmet(d)
      PROVE  Unmet(d)'
  <2>1. doing'[d] = doing[d] /\ at'[d] = at[d] /\ doing[d].model = n
    BY DEF Busy
  <2>2. ToBeRecorded(doing[d].before, Busy(n) \ {d})
          => ToBeRecorded(doing[d].before, Busy(n) \ {d})'
    BY <2>1 DEF ToBeRecorded
  <2> QED
    BY <1>1, <1>3, <2>1, <2>2 DEF Unmet
<1> QED
  BY <1>2, <1>3

(* A call begins; the others are left alone.                               *)
LEMMA BeginStep ==
  ASSUME StoreInv, CallsInv, TrailInv, NEW c \in Call, NEW m \in Model,
         NEW where \in {"writing", "recording"}, NEW before \in Prices, NEW after \in Prices,
         Begin(c, m, where, before, after), UNCHANGED trail,
         \A n \in Model \ {m} : model'[n] = model[n],
         where = "writing" =>
           after \in Rate /\ before = model[m] /\ model'[m] = model[m],
         where = "recording" => before = Unknown /\ model'[m] = after
  PROVE  CallsInv' /\ TrailInv'
<1> DEFINE begun == Doing(m, before, after, FALSE)
<1>1. /\ at[c] = "idle" /\ at' = [at EXCEPT ![c] = where]
      /\ doing' = [doing EXCEPT ![c] = begun]
  BY DEF Begin
<1>2. /\ begun \in Doings /\ begun # None
      /\ begun.model = m /\ begun.before = before /\ begun.after = after /\ ~begun.met
  <2>1. begun \in Doings
    BY DEF Doing, Doings
  <2>2. begun # None
    BY <2>1, HandlerConstants
  <2>3. begun.model = m /\ begun.before = before /\ begun.after = after /\ begun.met = FALSE
    BY DEF Doing
  <2> QED
    BY <2>1, <2>2, <2>3
<1> HIDE DEF begun
<1>3. /\ at'[c] = where /\ doing'[c] = begun
      /\ \A d \in Call \ {c} : at'[d] = at[d] /\ doing'[d] = doing[d]
  BY <1>1 DEF CallsInv
<1>4. /\ c \notin Busy(m) /\ Busy(m)' = Busy(m) \cup {c}
      /\ \A n \in Model \ {m} : Busy(n)' = Busy(n)
  BY <1>1, <1>2, <1>3 DEF Busy
<1>5. CallsInv'
  BY <1>1, <1>2, <1>3 DEF CallsInv
<1>6. where = "recording" => ToBeRecorded(model[m], Busy(m))'
  BY <1>2, <1>3, <1>4 DEF ToBeRecorded
<1>7. where = "writing" /\ ToBeRecorded(model[m], Busy(m)) => ToBeRecorded(model[m], Busy(m))'
  BY <1>3, <1>4 DEF ToBeRecorded, Busy
<1>8. ASSUME NEW n \in Model \ {m}
       PROVE  (Accounted(n) => Accounted(n)') /\ \A d \in Busy(n) : Unmet(d) => Unmet(d)'
  <2>1. \A d \in Busy(n) : d \in Call \ {c}
    BY <1>1 DEF Busy
  <2> QED
    BY <1>3, <1>4, <2>1, ElsewhereKept
<1>9. ASSUME NEW n \in Model
      PROVE  Accounted(n)'
  <2>1. CASE n = m
    <3>1. Accounted(m)
      BY DEF TrailInv
    <3>2. CASE where = "recording"
      BY <1>6, <2>1, <3>2 DEF Accounted
    <3>3. CASE where = "writing"
      BY <1>7, <2>1, <3>1, <3>3 DEF Accounted
    <3> QED
      BY <3>2, <3>3
  <2>2. CASE n # m
    BY <1>8, <2>2 DEF TrailInv
  <2> QED
    BY <2>1, <2>2
<1>10. ASSUME NEW d \in Call, at'[d] # "idle", ~doing'[d].met
       PROVE  Unmet(d)'
  <2>1. CASE d = c
    <3>1. doing'[d].model = m /\ doing'[d].before = before /\ at'[d] = where
      BY <1>2, <1>3, <2>1
    <3>2. Busy(m)' \ {c} = Busy(m)
      BY <1>4
    <3>3. where = "writing" /\ Unknown \notin trail[m] =>
            before \in trail[m] \/ ToBeRecorded(before, Busy(m))
      BY DEF TrailInv, Accounted
    <3>4. ToBeRecorded(before, Busy(m)) => ToBeRecorded(before, Busy(m) \ {c})'
      BY <1>3, <3>2 DEF ToBeRecorded, Busy
    <3> QED
      BY <1>6, <2>1, <3>1, <3>3, <3>4 DEF Unmet
  <2>2. CASE d # c
    <3>1. at[d] # "idle" /\ doing'[d] = doing[d] /\ at'[d] = at[d] /\ Unmet(d)
      BY <1>3, <1>10, <2>2 DEF TrailInv
    <3>2. doing[d].model \in Model /\ d \in Busy(doing[d].model)
      BY <3>1, BusyCall
    <3>3. CASE doing[d].model # m
      BY <1>8, <3>1, <3>2, <3>3
    <3>4. CASE doing[d].model = m
      <4>1. at[d] = "recording" => ToBeRecorded(model[m], Busy(m))'
        BY <1>6, <1>7, <3>1, <3>4 DEF Unmet
      <4>2. ToBeRecorded(doing[d].before, Busy(m) \ {d})
              => ToBeRecorded(doing[d].before, Busy(m) \ {d})'
        BY <1>3, <1>4, <3>1 DEF ToBeRecorded, Busy
      <4> QED
        BY <3>1, <3>4, <4>1, <4>2 DEF Unmet
    <3> QED
      BY <3>3, <3>4
  <2> QED
    BY <2>1, <2>2
<1> QED
  BY <1>5, <1>9, <1>10 DEF TrailInv

(* A record is inserted, or lost; it meets the calls on its model.         *)
LEMMA InsertStep ==
  ASSUME CallsInv, TrailInv, NEW c \in Call, NEW price \in {doing[c].after, Unknown},
         Insert(c, price)
  PROVE  CallsInv' /\ TrailInv'
<1>0. PICK m \in Model : m = doing[c].model
  BY BusyCall DEF Insert
<1>1. /\ at[c] = "recording" /\ at' = [at EXCEPT ![c] = "idle"] /\ UNCHANGED model
      /\ trail' = [trail EXCEPT ![m] = IF doing[c].met THEN trail[m] \cup {price} ELSE {price}]
      /\ doing' = [d \in Call |-> doing'[d]]
      /\ doing'[c] = None
      /\ \A d \in Call \ {c} : d \notin Busy(m) => doing'[d] = doing[d]
      /\ \A d \in Busy(m) \ {c} : doing'[d] = Doing(m, doing[d].before, doing[d].after, TRUE)
  BY <1>0 DEF Insert, tables, Busy
<1>2. c \in Busy(m) /\ price \in Prices /\ doing[c].met \in BOOLEAN
  BY <1>0, <1>1, BusyCall DEF Prices
<1>3. at'[c] = "idle" /\ \A d \in Call \ {c} : at'[d] = at[d]
  BY <1>1 DEF CallsInv
<1>4. ASSUME NEW d \in Busy(m) \ {c}
      PROVE  /\ d \in Call /\ at[d] # "idle"
             /\ doing'[d] \in Doings /\ doing'[d] # None
             /\ doing'[d].model = m /\ doing'[d].before = doing[d].before
             /\ doing'[d].after = doing[d].after /\ doing'[d].met
  <2>1. d \in Call /\ at[d] # "idle"
    BY DEF Busy
  <2>2. doing[d].before \in Prices /\ doing[d].after \in Prices
    BY <2>1, BusyCall
  <2>3. ASSUME NEW met \in BOOLEAN, met = TRUE
        PROVE  /\ doing'[d] \in Doings /\ doing'[d] # None
               /\ doing'[d].model = m /\ doing'[d].before = doing[d].before
               /\ doing'[d].after = doing[d].after
    <3>1. doing'[d] = Doing(m, doing[d].before, doing[d].after, met)
      BY <1>1, <2>3
    <3> QED
      BY <2>2, <3>1, DoingType
  <2>4. doing'[d].met = TRUE
    <3>1. doing'[d] = Doing(m, doing[d].before, doing[d].after, TRUE)
      BY <1>1
    <3> QED
      BY <3>1 DEF Doing
  <2> QED
    BY <2>1, <2>3, <2>4
<1>5. Busy(m)' = Busy(m) \ {c} /\ \A n \in Model \ {m} : Busy(n)' = Busy(n)
  <2>1. \A d \in Busy(m) : d \in Call /\ doing[d].model = m
    BY DEF Busy
  <2> QED
    BY <1>1, <1>2, <1>3, <1>4, <2>1 DEF Busy
<1>6. CallsInv'
  <2>1. \A d \in Call : doing'[d] \in Doings \cup {None} /\ (at'[d] = "idle" <=> doing'[d] = None)
    BY <1>1, <1>3, <1>4 DEF CallsInv
  <2>2. \A d \in Call : at'[d] = "writing" => doing'[d].after \in Rate
    BY <1>1, <1>3, <1>4 DEF CallsInv
  <2>3. at' \in [Call -> {"idle", "writing", "recording"}]
    BY <1>1 DEF CallsInv
  <2>4. trail' \in [Model -> SUBSET Prices]
    BY <1>1, <1>2 DEF CallsInv
  <2> QED
    BY <1>1, <2>1, <2>2, <2>3, <2>4 DEF CallsInv
<1>7. /\ trail'[m] = IF doing[c].met THEN trail[m] \cup {price} ELSE {price}
      /\ \A n \in Model \ {m} : trail'[n] = trail[n]
  BY <1>1, <1>2 DEF CallsInv
<1>8. ToBeRecorded(model[m], Busy(m)) /\ doing[c].after # model[m]
        => ToBeRecorded(model[m], Busy(m))'
  BY <1>1, <1>3, <1>4, <1>5 DEF ToBeRecorded, Busy
<1>9. \A n \in Model \ {m} : \A d \in Busy(n) :
        d \in Call /\ d # c /\ d \notin Busy(m) /\ at'[d] = at[d] /\ doing'[d] = doing[d]
  BY <1>0, <1>1, <1>3 DEF Busy
<1>10. ASSUME NEW n \in Model \ {m}
       PROVE  (Accounted(n) => Accounted(n)') /\ \A d \in Busy(n) : Unmet(d) => Unmet(d)'
  BY <1>1, <1>5, <1>7, <1>9, ElsewhereKept
<1>11. Accounted(m)'
  <2>1. Accounted(m)
    BY DEF TrailInv
  <2>2. CASE price = Unknown \/ doing[c].after = model[m]
    <3>1. price = Unknown \/ price = model'[m]
      BY <1>1, <2>2
    <3>2. price \in trail'[m]
      BY <1>7
    <3> QED
      BY <3>1, <3>2 DEF Accounted
  <2>3. CASE price = doing[c].after /\ doing[c].after # model[m] /\ doing[c].met
    <3>1. trail[m] \subseteq trail'[m]
      BY <1>7, <2>3
    <3> QED
      BY <1>1, <1>8, <2>1, <2>3, <3>1 DEF Accounted
  <2>4. CASE price = doing[c].after /\ doing[c].after # model[m] /\ ~doing[c].met
    <3>1. ToBeRecorded(model[m], Busy(m))
      BY <1>0, <1>1, <2>4 DEF TrailInv, Unmet
    <3> QED
      BY <1>8, <2>4, <3>1 DEF Accounted
  <2> QED
    BY <2>2, <2>3, <2>4
<1>12. ASSUME NEW d \in Call, at'[d] # "idle", ~doing'[d].met
       PROVE  Unmet(d)'
  <2>1. d # c /\ d \notin Busy(m)
    BY <1>3, <1>4, <1>12
  <2>2. at[d] # "idle" /\ doing'[d] = doing[d] /\ Unmet(d)
    BY <1>1, <1>3, <1>12, <2>1 DEF TrailInv
  <2>3. doing[d].model \in Model \ {m} /\ d \in Busy(doing[d].model)
    BY <2>1, <2>2, BusyCall
  <2> QED
    BY <1>10, <2>2, <2>3
<1> QED
  BY <1>6, <1>10, <1>11, <1>12 DEF TrailInv

(* A call ends that has written nothing.                                   *)
LEMMA GiveUpStep ==
  ASSUME CallsInv, TrailInv, NEW c \in Call, GiveUp(c)
  PROVE  CallsInv' /\ TrailInv'
<1>1. /\ at[c] = "writing" /\ at'[c] = "idle" /\ doing'[c] = None /\ UNCHANGED <<model, trail>>
      /\ \A d \in Call \ {c} : at'[d] = at[d] /\ doing'[d] = doing[d]
  BY DEF GiveUp, CallsInv, tables
<1>2. CallsInv'
  BY <1>1 DEF CallsInv, GiveUp
<1>3. \A n \in Model : Busy(n)' = Busy(n) \ {c}
  BY <1>1 DEF Busy
<1>4. ASSUME NEW n \in Model
      PROVE  ToBeRecorded(model[n], Busy(n)) => ToBeRecorded(model[n], Busy(n))'
  BY <1>1, <1>3 DEF ToBeRecorded, Busy
<1>5. ASSUME NEW d \in Call, at'[d] # "idle", ~doing'[d].met
      PROVE  Unmet(d)'
  <2>1. at[d] # "idle" /\ at'[d] = at[d] /\ doing'[d] = doing[d] /\ Unmet(d)
        /\ doing[d].model \in Model
    BY <1>1, <1>5, BusyCall DEF TrailInv
  <2> DEFINE n == doing[d].model
  <2>2. ToBeRecorded(doing[d].before, Busy(n) \ {d})
          => ToBeRecorded(doing[d].before, Busy(n) \ {d})'
    BY <1>1, <1>3, <2>1 DEF ToBeRecorded, Busy
  <2>3. ToBeRecorded(model[n], Busy(n)) => ToBeRecorded(model[n], Busy(n))'
    BY <1>4, <2>1
  <2>4. model'[n] = model[n] /\ trail'[n] = trail[n]
    BY <1>1
  <2> QED
    BY <2>1, <2>2, <2>3, <2>4 DEF Unmet
<1> QED
  BY <1>1, <1>2, <1>4, <1>5 DEF TrailInv, Accounted

(* The price of set_rates is written; it is the call's own to record.      *)
LEMMA SetRatesStep ==
  ASSUME StoreInv, CallsInv, TrailInv, NEW c \in Call, SetRates(c)
  PROVE  CallsInv' /\ TrailInv'
<1>0. PICK m \in Model : m = doing[c].model
  BY BusyCall DEF SetRates
<1>1. /\ at[c] = "writing" /\ c \in Busy(m)
      /\ at' = [at EXCEPT ![c] = "recording"] /\ UNCHANGED <<doing, trail>>
      /\ model' = [model EXCEPT ![m] = doing[c].after]
  BY <1>0, BusyCall DEF SetRates, WriteModel
<1>2. at'[c] = "recording" /\ \A d \in Call \ {c} : at'[d] = at[d]
  BY <1>1 DEF CallsInv
<1>3. CallsInv'
  BY <1>1, <1>2 DEF CallsInv
<1>4. \A n \in Model : Busy(n)' = Busy(n)
  BY <1>1, <1>2 DEF Busy
<1>5. model'[m] = doing[c].after /\ \A n \in Model \ {m} : model'[n] = model[n]
  BY <1>1 DEF StoreInv, TablesOK
<1>6. ToBeRecorded(model[m], Busy(m))'
  BY <1>1, <1>2, <1>4, <1>5 DEF ToBeRecorded
<1>7. ASSUME NEW n \in Model \ {m}
      PROVE  Accounted(n)' /\ \A d \in Busy(n) : Unmet(d) => Unmet(d)'
  <2>1. c \notin Busy(n) /\ Busy(n) \subseteq Call
    BY <1>0 DEF Busy
  <2> QED
    BY <1>1, <1>2, <1>4, <1>5, <2>1, ElsewhereKept DEF TrailInv
<1>8. ASSUME NEW d \in Call, at'[d] # "idle", ~doing'[d].met
      PROVE  Unmet(d)'
  <2>1. at[d] # "idle" /\ doing'[d] = doing[d] /\ Unmet(d)
        /\ doing[d].model \in Model /\ d \in Busy(doing[d].model)
    BY <1>1, <1>2, <1>8, BusyCall DEF TrailInv
  <2>2. CASE doing[d].model = m
    <3>1. ToBeRecorded(doing[d].before, Busy(m) \ {d})
            => ToBeRecorded(doing[d].before, Busy(m) \ {d})'
      BY <1>1, <1>2, <1>4 DEF ToBeRecorded, Busy
    <3>2. Unknown \notin trail'[m] /\ doing'[d].before # Unknown =>
            doing'[d].before \in trail'[m] \/ ToBeRecorded(doing[d].before, Busy(m) \ {d})
      BY <1>1, <2>1, <2>2 DEF Unmet
    <3> QED
      BY <1>6, <2>1, <2>2, <3>1, <3>2 DEF Unmet
  <2>3. CASE doing[d].model # m
    BY <1>7, <2>1, <2>3
  <2> QED
    BY <2>2, <2>3
<1>9. Accounted(m)'
  BY <1>6 DEF Accounted
<1> QED
  BY <1>3, <1>7, <1>8, <1>9 DEF TrailInv

LEMMA TrailStep ==
  StoreInv /\ CallsInv /\ TrailInv /\ [CatalogNext]_vars => CallsInv' /\ TrailInv'
<1> SUFFICES ASSUME StoreInv, CallsInv, TrailInv, [CatalogNext]_vars
             PROVE  CallsInv' /\ TrailInv'
  OBVIOUS
<1>1. CASE UNCHANGED <<model, callVars>>
  <2>1. CallsInv'
    BY <1>1 DEF callVars, CallsInv
  <2>2. ASSUME NEW n \in Model
        PROVE  Accounted(n)' /\ \A d \in Busy(n) : Unmet(d) => Unmet(d)'
    <3>1. Busy(n)' = Busy(n)
      BY <1>1 DEF callVars, Busy
    <3> QED
      BY <1>1, <3>1, ElsewhereKept DEF callVars, TrailInv
  <2>3. \A d \in Call : at[d] # "idle" => doing[d].model \in Model /\ d \in Busy(doing[d].model)
    BY BusyCall
  <2> QED
    BY <1>1, <2>1, <2>2, <2>3 DEF callVars, TrailInv
<1>2. ASSUME NEW c \in Call, NEW m \in Model, NEW rate \in Rate,
             CreateModel(c, m, rate) \/ UpdateModel(c, m, rate)
      PROVE  CallsInv' /\ TrailInv'
  <2>1. /\ Begin(c, m, "recording", Unknown, rate) /\ UNCHANGED trail
        /\ model' = [model EXCEPT ![m] = rate]
    BY <1>2 DEF CreateModel, UpdateModel, InsertModel, WriteModel
  <2>2. model'[m] = rate /\ \A n \in Model \ {m} : model'[n] = model[n]
    BY <2>1 DEF StoreInv, TablesOK
  <2>3. rate \in Prices /\ Unknown \in Prices
    BY DEF Prices
  <2> QED
    BY <2>1, <2>2, <2>3, BeginStep
<1>3. ASSUME NEW c \in Call, NEW m \in Model, RemoveModel(c, m)
      PROVE  CallsInv' /\ TrailInv'
  <2>1. /\ Begin(c, m, "recording", Unknown, None) /\ UNCHANGED trail
        /\ model' = [model EXCEPT ![m] = None]
    BY <1>3 DEF RemoveModel, DeleteModel
  <2>2. model'[m] = None /\ \A n \in Model \ {m} : model'[n] = model[n]
    BY <2>1 DEF StoreInv, TablesOK
  <2>3. None \in Prices /\ Unknown \in Prices
    BY DEF Prices
  <2> QED
    BY <2>1, <2>2, <2>3, BeginStep
<1>4. ASSUME NEW c \in Call, NEW m \in Model, NEW rate \in Rate, ReadRates(c, m, rate)
      PROVE  CallsInv' /\ TrailInv'
  <2>1. /\ Begin(c, m, "writing", model[m], rate) /\ UNCHANGED trail /\ UNCHANGED model
    BY <1>4 DEF ReadRates, tables
  <2>2. rate \in Prices /\ model[m] \in Prices
    BY DEF Prices, StoreInv, TablesOK
  <2> QED
    BY <2>1, <2>2, BeginStep
<1>5. ASSUME NEW c \in Call, Record(c) \/ RecordLost(c) \/ GiveUp(c)
      PROVE  CallsInv' /\ TrailInv'
  BY <1>5, InsertStep, GiveUpStep DEF Record, RecordLost
<1>6. ASSUME NEW p \in Provider,
             \/ \E key \in Key : CreateProvider(p, key) \/ EditProvider(p, key)
             \/ RemoveProvider(p) \/ EnableProvider(p) \/ DisableProvider(p)
      PROVE  UNCHANGED <<model, callVars>>
  BY <1>6 DEF CreateProvider, EditProvider, RemoveProvider, EnableProvider, DisableProvider,
              InsertProvider, UpdateProvider, DeleteProvider, SetStatus, Edited
<1>7. ASSUME NEW k \in Mapping,
             \/ \E setting \in Setting : CreateMapping(k, setting) \/ EditMapping(k, setting)
             \/ RemoveMapping(k)
      PROVE  UNCHANGED <<model, callVars>>
  BY <1>7 DEF CreateMapping, EditMapping, RemoveMapping, InsertMapping, UpdateMapping,
              DeleteMapping, Edited
<1>8. ASSUME NEW r \in Request,
             (\E m \in Model : Ask(r, m)) \/ List(r) \/ LookUp(r) \/ Select(r) \/ Leave(r)
      PROVE  UNCHANGED <<model, callVars>>
  BY <1>8 DEF Ask, List, LookUp, Select, Leave, tables
<1>9. CASE UNCHANGED vars
  BY <1>1, <1>9 DEF vars, tables
<1> QED
  BY <1>1, <1>2, <1>3, <1>4, <1>5, <1>6, <1>7, <1>8, <1>9, SetRatesStep DEF CatalogNext

-----------------------------------------------------------------------------
(* Sequences.                                                              *)

(* Any sequence of the elements of a finite set has all of them, once.     *)
LEMMA OrderingsOf ==
  ASSUME NEW S, IsFiniteSet(S), NEW s \in SetToSeqs(S)
  PROVE  /\ s \in Seq(S)
         /\ {s[i] : i \in DOMAIN s} = S
         /\ \A i, j \in DOMAIN s : s[i] = s[j] => i = j
<1> DEFINE n == Cardinality(S)
<1>1. n \in Nat
  BY FS_CardinalityType
<1>2. s \in [1 .. n -> S] /\ \A i, j \in 1 .. n : s[i] = s[j] => i = j
  BY DEF SetToSeqs
<1>3. IsFiniteSet(1 .. n) /\ Cardinality(1 .. n) = n
  BY <1>1, FS_Interval
<1>4. s \in Injection(1 .. n, S)
  BY <1>2 DEF Injection, IsInjective
<1>5. s \in Surjection(1 .. n, S)
  BY <1>3, <1>4, FS_Injection
<1>6. \A x \in S : \E i \in 1 .. n : s[i] = x
  BY <1>5 DEF Surjection
<1>7. s \in Seq(S)
  BY <1>1, <1>2
<1> QED
  BY <1>2, <1>6, <1>7

LEMMA LeastOf ==
  ASSUME NEW T \in SUBSET Nat, T # {}
  PROVE  \E i \in T : \A j \in T : i <= j
<1>1. PICK i \in T : \A j \in T : ~ (<<j, i>> \in OpToRel(<, Nat))
  BY NatLessThanWellFounded, WFMin, Zenon
<1>2. \A j \in T : ~ (j < i)
  BY <1>1 DEF OpToRel
<1> QED
  BY <1>2

LEMMA TailOf ==
  ASSUME NEW M, NEW s \in Seq(M), s # <<>>
  PROVE  /\ Head(s) \in M /\ Head(s) = s[1] /\ 1 \in DOMAIN s
         /\ Tail(s) \in Seq(M)
         /\ \A i \in DOMAIN Tail(s) : i + 1 \in DOMAIN s /\ Tail(s)[i] = s[i + 1] /\ i \in Nat
         /\ \A i \in DOMAIN s : i = 1 \/ (i - 1 \in DOMAIN Tail(s) /\ Tail(s)[i - 1] = s[i])
OBVIOUS

LEMMA AppendOf ==
  ASSUME NEW M, NEW s \in Seq(M), NEW e \in M
  PROVE  /\ Append(s, e) \in Seq(M)
         /\ DOMAIN Append(s, e) = DOMAIN s \cup {Len(s) + 1}
         /\ Append(s, e)[Len(s) + 1] = e
         /\ \A i \in DOMAIN s : Append(s, e)[i] = s[i]
OBVIOUS

-----------------------------------------------------------------------------
(* Requests.                                                               *)

(* The invariant of a request reads the two tables and its own part.       *)
LEMMA RequestFrame ==
  ASSUME NEW r \in Request, RequestInv(r), UNCHANGED <<provider, mapping>>,
         place'[r] = place[r], asked'[r] = asked[r], row'[r] = row[r],
         unseen'[r] = unseen[r], candidates'[r] = candidates[r], route'[r] = route[r],
         offered'[r] = offered[r], r \in disturbed' <=> r \in disturbed
  PROVE  RequestInv(r)'
<1>1. Offers(provider)' = Offers(provider)
  BY DEF Offers
<1>2. UnseenBy(r)' = UnseenBy(r) /\ FoundBy(r)' = FoundBy(r)
  BY DEF UnseenBy, FoundBy
<1>3. /\ \A m : Enabled(m)' = Enabled(m)
      /\ \A p : IsActive(p)' = IsActive(p)
  BY DEF Enabled, MappingsOf, IsActive
<1>4. place[r] = "looking" => Reading(r)' /\ (r \notin disturbed => ReadingAll(r)')
  BY <1>2, <1>3 DEF RequestInv, Reading, ReadingAll
<1>5. place[r] = "routed" => Usable(r)'
  BY <1>3 DEF RequestInv, Usable
<1> QED
  BY <1>1, <1>4, <1>5 DEF RequestInv

(* A change of the tables only adds to what is offered, and nothing more   *)
(* is claimed of a request that it disturbs.                               *)
LEMMA NoticedStep ==
  ASSUME StoreInv', RequestsInv, Noticed
  PROVE  RequestsInv'
<1>1. Offers(provider)' \in SUBSET (Provider \X Key)
  BY DEF Offers, StoreInv, TablesOK
<1>2. RequestsTyped'
  BY <1>1 DEF Noticed, Offers, RequestsInv, RequestsTyped
<1>3. ASSUME NEW r \in Request
      PROVE  RequestInv(r)'
  <2>1. /\ place[r] # "idle" =>
             offered'[r] = offered[r] \cup Offers(provider)' /\ r \in disturbed'
        /\ UNCHANGED <<place, asked, row, unseen, candidates, route>>
    BY DEF Noticed, Offers
  <2>2. RequestInv(r)
    BY DEF RequestsInv
  <2>3. place[r] = "looking" => Reading(r)'
    BY <2>1, <2>2 DEF RequestInv, Reading, UnseenBy, FoundBy
  <2>4. place[r] = "routed" => Usable(r)'
    BY <2>1, <2>2 DEF RequestInv, Usable
  <2> QED
    BY <2>1, <2>2, <2>3, <2>4 DEF RequestInv
<1> QED
  BY <1>2, <1>3 DEF RequestsInv

LEMMA AskStep ==
  ASSUME StoreInv, RequestsInv, NEW r \in Request, NEW m \in Model, Ask(r, m)
  PROVE  RequestsTyped' /\ RequestInv(r)'
<1>1. /\ place'[r] = "listing" /\ asked'[r] = m /\ offered'[r] = Offers(provider)
      /\ unseen'[r] = <<>> /\ candidates'[r] = <<>> /\ provider' = provider
  BY DEF Ask, RequestsInv, RequestsTyped, RequestInv, tables
<1>2. Offers(provider) \in SUBSET (Provider \X Key)
  BY DEF Offers, StoreInv, TablesOK
<1>3. RequestsTyped'
  BY <1>2 DEF Ask, RequestsInv, RequestsTyped
<1>4. Offers(provider)' = Offers(provider)
  BY <1>1 DEF Offers
<1> QED
  BY <1>1, <1>3, <1>4 DEF RequestInv

LEMMA ListStep ==
  ASSUME StoreInv, RequestsInv, NEW r \in Request, List(r)
  PROVE  RequestsTyped' /\ RequestInv(r)'
<1> DEFINE m == asked[r]
<1>1. /\ place[r] = "listing" /\ m \in Model /\ Offers(provider) \subseteq offered[r]
      /\ candidates[r] = <<>>
  BY DEF List, RequestsInv, RequestInv
<1>2. IsFiniteSet(Enabled(m)) /\ Enabled(m) \subseteq Mapping
  <2>1. Enabled(m) \in SUBSET Listed
    BY DEF Enabled, MappingsOf, Listed
  <2> QED
    BY <2>1, FS_Subset DEF StoreInv, Listed
<1>3. PICK s \in SetToSeqs(Enabled(m)) : unseen' = [unseen EXCEPT ![r] = s]
  BY DEF List
<1>4. /\ s \in Seq(Mapping)
      /\ {s[i] : i \in DOMAIN s} = Enabled(m)
      /\ \A i, j \in DOMAIN s : s[i] = s[j] => i = j
  <2>1. s \in Seq(Enabled(m))
    BY <1>2, OrderingsOf
  <2> QED
    BY <1>2, <2>1, OrderingsOf
<1>5. /\ place' = [place EXCEPT ![r] = "looking"]
      /\ row' = [row EXCEPT ![r] = [k \in Mapping |->
                   IF k \in Enabled(m) THEN mapping[k] ELSE None]]
      /\ UNCHANGED <<provider, mapping, asked, candidates, route, offered, disturbed>>
  BY DEF List, tables
<1>6. RequestsTyped'
  BY <1>3, <1>4, <1>5 DEF StoreInv, TablesOK, Rows, RequestsInv, RequestsTyped
<1>7. /\ place'[r] = "looking" /\ unseen'[r] = s /\ candidates'[r] = <<>>
      /\ asked'[r] = m /\ offered'[r] = offered[r]
      /\ \A k \in Mapping : row'[r][k] = IF k \in Enabled(m) THEN mapping[k] ELSE None
  BY <1>1, <1>3, <1>5 DEF RequestsInv, RequestsTyped
<1>8. UnseenBy(r)' = Enabled(m) /\ FoundBy(r)' = {}
  BY <1>4, <1>7 DEF UnseenBy, FoundBy
<1>9. \A k \in Enabled(m) : k \in Mapping /\ mapping[k] # None /\ ModelOf[k] = m
  BY DEF Enabled, MappingsOf
<1>10. Reading(r)'
  BY <1>4, <1>7, <1>8, <1>9 DEF Reading
<1>11. Enabled(m)' = Enabled(m) /\ \A p : IsActive(p)' = IsActive(p)
  BY <1>5, <1>7 DEF Enabled, MappingsOf, IsActive
<1>12. ReadingAll(r)'
  BY <1>5, <1>7, <1>8, <1>9, <1>11 DEF ReadingAll
<1>13. Offers(provider)' = Offers(provider)
  BY <1>5 DEF Offers
<1> QED
  BY <1>1, <1>6, <1>7, <1>10, <1>12, <1>13 DEF RequestInv

LEMMA LookUpStep ==
  ASSUME StoreInv, RequestsInv, NEW r \in Request, LookUp(r)
  PROVE  RequestsTyped' /\ RequestInv(r)'
<1> DEFINE k == Head(unseen[r])
           p == ProviderOf[k]
           found == <<k, provider[p].key>>
<1>1. /\ place[r] = "looking" /\ unseen[r] \in Seq(Mapping) /\ unseen[r] # <<>>
      /\ candidates[r] \in Seq(Mapping \X Key)
      /\ asked[r] \in Model /\ Offers(provider) \subseteq offered[r]
      /\ Reading(r) /\ (r \notin disturbed => ReadingAll(r))
  BY DEF LookUp, RequestsInv, RequestsTyped, RequestInv
<1>2. /\ unseen' = [unseen EXCEPT ![r] = Tail(unseen[r])]
      /\ UNCHANGED <<provider, mapping, place, asked, row, route, offered, disturbed>>
  BY DEF LookUp, tables
<1>3. /\ k \in Mapping /\ p \in Provider /\ unseen'[r] \in Seq(Mapping)
      /\ unseen'[r] = Tail(unseen[r])
  BY <1>1, <1>2, TailOf, CatalogConstants DEF RequestsInv, RequestsTyped
<1>4. /\ k \in UnseenBy(r) /\ UnseenBy(r)' = UnseenBy(r) \ {k}
      /\ \A i, j \in DOMAIN unseen'[r] : unseen'[r][i] = unseen'[r][j] => i = j
  <2>1. \A i, j \in DOMAIN unseen[r] : unseen[r][i] = unseen[r][j] => i = j
    BY <1>1 DEF Reading
  <2>2. /\ k = unseen[r][1] /\ 1 \in DOMAIN unseen[r]
        /\ \A i \in DOMAIN unseen'[r] :
              i + 1 \in DOMAIN unseen[r] /\ unseen'[r][i] = unseen[r][i + 1] /\ i \in Nat \ {0}
        /\ \A i \in DOMAIN unseen[r] :
              i = 1 \/ (i - 1 \in DOMAIN unseen'[r] /\ unseen'[r][i - 1] = unseen[r][i])
    BY <1>1, <1>3, TailOf
  <2>3. \A i, j \in DOMAIN unseen'[r] : unseen'[r][i] = unseen'[r][j] => i = j
    BY <2>1, <2>2
  <2>4. \A i \in DOMAIN unseen'[r] : unseen'[r][i] # k /\ unseen'[r][i] \in UnseenBy(r)
    BY <2>1, <2>2 DEF UnseenBy
  <2>5. \A i \in DOMAIN unseen[r] : unseen[r][i] = k \/ unseen[r][i] \in UnseenBy(r)'
    BY <2>2 DEF UnseenBy
  <2> QED
    BY <2>2, <2>3, <2>4, <2>5 DEF UnseenBy
<1>5. /\ \A m : Enabled(m)' = Enabled(m)
      /\ \A q : IsActive(q)' = IsActive(q)
      /\ Offers(provider)' = Offers(provider)
      /\ place'[r] = "looking"
  BY <1>1, <1>2 DEF Enabled, MappingsOf, IsActive, Offers
<1>6. CASE ~IsActive(p)
  <2>1. candidates' = candidates
    BY <1>6 DEF LookUp
  <2>2. FoundBy(r)' = FoundBy(r)
    BY <2>1 DEF FoundBy
  <2>3. RequestsTyped'
    BY <1>2, <1>3, <2>1 DEF RequestsInv, RequestsTyped
  <2>4. Reading(r)'
    BY <1>1, <1>2, <1>4, <2>1, <2>2 DEF Reading
  <2>5. r \notin disturbed => ReadingAll(r)'
    BY <1>1, <1>2, <1>4, <1>5, <1>6, <2>2 DEF ReadingAll
  <2> QED
    BY <1>1, <1>2, <1>5, <2>3, <2>4, <2>5 DEF RequestInv
<1>7. CASE IsActive(p)
  <2>1. /\ provider[p] \in [key : Key, active : BOOLEAN] /\ found \in Mapping \X Key
        /\ <<p, provider[p].key>> \in offered[r]
    BY <1>1, <1>3, <1>7 DEF IsActive, StoreInv, TablesOK, Offers
  <2>2. candidates' = [candidates EXCEPT ![r] = Append(candidates[r], found)]
    BY <1>7 DEF LookUp
  <2>3. candidates'[r] = Append(candidates[r], found)
    BY <2>2 DEF RequestsInv, RequestsTyped
  <2> DEFINE n == Len(candidates[r]) + 1
  <2>4. /\ candidates'[r] \in Seq(Mapping \X Key)
        /\ DOMAIN candidates'[r] = DOMAIN candidates[r] \cup {n}
        /\ candidates'[r][n] = found
        /\ \A i \in DOMAIN candidates[r] : candidates'[r][i] = candidates[r][i]
    BY <1>1, <2>1, <2>3, AppendOf
  <2>5. candidates'[r][n][1] = k /\ candidates'[r][n][2] = provider[p].key
    BY <2>4
  <2>6. FoundBy(r)' = FoundBy(r) \cup {k}
    BY <2>4, <2>5 DEF FoundBy
  <2>7. RequestsTyped'
    BY <1>2, <1>3, <2>2, <2>4 DEF RequestsInv, RequestsTyped
  <2>8. Reading(r)'
    <3>1. /\ k \notin FoundBy(r)
          /\ \A i \in DOMAIN candidates[r] : candidates[r][i][1] \in FoundBy(r)
      BY <1>1, <1>4 DEF Reading, FoundBy
    <3>2. \A i, j \in DOMAIN candidates'[r] :
            candidates'[r][i][1] = candidates'[r][j][1] => i = j
      BY <1>1, <2>4, <2>5, <3>1 DEF Reading
    <3>3. \A i \in DOMAIN candidates'[r] :
            <<ProviderOf[candidates'[r][i][1]], candidates'[r][i][2]>> \in offered'[r]
      BY <1>1, <1>2, <2>1, <2>4, <2>5 DEF Reading
    <3> QED
      BY <1>1, <1>2, <1>4, <2>6, <3>1, <3>2, <3>3 DEF Reading
  <2>9. r \notin disturbed => ReadingAll(r)'
    BY <1>1, <1>2, <1>3, <1>4, <1>5, <1>7, <2>6 DEF ReadingAll
  <2> QED
    BY <1>1, <1>2, <1>5, <2>7, <2>8, <2>9 DEF RequestInv
<1> QED
  BY <1>6, <1>7

(* The credentials of a candidate are those that the first candidate with  *)
(* its provider came with.                                                 *)
LEMMA KeyOffered ==
  ASSUME NEW r \in Request, candidates[r] \in Seq(Mapping \X Key), Reading(r),
         NEW k \in FoundBy(r)
  PROVE  k \in Mapping /\ KeyOf(r, k) \in Key /\ <<ProviderOf[k], KeyOf(r, k)>> \in offered[r]
<1> DEFINE same == {i \in DOMAIN candidates[r] :
                      ProviderOf[candidates[r][i][1]] = ProviderOf[k]}
           first == CHOOSE i \in same : \A j \in same : i <= j
<1>1. PICK i \in DOMAIN candidates[r] : candidates[r][i][1] = k
  BY DEF FoundBy
<1>2. k \in Mapping
  BY <1>1
<1>3. same \in SUBSET Nat /\ same # {}
  BY <1>1
<1>4. first \in same
  BY <1>3, LeastOf
<1>5. /\ first \in DOMAIN candidates[r]
      /\ ProviderOf[candidates[r][first][1]] = ProviderOf[k]
      /\ KeyOf(r, k) = candidates[r][first][2]
  BY <1>4 DEF KeyOf
<1> HIDE DEF first, same
<1>6. candidates[r][first] \in Mapping \X Key
  BY <1>5
<1>7. <<ProviderOf[candidates[r][first][1]], candidates[r][first][2]>> \in offered[r]
  BY <1>5 DEF Reading
<1> QED
  BY <1>2, <1>5, <1>6, <1>7

LEMMA SelectStep ==
  ASSUME StoreInv, RequestsInv, NEW r \in Request, Select(r)
  PROVE  RequestsTyped' /\ RequestInv(r)'
<1>1. /\ place[r] = "looking" /\ unseen[r] = <<>> /\ candidates[r] \in Seq(Mapping \X Key)
      /\ asked[r] \in Model /\ Offers(provider) \subseteq offered[r]
      /\ Reading(r) /\ (r \notin disturbed => ReadingAll(r))
  BY DEF Select, RequestsInv, RequestsTyped, RequestInv
<1>2. /\ place' = [place EXCEPT ![r] = "routed"]
      /\ row' = [row EXCEPT ![r] = [k \in Mapping |-> None]]
      /\ candidates' = [candidates EXCEPT ![r] = <<>>]
      /\ UNCHANGED <<provider, mapping, asked, unseen, offered, disturbed>>
  BY DEF Select, Forget, tables
<1>3. PICK s \in SetToSeqs(FoundBy(r)) :
        /\ IsSorted(s, LAMBDA k, l : TriedBefore(r, k, l))
        /\ route' = [route EXCEPT ![r] = [i \in DOMAIN s |-> <<s[i], KeyOf(r, s[i])>>]]
  BY DEF Select, FoundBy
<1>4. IsFiniteSet(FoundBy(r))
  <2> DEFINE f == [i \in DOMAIN candidates[r] |-> candidates[r][i][1]]
  <2>1. IsFiniteSet(DOMAIN candidates[r])
    BY <1>1, FS_Interval
  <2>2. f \in Surjection(DOMAIN candidates[r], FoundBy(r))
    BY DEF FoundBy, Surjection
  <2> QED
    BY <2>1, <2>2, FS_Surjection
<1>5. /\ s \in Seq(FoundBy(r))
      /\ {s[i] : i \in DOMAIN s} = FoundBy(r)
      /\ \A i, j \in DOMAIN s : s[i] = s[j] => i = j
  BY <1>4, OrderingsOf
<1> DEFINE new == [i \in DOMAIN s |-> <<s[i], KeyOf(r, s[i])>>]
<1>6. \A i \in DOMAIN s :
        /\ s[i] \in FoundBy(r) /\ s[i] \in Mapping /\ KeyOf(r, s[i]) \in Key
        /\ <<ProviderOf[s[i]], KeyOf(r, s[i])>> \in offered[r]
  BY <1>1, <1>5, KeyOffered
<1>7. new \in Seq(Mapping \X Key) /\ route' = [route EXCEPT ![r] = new]
  <2>1. Len(s) \in Nat /\ DOMAIN s = 1 .. Len(s)
    BY <1>5
  <2>2. new \in [1 .. Len(s) -> Mapping \X Key]
    BY <1>6, <2>1
  <2>3. route' = [route EXCEPT ![r] = new]
    BY <1>3
  <2> HIDE DEF new
  <2> QED
    BY <2>1, <2>2, <2>3
<1>8. DOMAIN new = DOMAIN s
      /\ \A i \in DOMAIN new : new[i][1] = s[i] /\ new[i][2] = KeyOf(r, s[i])
  OBVIOUS
<1> HIDE DEF new
<1>9. RequestsTyped'
  BY <1>2, <1>7 DEF RequestsInv, RequestsTyped, Rows
<1>10. /\ place'[r] = "routed" /\ route'[r] = new /\ unseen'[r] = <<>>
       /\ candidates'[r] = <<>> /\ Offers(provider)' = Offers(provider)
  BY <1>1, <1>2, <1>7 DEF RequestsInv, RequestsTyped, Offers
<1>11. \A m : Enabled(m)' = Enabled(m) /\ \A p : IsActive(p)' = IsActive(p)
  BY <1>2 DEF Enabled, MappingsOf, IsActive
<1>12. \A i, j \in DOMAIN new : new[i][1] = new[j][1] => i = j
  BY <1>5, <1>8
<1>13. ASSUME NEW i \in DOMAIN new
       PROVE  /\ ModelOf[new[i][1]] = asked[r]
              /\ <<ProviderOf[new[i][1]], new[i][2]>> \in offered[r]
  BY <1>1, <1>6, <1>8 DEF Reading
<1>14. ASSUME r \notin disturbed
       PROVE  /\ {new[i][1] : i \in DOMAIN new} =
                    {k \in Enabled(asked[r]) : IsActive(ProviderOf[k])}
              /\ \A i, j \in DOMAIN new :
                   i < j => mapping[new[i][1]].level <= mapping[new[j][1]].level
  <2>1. {new[i][1] : i \in DOMAIN new} = FoundBy(r)
    BY <1>5, <1>8
  <2>2. UnseenBy(r) = {}
    BY <1>1 DEF UnseenBy
  <2>3. FoundBy(r) = {k \in Enabled(asked[r]) : IsActive(ProviderOf[k])}
    BY <1>1, <1>14, <2>2 DEF ReadingAll, Enabled, MappingsOf
  <2>4. ASSUME NEW i \in DOMAIN new, NEW j \in DOMAIN new, i < j
        PROVE  mapping[new[i][1]].level <= mapping[new[j][1]].level
    <3>1. TriedBefore(r, s[i], s[j])
      BY <1>3, <1>5, <1>8, <2>4 DEF IsSorted
    <3>2. s[i] \in Enabled(asked[r]) /\ s[j] \in Enabled(asked[r])
      BY <1>6, <1>8, <2>3
    <3>3. row[r][s[i]] = mapping[s[i]] /\ row[r][s[j]] = mapping[s[j]]
      BY <1>1, <1>14, <3>2 DEF ReadingAll
    <3>4. mapping[s[i]].level \in Int /\ mapping[s[j]].level \in Int
      BY <3>2, RowsAreRows DEF Enabled, MappingsOf, StoreInv, TablesOK
    <3>5. row[r][s[i]].level <= row[r][s[j]].level
      BY <3>1, <3>3, <3>4 DEF TriedBefore
    <3> QED
      BY <1>8, <3>3, <3>5
  <2> QED
    BY <2>1, <2>3, <2>4
<1>15. Usable(r)'
  BY <1>2, <1>10, <1>11, <1>12, <1>13, <1>14 DEF Usable
<1> QED
  BY <1>1, <1>2, <1>9, <1>10, <1>15 DEF RequestInv

LEMMA LeaveStep ==
  ASSUME RequestsInv, NEW r \in Request, Leave(r)
  PROVE  RequestsTyped' /\ RequestInv(r)'
<1>1. RequestsTyped'
  BY DEF Leave, Idle, Forget, RequestsInv, RequestsTyped, Rows
<1>2. place'[r] = "idle" /\ unseen'[r] = <<>> /\ candidates'[r] = <<>>
  BY DEF Leave, Idle, Forget, RequestsInv, RequestsTyped
<1> QED
  BY <1>1, <1>2 DEF RequestInv

(* A request's own step, and what it is to the others.                     *)
LEMMA RequestStep ==
  ASSUME StoreInv, RequestsInv, NEW r \in Request,
         (\E m \in Model : Ask(r, m)) \/ List(r) \/ LookUp(r) \/ Select(r) \/ Leave(r)
  PROVE  RequestsInv'
<1>1. RequestsTyped' /\ RequestInv(r)'
  BY AskStep, ListStep, LookUpStep, SelectStep, LeaveStep
<1>2. ASSUME NEW q \in Request, q # r
      PROVE  RequestInv(q)'
  <2>1. /\ UNCHANGED <<provider, mapping>>
        /\ place'[q] = place[q] /\ asked'[q] = asked[q] /\ row'[q] = row[q]
        /\ unseen'[q] = unseen[q] /\ candidates'[q] = candidates[q]
        /\ route'[q] = route[q] /\ offered'[q] = offered[q]
        /\ q \in disturbed' <=> q \in disturbed
    BY <1>2 DEF Ask, List, LookUp, Select, Leave, Idle, Forget, tables, RequestsInv, RequestsTyped
  <2> QED
    BY <2>1, RequestFrame DEF RequestsInv
<1> QED
  BY <1>1, <1>2 DEF RequestsInv

LEMMA RequestsStep ==
  StoreInv /\ StoreInv' /\ RequestsInv /\ [CatalogNext]_vars => RequestsInv'
<1> SUFFICES ASSUME StoreInv, StoreInv', RequestsInv, [CatalogNext]_vars
             PROVE  RequestsInv'
  OBVIOUS
<1>1. CASE Noticed
  BY <1>1, NoticedStep
<1>2. CASE UNCHANGED <<tables, requestVars>>
  BY <1>2, RequestFrame DEF tables, requestVars, RequestsInv, RequestsTyped
<1>3. ASSUME NEW c \in Call,
             \/ \E m \in Model, rate \in Rate : \/ CreateModel(c, m, rate)
                                               \/ UpdateModel(c, m, rate)
                                               \/ ReadRates(c, m, rate)
             \/ \E m \in Model : RemoveModel(c, m)
             \/ SetRates(c) \/ Record(c) \/ RecordLost(c) \/ GiveUp(c)
      PROVE  Noticed \/ UNCHANGED <<tables, requestVars>>
  BY <1>3 DEF CreateModel, UpdateModel, ReadRates, RemoveModel, SetRates, Record, RecordLost,
              Insert, GiveUp
<1>4. ASSUME NEW p \in Provider,
             \/ \E key \in Key : CreateProvider(p, key) \/ EditProvider(p, key)
             \/ RemoveProvider(p) \/ EnableProvider(p) \/ DisableProvider(p)
      PROVE  Noticed
  BY <1>4 DEF CreateProvider, EditProvider, RemoveProvider, EnableProvider, DisableProvider,
              Edited
<1>5. ASSUME NEW k \in Mapping,
             \/ \E setting \in Setting : CreateMapping(k, setting) \/ EditMapping(k, setting)
             \/ RemoveMapping(k)
      PROVE  Noticed
  BY <1>5 DEF CreateMapping, EditMapping, RemoveMapping, Edited
<1>6. CASE UNCHANGED vars
  BY <1>2, <1>6 DEF vars
<1> QED
  BY <1>1, <1>2, <1>3, <1>4, <1>5, <1>6, RequestStep DEF CatalogNext

-----------------------------------------------------------------------------
(* The theorems.                                                           *)

(* The invariant of the catalogue, its administrators and its readers.     *)
THEOREM CatalogInvariant == CatalogSpec => []CatalogInv
<1>1. CatalogInv /\ [CatalogNext]_vars => CatalogInv'
  BY StoreStep, TrailStep, RequestsStep DEF CatalogInv
<1> QED
  BY CatalogInitInv, <1>1, PTL DEF CatalogSpec

(* The tables, the calls in flight and the requests in flight keep their   *)
(* types; no mapping outlives its model or its provider.                   *)
THEOREM CatalogTypeCorrect == CatalogSpec => []CatalogTypeOK
BY CatalogInvariant, InvImpliesProperties, PTL

(* With any number of administrators and any overlap of their calls, the   *)
(* price of a model is named by a record about it that no later call's     *)
(* record follows, or a record was lost.                                   *)
THEOREM TrailIsTrue == CatalogSpec => []TrailNamesThePrice
BY CatalogInvariant, InvImpliesProperties, PTL

(* Whatever the administrators do while a request reads the tables one     *)
(* query at a time, its route is usable, for any number of mappings.       *)
THEOREM RoutesAreUsable == CatalogSpec => []RouteIsUsable
BY CatalogInvariant, InvImpliesProperties, PTL
=============================================================================
