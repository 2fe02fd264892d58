---------------------------- MODULE CatalogTables ----------------------------
(***************************************************************************)
(* The tables models, provider_credentials and model_providers, as the     *)
(* repositories crates/storage/src/repo/model.rs and provider.rs write     *)
(* them.  Every operation is one SQL statement; a false guard is the       *)
(* statement that is refused or that matches no row.  Foreign keys are     *)
(* enforced.  A mapping keeps its model and its provider, so these are     *)
(* constants of its id, and so is the name of a model: renames, and the    *)
(* status of a model, which no query looks at, are left out.  The id of a  *)
(* deleted row may be used again here, which fresh UUIDs do not do.        *)
(***************************************************************************)
EXTENDS Integers

CONSTANTS
  Model,        \* ids of logical models
  Provider,     \* ids of providers
  Mapping,      \* ids of rows of model_providers
  ModelOf,      \* logical_model_id of each mapping
  ProviderOf,   \* provider_id of each mapping
  Rate,         \* prices a model may have
  Key,          \* base_url and api_key a provider may have
  Setting,      \* level, weight, strategy and enabled of a mapping
  None          \* no row

Strategies == {"sequential", "random"}

ASSUME CatalogConstants ==
  /\ ModelOf \in [Mapping -> Model]
  /\ ProviderOf \in [Mapping -> Provider]
  /\ Setting \subseteq [level : Int, weight : Int, strategy : Strategies,
                        enabled : BOOLEAN]
  /\ None \notin Rate \cup Setting \cup [key : Key, active : BOOLEAN]

VARIABLES
  model,      \* price of each model
  provider,   \* credentials of each provider, and whether it is active
  mapping     \* setting of each mapping

tables == <<model, provider, mapping>>

TablesInit ==
  /\ model    = [m \in Model |-> None]
  /\ provider = [p \in Provider |-> None]
  /\ mapping  = [k \in Mapping |-> None]

MappingsOf(m) == {k \in Mapping : mapping[k] # None /\ ModelOf[k] = m}
MappingsTo(p) == {k \in Mapping : mapping[k] # None /\ ProviderOf[k] = p}

-----------------------------------------------------------------------------
(* models *)

InsertModel(m, rate) ==
  /\ model[m] = None
  /\ model' = [model EXCEPT ![m] = rate]
  /\ UNCHANGED <<provider, mapping>>

(* update and set_rates *)
WriteModel(m, rate) ==
  /\ model[m] # None
  /\ model' = [model EXCEPT ![m] = rate]
  /\ UNCHANGED <<provider, mapping>>

(* Wrong: the schema without REFERENCES models(id).                        *)
DeleteModelAnyway(m) ==
  /\ model[m] # None
  /\ model' = [model EXCEPT ![m] = None]
  /\ UNCHANGED <<provider, mapping>>

DeleteModel(m) ==
  /\ model[m] # None /\ MappingsOf(m) = {}
  /\ model' = [model EXCEPT ![m] = None]
  /\ UNCHANGED <<provider, mapping>>

-----------------------------------------------------------------------------
(* provider_credentials *)

IsActive(p) == provider[p] # None /\ provider[p].active

InsertProvider(p, key) ==
  /\ provider[p] = None
  /\ provider' = [provider EXCEPT ![p] = [key |-> key, active |-> TRUE]]
  /\ UNCHANGED <<model, mapping>>

(* The status stays as it is.                                              *)
UpdateProvider(p, key) ==
  /\ provider[p] # None
  /\ provider' = [provider EXCEPT ![p] = [key |-> key, active |-> provider[p].active]]
  /\ UNCHANGED <<model, mapping>>

SetStatus(p, active) ==
  /\ provider[p] # None
  /\ provider' = [provider EXCEPT ![p] = [key |-> provider[p].key, active |-> active]]
  /\ UNCHANGED <<model, mapping>>

DeleteProvider(p) ==
  /\ provider[p] # None /\ MappingsTo(p) = {}
  /\ provider' = [provider EXCEPT ![p] = None]
  /\ UNCHANGED <<model, mapping>>

-----------------------------------------------------------------------------
(* model_providers *)

InsertMapping(k, setting) ==
  /\ mapping[k] = None /\ model[ModelOf[k]] # None /\ provider[ProviderOf[k]] # None
  /\ mapping' = [mapping EXCEPT ![k] = setting]
  /\ UNCHANGED <<model, provider>>

UpdateMapping(k, setting) ==
  /\ mapping[k] # None
  /\ mapping' = [mapping EXCEPT ![k] = setting]
  /\ UNCHANGED <<model, provider>>

DeleteMapping(k) ==
  /\ mapping[k] # None
  /\ mapping' = [mapping EXCEPT ![k] = None]
  /\ UNCHANGED <<model, provider>>

(* WHERE logical_model_id = ? AND enabled = 1 ORDER BY level, weight: any  *)
(* sequence of the rows that is in this order.                             *)
Enabled(m) == {k \in MappingsOf(m) : mapping[k].enabled}

ListedBefore(k, l) ==
  \/ mapping[k].level < mapping[l].level
  \/ mapping[k].level = mapping[l].level /\ mapping[k].weight <= mapping[l].weight

-----------------------------------------------------------------------------
(* Every row has its type, and what it refers to is there.                 *)
TablesOK ==
  /\ model    \in [Model -> Rate \cup {None}]
  /\ provider \in [Provider -> [key : Key, active : BOOLEAN] \cup {None}]
  /\ mapping  \in [Mapping -> Setting \cup {None}]
  /\ \A k \in Mapping :
       mapping[k] # None => model[ModelOf[k]] # None /\ provider[ProviderOf[k]] # None
=============================================================================
