----------------------------- MODULE TokenAuth -----------------------------
(***************************************************************************)
(* API tokens: the repositories of tokens and accounts, the handlers that  *)
(* issue and revoke tokens, and the authentication of a chat request,      *)
(* crates/api/src/middleware/auth_chat.rs, which looks in the cache first. *)
(*                                                                         *)
(* A request is split where other tasks may run: after the cache lookup,   *)
(* after the read of the token row, and before the entry is written to the *)
(* cache.  What it read stays in its local state meanwhile.                *)
(*                                                                         *)
(* A token stands for its HMAC: the hash is a function of the plaintext,   *)
(* so one key names the row and the cache entry.  expires_at is left out:  *)
(* the only caller of TokenRepo::create passes None (tokens.rs:123), so    *)
(* the test of auth_chat.rs:74-80 never fires.                             *)
(***************************************************************************)
CONSTANTS
  Token,      \* API tokens
  Account,    \* account ids
  Request,    \* requests in flight at one time
  None        \* no row, no cache entry

TokenRow  == [account : Account, status : {"active", "revoked"}]
TokenInfo == [account : Account, status : {"active"}]

ASSUME AuthConstants == None \notin TokenRow \cup Token

VARIABLES
  status,     \* accounts.status: None where there is no row
  token,      \* api_tokens
  cache,      \* token:<hash> entries
  at,         \* where each request stands
  bearer,     \* the token each request presents
  found,      \* the row each request has read
  late        \* requests whose token was revoked when they arrived

tables == <<status, token>>
local  == <<at, bearer, found, late>>
vars   == <<tables, cache, local>>

AuthInit ==
  /\ status = [a \in Account |-> None]
  /\ token  = [t \in Token |-> None]
  /\ cache  = [t \in Token |-> None]
  /\ at     = [r \in Request |-> "idle"]
  /\ bearer = [r \in Request |-> None]
  /\ found  = [r \in Request |-> None]
  /\ late   = {}

-----------------------------------------------------------------------------
(* Accounts.  A deletion is the status "disabled"; no row ever goes away.  *)

AccountExists(a) == status[a] # None

CreateAccount(a) ==
  /\ ~AccountExists(a)
  /\ status' = [status EXCEPT ![a] = "active"]
  /\ UNCHANGED <<token, cache, local>>

SetAccountStatus(a, s) ==
  /\ AccountExists(a)
  /\ status' = [status EXCEPT ![a] = s]
  /\ UNCHANGED <<token, cache, local>>

UpdateAccount(a) == \E s \in {"active", "disabled"} : SetAccountStatus(a, s)

DeleteAccount(a) == SetAccountStatus(a, "disabled")

-----------------------------------------------------------------------------
(* Tokens.                                                                 *)

FindByHash(t) == token[t]

ListByAccount(a) == {t \in Token : token[t] # None /\ token[t].account = a}

InsertToken(t, a) ==
  /\ token[t] = None
  /\ token' = [token EXCEPT ![t] = [account |-> a, status |-> "active"]]

(* Wrong: a revoked token is revoked back.                                 *)
RevokeToggles(t) ==
  /\ token[t] # None
  /\ token' = [token EXCEPT ![t].status = IF @ = "active" THEN "revoked" ELSE "active"]

Revoke(t) ==
  /\ token[t] # None
  /\ token' = [token EXCEPT ![t].status = "revoked"]

(* The account is looked up, whatever its status, and then the row is      *)
(* inserted; one step, for an account row that was found stays there.      *)
CreateToken(t, a) ==
  /\ AccountExists(a)
  /\ InsertToken(t, a)
  /\ UNCHANGED <<status, cache, local>>

(* Revocation by id knows no plaintext and leaves the cache alone.         *)
RevokeToken(t) == Revoke(t) /\ UNCHANGED <<status, cache, local>>

IsRevoked(t) == token[t] # None /\ token[t].status = "revoked"

-----------------------------------------------------------------------------
(* The cache.  An entry lives for ten minutes from its last write, which a *)
(* read does not prolong; it may go earlier when the backend restarts.     *)

Expire(t) ==
  /\ cache[t] # None
  /\ cache' = [cache EXCEPT ![t] = None]
  /\ UNCHANGED <<tables, local>>

CacheSet(t, info) == cache' = [cache EXCEPT ![t] = info]

-----------------------------------------------------------------------------
(* The authentication of a request.                                        *)

Arrive(r, t) ==
  /\ at[r] = "idle"
  /\ at'     = [at EXCEPT ![r] = "lookup"]
  /\ bearer' = [bearer EXCEPT ![r] = t]
  /\ late'   = IF IsRevoked(t) THEN late \cup {r} ELSE late
  /\ UNCHANGED <<tables, cache, found>>

(* The entry decides alone: the row is not read.                           *)
Hit(r) ==
  /\ at[r] = "lookup"
  /\ cache[bearer[r]] # None
  /\ at'    = [at EXCEPT ![r] = "accepted"]
  /\ found' = [found EXCEPT ![r] = cache[bearer[r]]]
  /\ UNCHANGED <<tables, cache, bearer, late>>

(* No entry, or a backend that answers with an error: go to the database.  *)
Miss(r) ==
  /\ at[r] = "lookup"
  /\ at' = [at EXCEPT ![r] = "read"]
  /\ UNCHANGED <<tables, cache, bearer, found, late>>

(* Wrong: only a revoked row is turned away.                               *)
PassesUnlessRevoked(t) == ~IsRevoked(t)

(* Wrong: any row will do.                                                 *)
PassesAnyRow(t) == FindByHash(t) # None

Passes(t) == FindByHash(t) # None /\ FindByHash(t).status = "active"

ReadRow(r) ==
  /\ at[r] = "read"
  /\ \/ /\ Passes(bearer[r])
        /\ found' = [found EXCEPT ![r] = FindByHash(bearer[r])]
        /\ at'    = [at EXCEPT ![r] = "fill"]
     \/ /\ ~Passes(bearer[r])
        /\ at' = [at EXCEPT ![r] = "refused"]
        /\ UNCHANGED found
  /\ UNCHANGED <<tables, cache, bearer, late>>

(* Wrong: the entry is written under the token of another request.         *)
FillOther(r) ==
  /\ at[r] = "fill"
  /\ at' = [at EXCEPT ![r] = "accepted"]
  /\ \E o \in Request :
        at[o] # "idle" /\ CacheSet(bearer[o], [account |-> found[r].account, status |-> "active"])
  /\ UNCHANGED <<tables, bearer, found, late>>

(* The entry is written from the row that was read; a failure to write it  *)
(* is ignored.                                                             *)
Fill(r) ==
  /\ at[r] = "fill"
  /\ at' = [at EXCEPT ![r] = "accepted"]
  /\ \/ CacheSet(bearer[r], [account |-> found[r].account, status |-> "active"])
     \/ UNCHANGED cache
  /\ UNCHANGED <<tables, bearer, found, late>>

(* A database error; the handler of an authenticated request then ends.    *)
ReadFails(r) ==
  /\ at[r] = "read"
  /\ at' = [at EXCEPT ![r] = "refused"]
  /\ UNCHANGED <<tables, cache, bearer, found, late>>

Leave(r) ==
  /\ at[r] \in {"accepted", "refused"}
  /\ at'     = [at EXCEPT ![r] = "idle"]
  /\ bearer' = [bearer EXCEPT ![r] = None]
  /\ found'  = [found EXCEPT ![r] = None]
  /\ late'   = late \ {r}
  /\ UNCHANGED <<tables, cache>>

Authenticate(r) == Hit(r) \/ Miss(r) \/ ReadRow(r) \/ ReadFails(r) \/ Fill(r) \/ Leave(r)

AuthNext ==
  \/ \E a \in Account : CreateAccount(a) \/ UpdateAccount(a) \/ DeleteAccount(a)
  \/ \E t \in Token : RevokeToken(t) \/ Expire(t) \/ \E a \in Account : CreateToken(t, a)
  \/ \E r \in Request : Authenticate(r) \/ \E t \in Token : Arrive(r, t)

AuthSpec == AuthInit /\ [][AuthNext]_vars

(* Every await of a request returns, and every entry expires: its expiry   *)
(* is set when it is written and no read moves it.                         *)
FairAuthSpec ==
  /\ AuthSpec
  /\ \A r \in Request : WF_vars(Authenticate(r))
  /\ \A t \in Token : WF_vars(Expire(t))

-----------------------------------------------------------------------------
AuthTypeOK ==
  /\ status \in [Account -> {None, "active", "disabled"}]
  /\ token  \in [Token -> TokenRow \cup {None}]
  /\ cache  \in [Token -> TokenInfo \cup {None}]
  /\ at     \in [Request -> {"idle", "lookup", "read", "fill", "accepted", "refused"}]
  /\ bearer \in [Request -> Token \cup {None}]
  /\ found  \in [Request -> TokenRow \cup {None}]
  /\ late   \subseteq Request
  /\ \A r \in Request : at[r] # "idle" => bearer[r] \in Token
  /\ \A r \in Request : at[r] \in {"fill", "accepted"} => found[r] # None

(* A cached entry names the account that the token was issued to, and an   *)
(* accepted request acts for that account: auth_chat.rs builds the         *)
(* principal from the entry alone, so a fill under the wrong key would     *)
(* charge one account for the requests of another.                         *)
ActsForItsOwner ==
  /\ \A t \in Token : cache[t] # None => t \in ListByAccount(cache[t].account)
  /\ \A r \in Request :
        at[r] \in {"fill", "accepted"} => bearer[r] \in ListByAccount(found[r].account)

(* A token is dead when it is revoked, no entry of it is cached, and no    *)
(* request that presents it has passed the lookup or the row.              *)
Dead(t) ==
  /\ IsRevoked(t)
  /\ cache[t] = None
  /\ \A r \in Request : bearer[r] = t => at[r] \notin {"fill", "accepted"}

(* Once dead, a token stays dead: the row is the only way back into the    *)
(* cache, and a revoked row lets no request in.                            *)
RevocationIsFinal == [][\A t \in Token : Dead(t) => Dead(t)']_vars

(* A revoked token is in the end refused for good.  Between the revocation *)
(* and that time it is served from entries written by requests that had    *)
(* read the row before, one of which may be written after the revocation.  *)
RevocationTakesHold == \A t \in Token : IsRevoked(t) ~> []Dead(t)

(* "Revocation: delete the cache entry, takes effect at once"              *)
(* (token_cache.rs:51): no request that arrives after the revocation is    *)
(* accepted.  The code does not keep this.                                 *)
RevokedTokenRefused == \A r \in late : at[r] # "accepted"
=============================================================================
