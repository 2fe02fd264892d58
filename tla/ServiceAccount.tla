--------------------------- MODULE ServiceAccount ---------------------------
(***************************************************************************)
(* Service accounts and their JWTs: the table service_accounts, the        *)
(* handlers of handlers/admin/services.rs, POST /v1/admin/auth/token       *)
(* (service_token in handlers/admin/auth.rs), and the verification of a    *)
(* JWT (crates/auth/src/jwt.rs), which looks at no table: a token is good  *)
(* until it expires, whatever becomes of its service.                      *)
(*                                                                         *)
(* The address whitelist of a service, which nothing enforces, is left     *)
(* out, and so is the id of a JWT: Jwt is as many of the tokens issued as  *)
(* are watched.                                                            *)
(***************************************************************************)
EXTENDS Naturals

CONSTANTS
  Service,    \* service accounts
  Resets,     \* how often a secret is reset: the bound of the model
  Scope,      \* what a token may allow
  Jwt,        \* tokens that are watched
  Exchange,   \* calls of service_token
  Edit,       \* calls of update_service that write twice
  Lifetime,   \* SERVICE_JWT_TTL_SECS, in steps of the clock
  None        \* no row, no call, no token

Secret == 0 .. Resets     \* the secret that a service has after so many resets

Row == [secret : Secret, scopes : SUBSET Scope, active : BOOLEAN]

Token == [service : Service, secret : Secret, scopes : SUBSET Scope,
          left : 0 .. Lifetime, delay : 0 .. Lifetime + 1]

Reading == [service : Service, secret : Secret, row : Row, waited : 0 .. Lifetime + 1]

VARIABLES
  service,    \* service_accounts
  exchange,   \* the secret that a call presents, the row it has read, and
              \* how long ago that was (history)
  edit,       \* the service and the scopes that a call has still to write
  token,      \* the tokens, with the time that each has left, and how long
              \* ago its row was read if that had changed since (history)
  lapsed      \* how long the row of a service has not granted a scope for a
              \* secret, up to more than a lifetime (history)

ServiceInit ==
  /\ service  = [s \in Service |-> None]
  /\ exchange = [x \in Exchange |-> None]
  /\ edit     = [e \in Edit |-> None]
  /\ token    = [j \in Jwt |-> None]
  /\ lapsed   = [s \in Service |-> [r \in Secret \X Scope |-> Lifetime + 1]]

-----------------------------------------------------------------------------
(* The table.                                                              *)

Rights(row) == IF row # None /\ row.active THEN {row.secret} \X row.scopes ELSE {}

Fields(secret, scopes, active) == [secret |-> secret, scopes |-> scopes, active |-> active]

Write(s, row) ==
  /\ service' = [service EXCEPT ![s] = row]
  /\ lapsed'  = [lapsed EXCEPT ![s] = [r \in Secret \X Scope |->
                   IF r \in Rights(row) THEN 0 ELSE lapsed[s][r]]]

Insert(s, scopes) ==
  service[s] = None /\ Write(s, Fields(0, scopes, TRUE))

SetStatus(s, active) ==
  service[s] # None /\ Write(s, Fields(service[s].secret, service[s].scopes, active))

(* Each secret is a new one.                                               *)
ResetSecret(s) ==
  /\ service[s] # None /\ service[s].secret < Resets
  /\ Write(s, Fields(service[s].secret + 1, service[s].scopes, service[s].active))

(* Every field is written; the scopes that a call does not name are none.  *)
UpdateScopes(s, scopes) ==
  service[s] # None /\ Write(s, Fields(service[s].secret, scopes, service[s].active))

-----------------------------------------------------------------------------
(* The handlers of administrators.                                         *)

CreateService(s, scopes) == Insert(s, scopes) /\ UNCHANGED <<exchange, edit, token>>

(* delete_service, or update_service with a status alone.                  *)
Switch(s, active) == SetStatus(s, active) /\ UNCHANGED <<exchange, edit, token>>

(* update_service with scopes, or with a whitelist, alone.                 *)
Rescope(s, scopes) == UpdateScopes(s, scopes) /\ UNCHANGED <<exchange, edit, token>>

(* update_service with both: two statements, and what other calls do to    *)
(* the row comes between them.                                             *)
SwitchFirst(e, s, active, scopes) ==
  /\ edit[e] = None
  /\ SetStatus(s, active)
  /\ edit' = [edit EXCEPT ![e] = [service |-> s, scopes |-> scopes]]
  /\ UNCHANGED <<exchange, token>>

RescopeThen(e) ==
  /\ edit[e] # None
  /\ UpdateScopes(edit[e].service, edit[e].scopes)
  /\ edit' = [edit EXCEPT ![e] = None]
  /\ UNCHANGED <<exchange, token>>

(* The second statement fails, or the call is dropped before it.           *)
HalfDone(e) ==
  /\ edit[e] # None
  /\ edit' = [edit EXCEPT ![e] = None]
  /\ UNCHANGED <<service, exchange, token, lapsed>>

ResetServiceSecret(s) == ResetSecret(s) /\ UNCHANGED <<exchange, edit, token>>

-----------------------------------------------------------------------------
(* service_token: the row is read, and judged when the answer is there.    *)
(* The secret presented is or was one of the service: any other is refused *)
(* by the comparison.                                                      *)

FindAuth(x, s, k) ==
  /\ exchange[x] = None /\ service[s] # None /\ k <= service[s].secret
  /\ exchange' = [exchange EXCEPT ![x] =
                    [service |-> s, secret |-> k, row |-> service[s], waited |-> 0]]
  /\ UNCHANGED <<service, edit, token, lapsed>>

Forget(x) == exchange' = [exchange EXCEPT ![x] = None]

(* Wrong: the status of the service is not looked at.                      *)
PassesDisabled(row, k) == row.secret = k

Passes(row, k) == row.active /\ row.secret = k

Issue(x, j) ==
  /\ exchange[x] # None /\ token[j] = None
  /\ LET s == exchange[x].service
         row == exchange[x].row
     IN  /\ Passes(row, exchange[x].secret)
         /\ token' = [token EXCEPT ![j] =
              [service |-> s, secret |-> row.secret, scopes |-> row.scopes,
               left |-> Lifetime,
               delay |-> IF service[s] = row THEN 0 ELSE exchange[x].waited]]
  /\ Forget(x)
  /\ UNCHANGED <<service, edit, lapsed>>

(* Refused, dropped, or answered with a token that is not watched.         *)
Leave(x) ==
  /\ exchange[x] # None
  /\ Forget(x)
  /\ UNCHANGED <<service, edit, token, lapsed>>

(* The clock: a token is refused (by verify_service_jwt) once its time is  *)
(* over, in the second after the one it names.                             *)
Aged(t) == [service |-> t.service, secret |-> t.secret, scopes |-> t.scopes,
            left |-> t.left - 1, delay |-> t.delay]

(* Times longer than a lifetime are all the same.                          *)
OneMore(time) == IF time > Lifetime THEN time ELSE time + 1

Waits(call) == [service |-> call.service, secret |-> call.secret, row |-> call.row,
                waited |-> OneMore(call.waited)]

Tick ==
  /\ token' = [j \in Jwt |-> IF token[j] = None \/ token[j].left = 0 THEN None
                             ELSE Aged(token[j])]
  /\ lapsed' = [s \in Service |-> [r \in Secret \X Scope |->
                  IF r \in Rights(service[s]) THEN lapsed[s][r] ELSE OneMore(lapsed[s][r])]]
  /\ exchange' = [x \in Exchange |-> IF exchange[x] = None THEN None ELSE Waits(exchange[x])]
  /\ UNCHANGED <<service, edit>>

ServiceNext ==
  \/ \E s \in Service :
       \/ \E active \in BOOLEAN :
            \/ Switch(s, active)
            \/ \E e \in Edit, scopes \in SUBSET Scope : SwitchFirst(e, s, active, scopes)
       \/ \E scopes \in SUBSET Scope : CreateService(s, scopes) \/ Rescope(s, scopes)
       \/ ResetServiceSecret(s)
       \/ \E x \in Exchange, k \in Secret : FindAuth(x, s, k)
  \/ \E e \in Edit : RescopeThen(e) \/ HalfDone(e)
  \/ \E x \in Exchange : Leave(x) \/ \E j \in Jwt : Issue(x, j)
  \/ Tick

-----------------------------------------------------------------------------
ServiceTypeOK ==
  /\ service  \in [Service -> Row \cup {None}]
  /\ exchange \in [Exchange -> Reading \cup {None}]
  /\ edit     \in [Edit -> [service : Service, scopes : SUBSET Scope] \cup {None}]
  /\ token    \in [Jwt -> Token \cup {None}]
  /\ lapsed   \in [Service -> [Secret \X Scope -> 0 .. Lifetime + 1]]
=============================================================================
