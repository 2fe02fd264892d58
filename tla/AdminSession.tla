---------------------------- MODULE AdminSession ----------------------------
(***************************************************************************)
(* Sessions of administrators: login, refresh and logout,                  *)
(* crates/api/src/handlers/admin/auth.rs, the repository below them, and   *)
(* the authentication of a request by session token, auth_admin.rs.        *)
(*                                                                         *)
(* Each statement is a transaction of its own and an await, so each is a   *)
(* step.  A handler may end at any of them: the database refuses it, or    *)
(* the client goes away and the future is dropped.                         *)
(*                                                                         *)
(* A token stands for its HMAC.                                            *)
(*                                                                         *)
(* A branch is what a refresh token hands on to the one that replaces it.  *)
(* A login opens one; so does a refresh that has found a token that        *)
(* another one is about to revoke, and one that has failed to revoke a     *)
(* token whose branch it shares.                                           *)
(***************************************************************************)
CONSTANTS
  Admin,        \* ids of administrators
  Access,       \* access tokens that may be generated
  Refresh,      \* refresh tokens that may be generated
  Call,         \* requests in flight at one time
  Branch,       \* names of branches
  None          \* no row, no token

(* live: neither revoked nor expired; both are refused alike.              *)
AccessTokenRecord == [admin : Admin, live : BOOLEAN]
RefreshRecord     == [admin : Admin, access : Access, live : BOOLEAN]

ASSUME SessionConstants ==
  /\ None \notin AccessTokenRecord \cup RefreshRecord \cup Admin \cup Access \cup Refresh
  /\ None \notin Branch
  /\ None \notin {"active", "disabled"}

VARIABLES
  admin,        \* status of each of admin_users: None where there is no row
  access,       \* admin_access_tokens
  refresh,      \* admin_refresh_tokens
  at,           \* where each call stands
  who,          \* the administrator each call acts for
  token,        \* the access token each call presents, or has made
  used,         \* the refresh token each call has been given
  branch,       \* branch of each live refresh token (history)
  grows,        \* branch of each call that refreshes or logs in (history)
  late,         \* calls whose token was dead before they read it (history)
  barred        \* calls with a token of an administrator who was disabled
                \* before they read that, and has been since (history)

rows    == <<admin, access, refresh>>
local   == <<at, who, token, used>>
history == <<branch, grows, late, barred>>
vars    == <<rows, local, history>>

SessionInit ==
  /\ admin   = [a \in Admin |-> None]
  /\ access  = [t \in Access |-> None]
  /\ refresh = [r \in Refresh |-> None]
  /\ at      = [c \in Call |-> "idle"]
  /\ who     = [c \in Call |-> None]
  /\ token   = [c \in Call |-> None]
  /\ used    = [c \in Call |-> None]
  /\ branch  = [r \in Refresh |-> None]
  /\ grows   = [c \in Call |-> None]
  /\ late    = {}
  /\ barred  = {}

GoTo(c, where) == at' = [at EXCEPT ![c] = where]

-----------------------------------------------------------------------------
(* Administrators.  The command line creates them; nothing calls           *)
(* set_status yet, so a status changes by hand.                            *)

CreateAdmin(a) ==
  /\ admin[a] = None
  /\ admin' = [admin EXCEPT ![a] = "active"]
  /\ UNCHANGED <<access, refresh, local, history>>

Active(a) == admin[a] = "active"

(* A token that no request can use again.                                  *)
Dead(t) == access[t] = None \/ ~access[t].live

(* Calls that have still to read the row of token t, and those that have   *)
(* still to read the row of administrator a, whose token they present.     *)
Unread(t)   == {c \in Call : at[c] = "find token" /\ token[c] = t}
Unjudged(a) == {c \in Call : /\ at[c] \in {"find token", "find admin"}
                             /\ access[token[c]].admin = a}

SetStatus(a, s) ==
  /\ admin[a] # None
  /\ admin' = [admin EXCEPT ![a] = s]
  /\ barred' = IF s = "disabled" THEN barred \cup Unjudged(a)
               ELSE {c \in barred : access[token[c]].admin # a}
  /\ UNCHANGED <<access, refresh, local, branch, grows, late>>

-----------------------------------------------------------------------------
(* The tokens.                                                             *)

CreateAccessToken(t, a) ==
  /\ access[t] = None
  /\ access' = [access EXCEPT ![t] = [admin |-> a, live |-> TRUE]]

DeadAccess(row)  == [admin |-> row.admin, live |-> FALSE]
DeadRefresh(row) == [admin |-> row.admin, access |-> row.access, live |-> FALSE]

RevokeAccessToken(t) ==
  access' = IF access[t] = None THEN access ELSE [access EXCEPT ![t] = DeadAccess(@)]

CreateRefreshToken(r, a, t) ==
  /\ refresh[r] = None
  /\ refresh' = [refresh EXCEPT ![r] = [admin |-> a, access |-> t, live |-> TRUE]]

(* Wrong: only the access token is revoked.                                *)
RevokeRefreshNever(r) == UNCHANGED refresh

RevokeRefreshToken(r) == refresh' = [refresh EXCEPT ![r] = DeadRefresh(@)]

ExpireAccess(t) ==
  /\ ~Dead(t)
  /\ access' = [access EXCEPT ![t] = DeadAccess(@)]
  /\ late'   = late \cup Unread(t)
  /\ UNCHANGED <<admin, refresh, local, branch, grows, barred>>

(* revoked || expires_at < now *)
Refreshes(r) == refresh[r] # None /\ refresh[r].live

(* A token that is no longer live leaves its branch.                       *)
Pruned == branch' = [r \in Refresh |-> IF Refreshes(r)' THEN branch[r] ELSE None]

ExpireRefresh(r) ==
  /\ Refreshes(r)
  /\ refresh' = [refresh EXCEPT ![r] = DeadRefresh(@)]
  /\ Pruned
  /\ UNCHANGED <<admin, access, local, grows, late, barred>>

-----------------------------------------------------------------------------
(* The branches.  A name may be used again when its branch has died; when  *)
(* there is none left, a branch has no name.                               *)

Named(b) == (\E r \in Refresh : branch[r] = b) \/ (\E c \in Call : grows[c] = b)

NewBranch ==
  IF \A b \in Branch : Named(b) THEN None ELSE CHOOSE b \in Branch : ~Named(b)

-----------------------------------------------------------------------------
(* Login: the administrator is found by phone, and status, password and    *)
(* TOTP code are looked at before anything else is awaited.  The time of   *)
(* the login is then noted, whether that succeeds or not.                  *)

Login(c, a) ==
  /\ at[c] = "idle" /\ Active(a)
  /\ who'   = [who EXCEPT ![c] = a]
  /\ grows' = [grows EXCEPT ![c] = NewBranch]
  /\ GoTo(c, "create access")
  /\ UNCHANGED <<rows, token, used, branch, late, barred>>

-----------------------------------------------------------------------------
(* Refresh.                                                                *)

RacedBy(c, r) == \E d \in Call \ {c} : at[d] = "revoke refresh" /\ used[d] = r

(* Wrong: the administrator of the row is not kept.                        *)
FindRefreshOnly(c, r) ==
  /\ at[c] = "idle" /\ Refreshes(r)
  /\ used'  = [used EXCEPT ![c] = r]
  /\ grows' = [grows EXCEPT ![c] = IF RacedBy(c, r) THEN NewBranch ELSE branch[r]]
  /\ GoTo(c, "revoke refresh")
  /\ UNCHANGED <<rows, who, token, branch, late, barred>>

FindRefreshToken(c, r) ==
  /\ at[c] = "idle" /\ Refreshes(r)
  /\ who'   = [who EXCEPT ![c] = refresh[r].admin]
  /\ used'  = [used EXCEPT ![c] = r]
  /\ grows' = [grows EXCEPT ![c] = IF RacedBy(c, r) THEN NewBranch ELSE branch[r]]
  /\ GoTo(c, "revoke refresh")
  /\ UNCHANGED <<rows, token, branch, late, barred>>

(* An error is ignored, and the refresh goes on.                           *)
RevokeOldRefresh(c) ==
  /\ at[c] = "revoke refresh"
  /\ \/ RevokeRefreshToken(used[c]) /\ UNCHANGED grows
     \/ /\ UNCHANGED refresh
        /\ grows' = IF branch[used[c]] = grows[c] THEN [grows EXCEPT ![c] = NewBranch]
                    ELSE grows
  /\ Pruned
  /\ GoTo(c, "revoke access")
  /\ UNCHANGED <<admin, access, who, token, used, late, barred>>

(* The access token recorded with the refresh token; again, an error is    *)
(* ignored.                                                                *)
RevokeOldAccess(c) ==
  /\ at[c] = "revoke access"
  /\ LET t == refresh[used[c]].access
     IN  \/ RevokeAccessToken(t) /\ late' = late \cup Unread(t)
         \/ UNCHANGED <<access, late>>
  /\ GoTo(c, "create access")
  /\ UNCHANGED <<admin, refresh, who, token, used, branch, grows, barred>>

(* The new pair, of a login or a refresh.  The status of the administrator *)
(* is not looked at again.                                                 *)
CreateAccess(c) ==
  /\ at[c] = "create access"
  /\ \E t \in Access :
       /\ CreateAccessToken(t, who[c])
       /\ token' = [token EXCEPT ![c] = t]
  /\ GoTo(c, "create refresh")
  /\ UNCHANGED <<admin, refresh, who, used, history>>

Idle(c) ==
  /\ GoTo(c, "idle")
  /\ who'   = [who EXCEPT ![c] = None]
  /\ token' = [token EXCEPT ![c] = None]
  /\ used'  = [used EXCEPT ![c] = None]
  /\ grows' = [grows EXCEPT ![c] = None]
  /\ late'  = late \ {c}
  /\ barred' = barred \ {c}

CreateRefresh(c) ==
  /\ at[c] = "create refresh"
  /\ \E r \in Refresh :
       /\ CreateRefreshToken(r, who[c], token[c])
       /\ branch' = [branch EXCEPT ![r] = grows[c]]
  /\ Idle(c)
  /\ UNCHANGED <<admin, access>>

-----------------------------------------------------------------------------
(* Logout: the presented access token is revoked, and no refresh token.    *)
(* The answer is "ok" even if the statement fails.                         *)
Logout(t) ==
  /\ RevokeAccessToken(t)
  /\ late' = late \cup Unread(t)
  /\ UNCHANGED <<admin, refresh, local, branch, grows, barred>>

-----------------------------------------------------------------------------
(* A request with a session token; one that was never made names no row    *)
(* and is refused.                                                         *)

Present(c, t) ==
  /\ at[c] = "idle" /\ access[t] # None
  /\ token' = [token EXCEPT ![c] = t]
  /\ late'   = IF Dead(t) THEN late \cup {c} ELSE late
  /\ barred' = IF Active(access[t].admin) THEN barred ELSE barred \cup {c}
  /\ GoTo(c, "find token")
  /\ UNCHANGED <<rows, who, used, branch, grows>>

(* Wrong: it is enough that the row is there.                              *)
FindAccessAny(c) ==
  /\ at[c] = "find token" /\ access[token[c]] # None
  /\ who' = [who EXCEPT ![c] = access[token[c]].admin]
  /\ GoTo(c, "find admin")
  /\ UNCHANGED <<rows, token, used, history>>

FindAccessToken(c) ==
  /\ at[c] = "find token" /\ ~Dead(token[c])
  /\ who' = [who EXCEPT ![c] = access[token[c]].admin]
  /\ GoTo(c, "find admin")
  /\ UNCHANGED <<rows, token, used, history>>

FindAdmin(c) ==
  /\ at[c] = "find admin" /\ Active(who[c])
  /\ GoTo(c, "accepted")
  /\ UNCHANGED <<rows, who, token, used, history>>

(* A call ends: it is answered, refused, refused by the database, or       *)
(* dropped.  What it has written stays.                                    *)
End(c) ==
  /\ at[c] # "idle"
  /\ Idle(c)
  /\ UNCHANGED <<rows, branch>>

Step(c) ==
  \/ RevokeOldRefresh(c) \/ RevokeOldAccess(c) \/ CreateAccess(c) \/ CreateRefresh(c)
  \/ FindAccessToken(c) \/ FindAdmin(c) \/ End(c)

SessionNext ==
  \/ \E a \in Admin : CreateAdmin(a) \/ \E s \in {"active", "disabled"} : SetStatus(a, s)
  \/ \E t \in Access : ExpireAccess(t) \/ Logout(t)
  \/ \E r \in Refresh : ExpireRefresh(r)
  \/ \E c \in Call : \/ Step(c)
                     \/ \E a \in Admin : Login(c, a)
                     \/ \E r \in Refresh : FindRefreshToken(c, r)
                     \/ \E t \in Access : Present(c, t)

SessionSpec == SessionInit /\ [][SessionNext]_vars

-----------------------------------------------------------------------------
CallStates ==
  {"idle", "create access", "create refresh", "revoke refresh", "revoke access",
   "find token", "find admin", "accepted"}

SessionTypeOK ==
  /\ admin   \in [Admin -> {None, "active", "disabled"}]
  /\ access  \in [Access -> AccessTokenRecord \cup {None}]
  /\ refresh \in [Refresh -> RefreshRecord \cup {None}]
  /\ at      \in [Call -> CallStates]
  /\ who     \in [Call -> Admin \cup {None}]
  /\ token   \in [Call -> Access \cup {None}]
  /\ used    \in [Call -> Refresh \cup {None}]
  /\ branch  \in [Refresh -> Branch \cup {None}]
  /\ grows   \in [Call -> Branch \cup {None}]
  /\ late    \subseteq Call
  /\ barred  \subseteq Call
  /\ \A c \in Call : at[c] \notin {"idle", "find token"} => who[c] \in Admin

(* "Stateful, so that a token can be revoked at once" (design document,    *)
(* line 109): a request is never accepted if its access token was revoked  *)
(* or expired before it read the token's row, or its administrator was     *)
(* disabled before it read theirs and has stayed so, whether that was      *)
(* before the request came, or between the two reads.  A token revoked     *)
(* after the first read is accepted once more.                             *)
RevocationIsImmediate == \A c \in late \cup barred : at[c] # "accepted"

(* A session has one refresh token at a time, so that a copy of an old one *)
(* is worthless: each refresh takes the place of the one before it.  The   *)
(* code keeps that for a branch.  So a session has a second live token     *)
(* only by two refreshes with one token that overlap, or by a revocation   *)
(* that fails, and one more for each such event: however calls overlap, are*)
(* dropped, fail or are repeated, they leave no other.                     *)
OneLivePair ==
  \A r, s \in Refresh :
    Refreshes(r) /\ Refreshes(s) /\ branch[r] = branch[s] /\ branch[r] # None => r = s
=============================================================================
