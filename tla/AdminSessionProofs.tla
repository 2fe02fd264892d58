------------------------- MODULE AdminSessionProofs -------------------------
(* Proofs about the sessions of administrators and the JWTs of services,   *)
(* for any number of administrators, services, tokens and concurrent       *)
(* calls.                                                                  *)
EXTENDS AdminAccess, TLAPS

Refreshing == {"revoke refresh", "revoke access"}
Presenting == {"find token", "find admin", "accepted"}

(* What a call holds at each place.                                        *)
WiredAt(c) ==
  /\ at[c] \in Presenting \cup {"create refresh"} =>
       token[c] \in Access /\ access[token[c]] # None
  /\ at[c] \in Refreshing => used[c] \in Refresh /\ refresh[used[c]] # None
  /\ who[c] # None => admin[who[c]] # None

Wired == \A c \in Call : WiredAt(c)

(* What a row refers to is there, and stays there.                         *)
Known ==
  /\ \A t \in Access : access[t] # None => admin[access[t].admin] # None
  /\ \A r \in Refresh : refresh[r] # None => admin[refresh[r].admin] # None

(* A request with a dead token, or for a disabled administrator, is still  *)
(* before the read that will refuse it, and that is of the right row.      *)
LateAt(c) == c \in late => at[c] = "find token" /\ ~access[token[c]].live

BarredAt(c) ==
  c \in barred =>
    /\ at[c] \in {"find token", "find admin"}
    /\ admin[access[token[c]].admin] # "active"

ActsAt(c) == at[c] = "find admin" => who[c] = access[token[c]].admin

RefusedAt(c) == LateAt(c) /\ BarredAt(c) /\ ActsAt(c)

Refused == \A c \in Call : RefusedAt(c)

(* A branch is in the hands of one call at a time, and that call has still *)
(* to revoke its only refresh token, or there is none.                     *)
SingleAt(b) ==
  /\ \A r, q \in Refresh : branch[r] = b /\ branch[q] = b => r = q
  /\ \A c \in Call, r \in Refresh :
       grows[c] = b /\ branch[r] = b => at[c] = "revoke refresh" /\ used[c] = r
  /\ \A c, d \in Call : grows[c] = b /\ grows[d] = b => c = d

Single == \A b \in Branch : SingleAt(b)

Inv == SessionTypeOK /\ Wired /\ Known /\ Refused /\ Single

-----------------------------------------------------------------------------
(* Rows are never deleted, and a dead token never lives again.             *)
RowsKept ==
  /\ \A a \in Admin : admin[a] # None => admin'[a] # None
  /\ \A t \in Access : access[t] # None =>
       /\ access'[t] # None /\ access'[t].admin = access[t].admin
       /\ ~access[t].live => ~access'[t].live
  /\ \A r \in Refresh : refresh[r] # None =>
       /\ refresh'[r] # None /\ refresh'[r].admin = refresh[r].admin
       /\ ~refresh[r].live => ~refresh'[r].live

RowsOK ==
  /\ admin   \in [Admin -> {None, "active", "disabled"}]
  /\ access  \in [Access -> AccessTokenRecord \cup {None}]
  /\ refresh \in [Refresh -> RefreshRecord \cup {None}]

CallsOK ==
  /\ at      \in [Call -> CallStates]
  /\ who     \in [Call -> Admin \cup {None}]
  /\ token   \in [Call -> Access \cup {None}]
  /\ used    \in [Call -> Refresh \cup {None}]
  /\ branch  \in [Refresh -> Branch \cup {None}]
  /\ grows   \in [Call -> Branch \cup {None}]
  /\ late    \subseteq Call
  /\ barred  \subseteq Call
  /\ \A c \in Call : at[c] \notin {"idle", "find token"} => who[c] \in Admin

(* Every part of it holds at the start.                                     *)
LEMMA InitInv == SessionInit => Inv
  BY SessionConstants DEF SessionInit, Inv, SessionTypeOK, Wired, WiredAt, Known, Refused, RefusedAt, LateAt,
         BarredAt, ActsAt, Single, SingleAt, Refreshing, Presenting, CallStates

(* What a statement does to its table.                                     *)
LEMMA AccessDies ==
  ASSUME access \in [Access -> AccessTokenRecord \cup {None}], NEW t \in Access,
         RevokeAccessToken(t)
  PROVE  /\ access' \in [Access -> AccessTokenRecord \cup {None}]
         /\ \A u \in Access : access[u] = None <=> access'[u] = None
         /\ \A u \in Access : access[u] # None =>
              access'[u].admin = access[u].admin /\ (access'[u].live => access[u].live)
<1>1. CASE access[t] = None
  BY <1>1 DEF RevokeAccessToken
<1>2. CASE access[t] # None
  <2>1. access[t] \in AccessTokenRecord
    BY <1>2
  <2>2. /\ DeadAccess(access[t]) \in AccessTokenRecord
        /\ DeadAccess(access[t]).admin = access[t].admin
        /\ DeadAccess(access[t]).live = FALSE
    BY <2>1 DEF DeadAccess, AccessTokenRecord
  <2>3. access' = [access EXCEPT ![t] = DeadAccess(access[t])]
    BY <1>2 DEF RevokeAccessToken
  <2> HIDE DEF DeadAccess
  <2> QED
    BY <1>2, <2>2, <2>3, SessionConstants
<1> QED
  BY <1>1, <1>2

(* A refresh token that is revoked or expires stays dead.                  *)
LEMMA RefreshDies ==
  ASSUME refresh \in [Refresh -> RefreshRecord \cup {None}], NEW r \in Refresh,
         refresh[r] # None, RevokeRefreshToken(r)
  PROVE  /\ refresh' \in [Refresh -> RefreshRecord \cup {None}]
         /\ ~refresh'[r].live
         /\ \A q \in Refresh : refresh[q] = None <=> refresh'[q] = None
         /\ \A q \in Refresh : refresh[q] # None =>
              refresh'[q].admin = refresh[q].admin /\ (refresh'[q].live => refresh[q].live)
<1>1. refresh[r] \in RefreshRecord
  OBVIOUS
<1>2. /\ DeadRefresh(refresh[r]) \in RefreshRecord
      /\ DeadRefresh(refresh[r]).admin = refresh[r].admin
      /\ DeadRefresh(refresh[r]).live = FALSE
  BY <1>1 DEF DeadRefresh, RefreshRecord
<1>3. refresh' = [refresh EXCEPT ![r] = DeadRefresh(refresh[r])]
  BY DEF RevokeRefreshToken
<1> HIDE DEF DeadRefresh
<1> QED
  BY <1>2, <1>3, SessionConstants

(* What a token row made is like.                                          *)
LEMMA RowsMade ==
  /\ \A a \in Admin : [admin |-> a, live |-> TRUE] \in AccessTokenRecord
  /\ \A a \in Admin, t \in Access :
       [admin |-> a, access |-> t, live |-> TRUE] \in RefreshRecord
BY DEF AccessTokenRecord, RefreshRecord

(* Every step is one of the actions.                                       *)
LEMMA StepCases ==
  ASSUME SessionNext
  PROVE \/ \E a \in Admin : CreateAdmin(a) \/ \E s \in {"active", "disabled"} : SetStatus(a, s)
        \/ \E t \in Access : ExpireAccess(t) \/ Logout(t)
        \/ \E r \in Refresh : ExpireRefresh(r)
        \/ \E c \in Call, a \in Admin : Login(c, a)
        \/ \E c \in Call, r \in Refresh : FindRefreshToken(c, r)
        \/ \E c \in Call, t \in Access : Present(c, t)
        \/ \E c \in Call : \/ RevokeOldRefresh(c) \/ RevokeOldAccess(c)
                           \/ CreateAccess(c) \/ CreateRefresh(c)
                           \/ FindAccessToken(c) \/ FindAdmin(c) \/ End(c)
BY DEF SessionNext, Step

(* Rows keep their types, and RowsKept holds of every step.                *)
LEMMA RowsStep ==
  ASSUME Inv, SessionNext
  PROVE  RowsOK' /\ RowsKept
<1> USE SessionConstants DEF Inv, SessionTypeOK, RowsOK, RowsKept, rows, local, history
<1>1. CASE \E a \in Admin : CreateAdmin(a) \/ \E s \in {"active", "disabled"} : SetStatus(a, s)
  <2> PICK a \in Admin, v \in {"active", "disabled"} :
         admin' = [admin EXCEPT ![a] = v] /\ UNCHANGED <<access, refresh>>
    BY <1>1 DEF CreateAdmin, SetStatus
  <2> QED
    OBVIOUS
<1>2. CASE \E t \in Access : ExpireAccess(t) \/ Logout(t)
  <2> PICK t \in Access : ExpireAccess(t) \/ Logout(t)
    BY <1>2
  <2>1. RevokeAccessToken(t)
    BY DEF ExpireAccess, Logout, RevokeAccessToken, Dead
  <2>2. UNCHANGED <<admin, refresh>>
    BY DEF ExpireAccess, Logout
  <2> QED
    BY <2>1, <2>2, AccessDies
<1>3. CASE \E r \in Refresh : ExpireRefresh(r)
  <2> PICK r \in Refresh : ExpireRefresh(r)
    BY <1>3
  <2>1. refresh[r] # None /\ RevokeRefreshToken(r) /\ UNCHANGED <<admin, access>>
    BY DEF ExpireRefresh, RevokeRefreshToken, Refreshes
  <2> QED
    BY <2>1, RefreshDies
<1>4. CASE \E c \in Call : RevokeOldRefresh(c)
  <2> PICK c \in Call : RevokeOldRefresh(c)
    BY <1>4
  <2>1. used[c] \in Refresh /\ refresh[used[c]] # None
    BY DEF Wired, WiredAt, Refreshing, RevokeOldRefresh
  <2>2. UNCHANGED <<admin, access>>
    BY DEF RevokeOldRefresh
  <2>3. RevokeRefreshToken(used[c]) \/ UNCHANGED refresh
    BY DEF RevokeOldRefresh
  <2> QED
    BY <2>1, <2>2, <2>3, RefreshDies
<1>5. CASE \E c \in Call : RevokeOldAccess(c)
  <2> PICK c \in Call : RevokeOldAccess(c)
    BY <1>5
  <2>1. used[c] \in Refresh /\ refresh[used[c]] # None
    BY DEF Wired, WiredAt, Refreshing, RevokeOldAccess
  <2>2. refresh[used[c]].access \in Access
    BY <2>1 DEF RefreshRecord
  <2>3. UNCHANGED <<admin, refresh>>
    BY DEF RevokeOldAccess
  <2>4. RevokeAccessToken(refresh[used[c]].access) \/ UNCHANGED access
    BY DEF RevokeOldAccess
  <2> QED
    BY <2>2, <2>3, <2>4, AccessDies
<1>6. CASE \E c \in Call : CreateAccess(c)
  <2> PICK c \in Call, t \in Access : at[c] = "create access" /\ CreateAccessToken(t, who[c])
                                      /\ UNCHANGED <<admin, refresh>>
    BY <1>6 DEF CreateAccess
  <2>1. [admin |-> who[c], live |-> TRUE] \in AccessTokenRecord
    BY RowsMade
  <2> QED
    BY <2>1 DEF CreateAccessToken
<1>7. CASE \E c \in Call : CreateRefresh(c)
  <2> PICK c \in Call, r \in Refresh :
        /\ at[c] = "create refresh" /\ CreateRefreshToken(r, who[c], token[c])
        /\ UNCHANGED <<admin, access>>
    BY <1>7 DEF CreateRefresh
  <2>1. who[c] \in Admin /\ token[c] \in Access
    BY DEF Wired, WiredAt
  <2>2. [admin |-> who[c], access |-> token[c], live |-> TRUE] \in RefreshRecord
    BY <2>1, RowsMade
  <2>3. \A q \in Refresh : refresh[q] # None => refresh'[q] = refresh[q]
    BY DEF CreateRefreshToken
  <2>4. RowsOK'
    BY <2>1, <2>2 DEF CreateRefreshToken
  <2> QED
    BY <2>3, <2>4
<1>8. CASE UNCHANGED rows
  BY <1>8
<1>9. CASE \/ \E c \in Call, a \in Admin : Login(c, a)
           \/ \E c \in Call, r \in Refresh : FindRefreshToken(c, r)
           \/ \E c \in Call, t \in Access : Present(c, t)
           \/ \E c \in Call : FindAccessToken(c) \/ FindAdmin(c) \/ End(c)
  BY <1>8, <1>9 DEF Login, FindRefreshToken, Present, FindAccessToken, FindAdmin, End
<1> QED
  BY <1>1, <1>2, <1>3, <1>4, <1>5, <1>6, <1>7, <1>9, StepCases

(* The types, in two parts.                                                *)
LEMMA TypeParts == SessionTypeOK <=> RowsOK /\ CallsOK
BY DEF SessionTypeOK, RowsOK, CallsOK

(* What a call reads from a row is an administrator, or a token.           *)
LEMMA ReadRows ==
  ASSUME Inv
  PROVE  /\ \A t \in Access : access[t] # None => access[t].admin \in Admin
         /\ \A r \in Refresh : refresh[r] # None =>
              refresh[r].admin \in Admin /\ refresh[r].access \in Access
BY DEF Inv, SessionTypeOK, AccessTokenRecord, RefreshRecord

(* A new branch has a name that no token and no call has, or none.         *)
LEMMA NewBranchIsNew ==
  /\ NewBranch \in Branch \cup {None}
  /\ NewBranch \in Branch => ~Named(NewBranch)
<1>1. CASE \A b \in Branch : Named(b)
  BY <1>1, SessionConstants DEF NewBranch
<1>2. CASE \E b \in Branch : ~Named(b)
  <2>1. NewBranch = CHOOSE b \in Branch : ~Named(b)
    BY <1>2 DEF NewBranch
  <2> DEFINE b == CHOOSE b \in Branch : ~Named(b)
  <2>2. b \in Branch /\ ~Named(b)
    BY <1>2
  <2> HIDE DEF b
  <2> QED
    BY <2>1, <2>2 DEF b
<1> QED
  BY <1>1, <1>2

(* A step names the branches of the tokens with branches.                  *)
LEMMA BranchStep ==
  ASSUME CallsOK, SessionNext
  PROVE  branch' \in [Refresh -> Branch \cup {None}]
<1>1. CASE \/ \E r \in Refresh : ExpireRefresh(r)
           \/ \E c \in Call : RevokeOldRefresh(c)
  BY <1>1 DEF ExpireRefresh, RevokeOldRefresh, Pruned, CallsOK
<1>2. CASE \E c \in Call : CreateRefresh(c)
  BY <1>2 DEF CreateRefresh, CallsOK
<1>3. CASE \/ \E a \in Admin : CreateAdmin(a) \/ \E s \in {"active", "disabled"} : SetStatus(a, s)
           \/ \E t \in Access : ExpireAccess(t) \/ Logout(t)
           \/ \E c \in Call, a \in Admin : Login(c, a)
           \/ \E c \in Call, r \in Refresh : FindRefreshToken(c, r)
           \/ \E c \in Call, t \in Access : Present(c, t)
           \/ \E c \in Call : \/ RevokeOldAccess(c) \/ CreateAccess(c)
                             \/ FindAccessToken(c) \/ FindAdmin(c) \/ End(c)
  <2>1. branch' = branch
    BY <1>3 DEF CreateAdmin, SetStatus, ExpireAccess, Logout, Login, FindRefreshToken, Present,
                RevokeOldAccess, CreateAccess, FindAccessToken, FindAdmin, End, history
  <2> QED
    BY <2>1 DEF CallsOK
<1> QED
  BY <1>1, <1>2, <1>3, StepCases

(* Calls keep their types.                                                 *)
LEMMA TypeStep ==
  ASSUME Inv, SessionNext
  PROVE  CallsOK'
<1>0. CallsOK /\ branch' \in [Refresh -> Branch \cup {None}]
  BY TypeParts, BranchStep DEF Inv
<1> USE SessionConstants DEF CallsOK, CallStates, GoTo
<1>1. CASE \/ \E a \in Admin : CreateAdmin(a) \/ \E s \in {"active", "disabled"} : SetStatus(a, s)
           \/ \E t \in Access : ExpireAccess(t) \/ Logout(t)
           \/ \E r \in Refresh : ExpireRefresh(r)
  <2>1. UNCHANGED <<at, who, token, used, grows>> /\ late' \subseteq Call /\ barred' \subseteq Call
    <3>1. \A t : Unread(t) \subseteq Call /\ Unjudged(t) \subseteq Call
      BY DEF Unread, Unjudged
    <3>2. CASE \E a \in Admin, s \in {"active", "disabled"} : SetStatus(a, s)
      <4> PICK a \in Admin, s \in {"active", "disabled"} : SetStatus(a, s)
        BY <3>2
      <4>1. UNCHANGED <<at, who, token, used, grows, late>>
        BY DEF SetStatus, local
      <4>2. barred' \subseteq barred \cup Unjudged(a)
        BY DEF SetStatus
      <4> QED
        BY <1>0, <3>1, <4>1, <4>2
    <3>3. CASE \E t \in Access : ExpireAccess(t) \/ Logout(t)
      BY <1>0, <3>1, <3>3 DEF ExpireAccess, Logout, local
    <3>4. CASE (\E a \in Admin : CreateAdmin(a)) \/ (\E r \in Refresh : ExpireRefresh(r))
      BY <1>0, <3>4 DEF CreateAdmin, ExpireRefresh, local, history
    <3> QED
      BY <1>1, <3>2, <3>3, <3>4
  <2> QED
    BY <1>0, <2>1
<1>2. CASE \E c \in Call, a \in Admin : Login(c, a)
  <2> PICK c \in Call, a \in Admin : Login(c, a)
    BY <1>2
  <2>1. /\ at' = [at EXCEPT ![c] = "create access"]
        /\ who' = [who EXCEPT ![c] = a]
        /\ grows' = [grows EXCEPT ![c] = NewBranch]
        /\ UNCHANGED <<token, used, late, barred>>
    BY DEF Login
  <2> QED
    BY <1>0, <2>1, NewBranchIsNew
<1>3. CASE \E c \in Call, r \in Refresh : FindRefreshToken(c, r)
  <2> PICK c \in Call, r \in Refresh : FindRefreshToken(c, r)
    BY <1>3
  <2>1. refresh[r].admin \in Admin
    BY ReadRows DEF FindRefreshToken, Refreshes
  <2>2. (IF RacedBy(c, r) THEN NewBranch ELSE branch[r]) \in Branch \cup {None}
    BY <1>0, NewBranchIsNew
  <2> QED
    BY <1>0, <2>1, <2>2 DEF FindRefreshToken
<1>4. CASE \E c \in Call, t \in Access : Present(c, t)
  <2> PICK c \in Call, t \in Access : Present(c, t)
    BY <1>4
  <2>1. /\ at' = [at EXCEPT ![c] = "find token"]
        /\ token' = [token EXCEPT ![c] = t]
        /\ late' \subseteq late \cup {c} /\ barred' \subseteq barred \cup {c}
        /\ UNCHANGED <<who, used, grows>>
    BY DEF Present
  <2> QED
    BY <1>0, <2>1
<1>5. CASE \E c \in Call : RevokeOldRefresh(c)
  <2> PICK c \in Call : RevokeOldRefresh(c)
    BY <1>5
  <2>1. /\ at[c] = "revoke refresh" /\ at' = [at EXCEPT ![c] = "revoke access"]
        /\ grows' = grows \/ grows' = [grows EXCEPT ![c] = NewBranch]
        /\ UNCHANGED <<who, token, used, late, barred>>
    BY DEF RevokeOldRefresh
  <2>2. grows' \in [Call -> Branch \cup {None}]
    BY <1>0, <2>1, NewBranchIsNew
  <2> QED
    BY <1>0, <2>1, <2>2
<1>6. CASE \E c \in Call : RevokeOldAccess(c)
  <2> PICK c \in Call : RevokeOldAccess(c)
    BY <1>6
  <2>1. /\ at[c] = "revoke access" /\ at' = [at EXCEPT ![c] = "create access"]
        /\ late' \subseteq Call
        /\ UNCHANGED <<who, token, used, grows, barred>>
    BY <1>0 DEF RevokeOldAccess, Unread
  <2> QED
    BY <1>0, <2>1
<1>7. CASE \E c \in Call : CreateAccess(c)
  <2> PICK c \in Call, t \in Access :
        /\ at[c] = "create access" /\ at' = [at EXCEPT ![c] = "create refresh"]
        /\ token' = [token EXCEPT ![c] = t]
        /\ UNCHANGED <<who, used, grows, late, barred>>
    BY <1>7 DEF CreateAccess, history
  <2> QED
    BY <1>0
<1>8. CASE \E c \in Call : CreateRefresh(c) \/ End(c)
  <2> PICK c \in Call : Idle(c)
    BY <1>8 DEF CreateRefresh, End
  <2> QED
    BY <1>0 DEF Idle
<1>9. CASE \E c \in Call : FindAccessToken(c)
  <2> PICK c \in Call : FindAccessToken(c)
    BY <1>9
  <2>1. access[token[c]].admin \in Admin
    BY ReadRows DEF FindAccessToken, Inv, Wired, WiredAt, Presenting
  <2> QED
    BY <1>0, <2>1 DEF FindAccessToken, history
<1>10. CASE \E c \in Call : FindAdmin(c)
  BY <1>0, <1>10 DEF FindAdmin, history
<1> QED
  BY <1>1, <1>2, <1>3, <1>4, <1>5, <1>6, <1>7, <1>8, <1>9, <1>10, StepCases

(* Rows appear one way only.                                               *)
LEMMA NewRows ==
  ASSUME Inv, SessionNext
  PROVE  /\ \A t \in Access : access[t] = None /\ access'[t] # None =>
              \E c \in Call : at[c] = "create access"
                            /\ access'[t] = [admin |-> who[c], live |-> TRUE]
         /\ \A r \in Refresh : refresh[r] = None /\ refresh'[r] # None =>
              \E c \in Call :
                /\ at[c] = "create refresh"
                /\ refresh'[r] = [admin |-> who[c], access |-> token[c], live |-> TRUE]
<1>0. RowsOK
  BY TypeParts DEF Inv
<1> USE DEF RowsOK, rows, local, history
<1>1. CASE \/ \E a \in Admin : CreateAdmin(a) \/ \E s \in {"active", "disabled"} : SetStatus(a, s)
           \/ \E c \in Call, a \in Admin : Login(c, a)
           \/ \E c \in Call, r \in Refresh : FindRefreshToken(c, r)
           \/ \E c \in Call, t \in Access : Present(c, t)
           \/ \E c \in Call : FindAccessToken(c) \/ FindAdmin(c) \/ End(c)
  <2>1. UNCHANGED <<access, refresh>>
    BY <1>1 DEF CreateAdmin, SetStatus, Login, FindRefreshToken, Present, FindAccessToken,
                FindAdmin, End
  <2> QED
    BY <2>1
<1>2. CASE \/ \E t \in Access : ExpireAccess(t) \/ Logout(t)
           \/ \E r \in Refresh : ExpireRefresh(r)
           \/ \E c \in Call : RevokeOldRefresh(c) \/ RevokeOldAccess(c)
  <2>1. \/ access' = access
        \/ \E t \in Access : access[t] # None /\ access' = [access EXCEPT ![t] = DeadAccess(@)]
        \/ \E c \in Call : RevokeOldAccess(c)
    BY <1>2 DEF ExpireAccess, Logout, Dead, RevokeAccessToken, ExpireRefresh, RevokeOldRefresh
  <2>2. \A t \in Access : access[t] = None => access'[t] = None
    <3>1. CASE \E c \in Call : RevokeOldAccess(c)
      BY <1>0, <3>1 DEF RevokeOldAccess, RevokeAccessToken
    <3> QED
      BY <1>0, <2>1, <3>1
  <2>3. \/ refresh' = refresh
        \/ \E r \in Refresh : refresh[r] # None /\ refresh' = [refresh EXCEPT ![r] = DeadRefresh(@)]
    BY <1>2 DEF ExpireAccess, Logout, ExpireRefresh, Refreshes, RevokeOldRefresh,
                RevokeOldAccess, RevokeRefreshToken, Inv, Wired, WiredAt, Refreshing
  <2>4. \A r \in Refresh : refresh[r] = None => refresh'[r] = None
    BY <1>0, <2>3
  <2> QED
    BY <2>2, <2>4
<1>3. CASE \E c \in Call : CreateAccess(c)
  BY <1>0, <1>3 DEF CreateAccess, CreateAccessToken
<1>4. CASE \E c \in Call : CreateRefresh(c)
  BY <1>0, <1>4 DEF CreateRefresh, CreateRefreshToken
<1> QED
  BY <1>1, <1>2, <1>3, <1>4, StepCases

(* A row is made by a call that knows its administrator.                   *)
LEMMA KnownStep ==
  ASSUME Inv, SessionNext, RowsOK', RowsKept
  PROVE  Known'
<1>1. ASSUME NEW t \in Access, access'[t] # None
      PROVE  admin'[access'[t].admin] # None
  <2>1. CASE access[t] # None
    <3>1. access'[t].admin = access[t].admin /\ access[t].admin \in Admin
      BY <2>1, ReadRows DEF RowsKept
    <3> QED
      BY <2>1, <3>1 DEF Inv, Known, RowsKept
  <2>2. CASE access[t] = None
    <3> PICK c \in Call : at[c] = "create access"
                        /\ access'[t] = [admin |-> who[c], live |-> TRUE]
      BY <1>1, <2>2, NewRows, Zenon
    <3>0. access'[t].admin = who[c]
      <4> DEFINE row == access'[t]
      <4>1. row = [admin |-> who[c], live |-> TRUE]
        OBVIOUS
      <4> HIDE DEF row
      <4>2. row.admin = who[c]
        BY <4>1
      <4> QED
        BY <4>2 DEF row
    <3>1. who[c] \in Admin /\ admin[who[c]] # None
      BY SessionConstants DEF Inv, SessionTypeOK, Wired, WiredAt
    <3> QED
      BY <3>0, <3>1 DEF RowsKept
  <2> QED
    BY <2>1, <2>2
<1>2. ASSUME NEW r \in Refresh, refresh'[r] # None
      PROVE  admin'[refresh'[r].admin] # None
  <2>1. CASE refresh[r] # None
    <3>1. refresh'[r].admin = refresh[r].admin /\ refresh[r].admin \in Admin
      BY <2>1, ReadRows DEF RowsKept
    <3> QED
      BY <2>1, <3>1 DEF Inv, Known, RowsKept
  <2>2. CASE refresh[r] = None
    <3> PICK c \in Call :
          /\ at[c] = "create refresh"
          /\ refresh'[r] = [admin |-> who[c], access |-> token[c], live |-> TRUE]
      BY <1>2, <2>2, NewRows, Zenon
    <3>0. refresh'[r].admin = who[c]
      <4> DEFINE row == refresh'[r]
      <4>1. row = [admin |-> who[c], access |-> token[c], live |-> TRUE]
        OBVIOUS
      <4> HIDE DEF row
      <4>2. row.admin = who[c]
        BY <4>1
      <4> QED
        BY <4>2 DEF row
    <3>1. who[c] \in Admin /\ admin[who[c]] # None
      BY SessionConstants DEF Inv, SessionTypeOK, Wired, WiredAt
    <3> QED
      BY <3>0, <3>1 DEF RowsKept
  <2> QED
    BY <2>1, <2>2
<1> QED
  BY <1>1, <1>2 DEF Known

(* What a call holds outlives the steps of the others.                     *)
Stays(c) ==
  at'[c] = at[c] /\ who'[c] = who[c] /\ token'[c] = token[c] /\ used'[c] = used[c]
  /\ grows'[c] = grows[c]

(* A call that does not move still holds what it held.                     *)
LEMMA StaysWired ==
  ASSUME Inv, RowsKept, NEW c \in Call, Stays(c)
  PROVE  WiredAt(c)'
<1>1. WiredAt(c) /\ CallsOK
  BY TypeParts DEF Inv, Wired
<1>2. \A r \in Refresh : refresh[r] # None => refresh'[r] # None
  BY DEF RowsKept
<1>3. \A t \in Access : access[t] # None => access'[t] # None
  BY DEF RowsKept
<1>4. \A a \in Admin : admin[a] # None => admin'[a] # None
  BY DEF RowsKept
<1> QED
  BY <1>1, <1>2, <1>3, <1>4, SessionConstants DEF CallsOK, Stays, WiredAt, Presenting, Refreshing

(* A step of one call leaves the others where they are.                    *)
LEMMA OthersStay ==
  ASSUME Inv, NEW c \in Call, NEW d \in Call \ {c},
         \/ \E a \in Admin : Login(c, a)
         \/ \E r \in Refresh : FindRefreshToken(c, r)
         \/ \E t \in Access : Present(c, t)
         \/ RevokeOldRefresh(c) \/ RevokeOldAccess(c) \/ CreateAccess(c) \/ CreateRefresh(c)
         \/ FindAccessToken(c) \/ FindAdmin(c) \/ End(c)
  PROVE  Stays(d)
<1>0. CallsOK
  BY TypeParts DEF Inv
<1> USE <1>0 DEF CallsOK, GoTo, Stays
<1>1. CASE \E a \in Admin : Login(c, a)
  BY <1>1 DEF Login, history
<1>2. CASE \E r \in Refresh : FindRefreshToken(c, r)
  BY <1>2 DEF FindRefreshToken
<1>3. CASE \E t \in Access : Present(c, t)
  BY <1>3 DEF Present
<1>4. CASE RevokeOldRefresh(c)
  BY <1>4 DEF RevokeOldRefresh
<1>5. CASE RevokeOldAccess(c)
  BY <1>5 DEF RevokeOldAccess, history
<1>6. CASE CreateAccess(c)
  BY <1>6 DEF CreateAccess, history
<1>7. CASE CreateRefresh(c) \/ End(c)
  BY <1>7 DEF CreateRefresh, End, Idle
<1>8. CASE FindAccessToken(c) \/ FindAdmin(c)
  BY <1>8 DEF FindAccessToken, FindAdmin, history
<1> QED
  BY <1>1, <1>2, <1>3, <1>4, <1>5, <1>6, <1>7, <1>8

(* Where no call moves.                                                    *)
LEMMA AllStay ==
  ASSUME \/ \E a \in Admin : CreateAdmin(a) \/ \E s \in {"active", "disabled"} : SetStatus(a, s)
         \/ \E t \in Access : ExpireAccess(t) \/ Logout(t)
         \/ \E r \in Refresh : ExpireRefresh(r)
  PROVE  \A c \in Call : Stays(c)
<1>1. UNCHANGED <<at, who, token, used, grows>>
  BY DEF CreateAdmin, SetStatus, ExpireAccess, Logout, ExpireRefresh, local, history
<1> QED
  BY <1>1 DEF Stays

(* A call that moves holds what its next place asks for.                   *)
LEMMA WiredStep ==
  ASSUME Inv, SessionNext, RowsKept
  PROVE  Wired'
<1>0. CallsOK /\ RowsOK /\ Wired /\ Known
  BY TypeParts DEF Inv
<1> DEFINE Others(c) == \A d \in Call \ {c} : WiredAt(d)'
<1>1. CASE \/ \E a \in Admin : CreateAdmin(a) \/ \E s \in {"active", "disabled"} : SetStatus(a, s)
           \/ \E t \in Access : ExpireAccess(t) \/ Logout(t)
           \/ \E r \in Refresh : ExpireRefresh(r)
  BY <1>1, AllStay, StaysWired DEF Wired
<1>2. CASE \E c \in Call, a \in Admin : Login(c, a)
  <2> PICK c \in Call, a \in Admin : Login(c, a)
    BY <1>2
  <2>1. Others(c)
    BY OthersStay, StaysWired
  <2>2. at'[c] = "create access" /\ who'[c] = a
    BY <1>0 DEF Login, history, CallsOK, GoTo
  <2>3. admin[a] # None
    BY <1>0, SessionConstants DEF Login, Active, Wired, WiredAt, Presenting
  <2>4. WiredAt(c)'
    BY <2>2, <2>3, SessionConstants DEF WiredAt, Presenting, Refreshing, RowsKept
  <2> QED
    BY <2>1, <2>4 DEF Wired
<1>3. CASE \E c \in Call, r \in Refresh : FindRefreshToken(c, r)
  <2> PICK c \in Call, r \in Refresh : FindRefreshToken(c, r)
    BY <1>3
  <2>1. Others(c)
    BY OthersStay, StaysWired
  <2>2. /\ at'[c] = "revoke refresh" /\ who'[c] = refresh[r].admin
        /\ used'[c] = r
    BY <1>0 DEF FindRefreshToken, rows, CallsOK, GoTo
  <2>3. /\ refresh[r] # None /\ refresh[r].admin \in Admin /\ admin[refresh[r].admin] # None
    BY <1>0, ReadRows DEF FindRefreshToken, Refreshes, Known
  <2>4. WiredAt(c)'
    BY <2>2, <2>3, SessionConstants DEF WiredAt, Presenting, Refreshing, RowsKept
  <2> QED
    BY <2>1, <2>4 DEF Wired
<1>4. CASE \E c \in Call, t \in Access : Present(c, t)
  <2> PICK c \in Call, t \in Access : Present(c, t)
    BY <1>4
  <2>1. Others(c)
    BY OthersStay, StaysWired
  <2>2. at'[c] = "find token" /\ token'[c] = t /\ who'[c] = who[c]
    BY <1>0 DEF Present, CallsOK, GoTo
  <2>3. /\ access[t] # None /\ who[c] \in Admin \cup {None}
        /\ who[c] # None => admin[who[c]] # None
    BY <1>0 DEF Present, Wired, WiredAt, Presenting, CallsOK
  <2>4. WiredAt(c)'
    BY <2>2, <2>3, SessionConstants DEF WiredAt, Presenting, Refreshing, RowsKept
  <2> QED
    BY <2>1, <2>4 DEF Wired
<1>5. CASE \E c \in Call : RevokeOldRefresh(c)
  <2> PICK c \in Call : RevokeOldRefresh(c)
    BY <1>5
  <2>1. Others(c)
    BY OthersStay, StaysWired
  <2>2. at'[c] = "revoke access" /\ who'[c] = who[c] /\ used'[c] = used[c]
    BY <1>0 DEF RevokeOldRefresh, CallsOK, GoTo
  <2>3. WiredAt(c) /\ at[c] \in Refreshing
    BY <1>0 DEF Wired, RevokeOldRefresh, Refreshing
  <2>4. used[c] \in Refresh /\ refresh[used[c]] # None
    BY <2>3 DEF WiredAt
  <2>5. who[c] \in Admin /\ admin[who[c]] # None
    BY <1>0, <2>3, SessionConstants DEF WiredAt, CallsOK, Refreshing
  <2>7. WiredAt(c)'
    BY <2>2, <2>4, <2>5 DEF WiredAt, Presenting, Refreshing, RowsKept
  <2> QED
    BY <2>1, <2>7 DEF Wired
<1>6. CASE \E c \in Call : RevokeOldAccess(c)
  <2> PICK c \in Call : RevokeOldAccess(c)
    BY <1>6
  <2>1. Others(c)
    BY OthersStay, StaysWired
  <2>2. at'[c] = "create access" /\ who'[c] = who[c]
    BY <1>0 DEF RevokeOldAccess, history, CallsOK, GoTo
  <2>3. WiredAt(c) /\ at[c] \in Refreshing
    BY <1>0 DEF Wired, RevokeOldAccess, Refreshing
  <2>4. used[c] \in Refresh /\ refresh[used[c]] # None
    BY <2>3 DEF WiredAt
  <2>5. who[c] \in Admin /\ admin[who[c]] # None
    BY <1>0, <2>3, SessionConstants DEF WiredAt, CallsOK, Refreshing
  <2>7. WiredAt(c)'
    BY <2>2, <2>4, <2>5 DEF WiredAt, Presenting, Refreshing, RowsKept
  <2> QED
    BY <2>1, <2>7 DEF Wired
<1>7. CASE \E c \in Call : CreateAccess(c)
  <2> PICK c \in Call : CreateAccess(c)
    BY <1>7
  <2>1. Others(c)
    BY OthersStay, StaysWired
  <2> PICK t \in Access :
        /\ at[c] = "create access" /\ CreateAccessToken(t, who[c])
        /\ token' = [token EXCEPT ![c] = t]
        /\ at' = [at EXCEPT ![c] = "create refresh"] /\ who' = who
    BY DEF CreateAccess, GoTo
  <2>2. at'[c] = "create refresh" /\ token'[c] = t /\ who'[c] = who[c]
    BY <1>0 DEF CallsOK
  <2>3. who[c] \in Admin /\ admin[who[c]] # None
    BY <1>0, SessionConstants DEF CallsOK, Wired, WiredAt
  <2>4. [admin |-> who[c], live |-> TRUE] \in AccessTokenRecord
    BY <2>3, RowsMade
  <2>5. access'[t] # None
    BY <1>0, <2>4, SessionConstants DEF CreateAccessToken, RowsOK
  <2>7. WiredAt(c)'
    BY <2>2, <2>3, <2>5, SessionConstants DEF WiredAt, Presenting, Refreshing, RowsKept
  <2> QED
    BY <2>1, <2>7 DEF Wired
<1>8. CASE \E c \in Call : CreateRefresh(c) \/ End(c)
  <2> PICK c \in Call : CreateRefresh(c) \/ End(c)
    BY <1>8
  <2>1. Others(c)
    BY OthersStay, StaysWired
  <2>2. at'[c] = "idle" /\ who'[c] = None
    BY <1>0 DEF CreateRefresh, End, Idle, CallsOK, GoTo
  <2>3. WiredAt(c)'
    BY <2>2 DEF WiredAt, Presenting, Refreshing
  <2> QED
    BY <2>1, <2>3 DEF Wired
<1>9. CASE \E c \in Call : FindAccessToken(c)
  <2> PICK c \in Call : FindAccessToken(c)
    BY <1>9
  <2>1. Others(c)
    BY OthersStay, StaysWired
  <2>2. /\ at'[c] = "find admin" /\ token'[c] = token[c]
        /\ who'[c] = access[token[c]].admin
    BY <1>0 DEF FindAccessToken, history, CallsOK, GoTo
  <2>3. /\ token[c] \in Access /\ access[token[c]] # None
        /\ access[token[c]].admin \in Admin /\ admin[access[token[c]].admin] # None
    BY <1>0, ReadRows DEF FindAccessToken, Known, Wired, WiredAt,
                           Presenting
  <2>4. WiredAt(c)'
    BY <2>2, <2>3, SessionConstants DEF WiredAt, Presenting, Refreshing, RowsKept
  <2> QED
    BY <2>1, <2>4 DEF Wired
<1>10. CASE \E c \in Call : FindAdmin(c)
  <2> PICK c \in Call : FindAdmin(c)
    BY <1>10
  <2>1. Others(c)
    BY OthersStay, StaysWired
  <2>2. at'[c] = "accepted" /\ token'[c] = token[c] /\ who'[c] = who[c]
    BY <1>0 DEF FindAdmin, history, CallsOK, GoTo
  <2>3. /\ token[c] \in Access /\ access[token[c]] # None
        /\ who[c] \in Admin /\ admin[who[c]] # None
    BY <1>0, SessionConstants DEF FindAdmin, Wired, WiredAt, Presenting, CallsOK
  <2>4. WiredAt(c)'
    BY <2>2, <2>3, SessionConstants DEF WiredAt, Presenting, Refreshing, RowsKept
  <2> QED
    BY <2>1, <2>4 DEF Wired
<1> QED
  BY <1>1, <1>2, <1>3, <1>4, <1>5, <1>6, <1>7, <1>8, <1>9, <1>10, StepCases

(* The steps of a call, but for the presentation of a token.               *)
Moves(c) ==
  \/ \E a \in Admin : Login(c, a)
  \/ \E r \in Refresh : FindRefreshToken(c, r)
  \/ RevokeOldRefresh(c) \/ RevokeOldAccess(c) \/ CreateAccess(c) \/ CreateRefresh(c)
  \/ FindAccessToken(c) \/ FindAdmin(c) \/ End(c)

(* Every step, with those of calls taken together.                         *)
LEMMA MoveCases ==
  ASSUME SessionNext
  PROVE  \/ \E a \in Admin : CreateAdmin(a) \/ \E s \in {"active", "disabled"} : SetStatus(a, s)
         \/ \E t \in Access : ExpireAccess(t) \/ Logout(t)
         \/ \E r \in Refresh : ExpireRefresh(r)
         \/ \E c \in Call, t \in Access : Present(c, t)
         \/ \E c \in Call : Moves(c)
BY StepCases DEF Moves

(* Such a step bars no request, and makes one late only if it revokes the  *)
(* token that the request has still to read.                               *)
LEMMA MovesHistory ==
  ASSUME NEW c \in Call, Moves(c)
  PROVE  /\ admin' = admin
         /\ barred' \subseteq barred
         /\ \/ late' \subseteq late
            \/ /\ at[c] = "revoke access" /\ RevokeAccessToken(refresh[used[c]].access)
               /\ late' = late \cup Unread(refresh[used[c]].access)
<1>1. CASE \E a \in Admin : Login(c, a)
  BY <1>1 DEF Login, rows, history
<1>2. CASE \E r \in Refresh : FindRefreshToken(c, r)
  BY <1>2 DEF FindRefreshToken, rows
<1>3. CASE RevokeOldRefresh(c) \/ CreateAccess(c)
  BY <1>3 DEF RevokeOldRefresh, CreateAccess, history
<1>4. CASE CreateRefresh(c) \/ End(c)
  BY <1>4 DEF CreateRefresh, End, Idle, rows
<1>5. CASE FindAccessToken(c) \/ FindAdmin(c)
  BY <1>5 DEF FindAccessToken, FindAdmin, rows, history
<1>6. CASE RevokeOldAccess(c)
  BY <1>6 DEF RevokeOldAccess
<1> QED
  BY <1>1, <1>2, <1>3, <1>4, <1>5, <1>6 DEF Moves

(* The token of a request that has still to read it is in a row, which is  *)
(* dead once it is revoked.                                                *)
LEMMA UnreadDies ==
  ASSUME RowsOK, Wired, NEW t, RevokeAccessToken(t), NEW c \in Unread(t)
  PROVE  at[c] = "find token" /\ ~access'[token[c]].live
<1>1. at[c] = "find token" /\ token[c] = t /\ t \in Access /\ access[t] # None
  BY DEF Unread, Wired, WiredAt, Presenting
<1>2. access' = [access EXCEPT ![t] = DeadAccess(access[t])]
  BY <1>1 DEF RevokeAccessToken
<1>3. DeadAccess(access[t]).live = FALSE
  BY DEF DeadAccess
<1> HIDE DEF DeadAccess
<1> QED
  BY <1>1, <1>2, <1>3 DEF RowsOK

(* A request that waits is refused all the same later on.                  *)
LEMMA StaysRefused ==
  ASSUME Inv, RowsKept, NEW c \in Call, Stays(c),
         c \in late' => \/ c \in late
                        \/ at[c] = "find token" /\ ~access'[token[c]].live,
         c \in barred' => /\ c \in barred \/ at[c] \in {"find token", "find admin"}
                          /\ admin'[access[token[c]].admin] # "active"
  PROVE  RefusedAt(c)'
<1>1. LateAt(c) /\ BarredAt(c) /\ ActsAt(c) /\ WiredAt(c)
  BY DEF Inv, Refused, RefusedAt, Wired
<1>2. ASSUME at[c] \in {"find token", "find admin"}
      PROVE  /\ access'[token[c]].admin = access[token[c]].admin
             /\ ~access[token[c]].live => ~access'[token[c]].live
  BY <1>1, <1>2 DEF WiredAt, Presenting, RowsKept
<1>3. LateAt(c)'
  BY <1>1, <1>2 DEF LateAt, Stays
<1>4. ASSUME c \in barred' PROVE BarredAt(c)'
  <2>1. at[c] \in {"find token", "find admin"} /\ admin'[access[token[c]].admin] # "active"
    BY <1>1, <1>4 DEF BarredAt
  <2>2. access'[token'[c]].admin = access[token[c]].admin /\ at'[c] = at[c]
    BY <1>2, <2>1 DEF Stays
  <2> QED
    BY <2>1, <2>2 DEF BarredAt
<1>5. c \notin barred' => BarredAt(c)'
  BY DEF BarredAt
<1>6. ActsAt(c)'
  BY <1>1, <1>2 DEF ActsAt, Stays
<1> QED
  BY <1>3, <1>4, <1>5, <1>6 DEF RefusedAt

(* No step lets a late or barred request past the read that refuses it.    *)
LEMMA RefusedStep ==
  ASSUME Inv, SessionNext, RowsKept
  PROVE  Refused'
<1>0. CallsOK /\ RowsOK /\ Wired /\ Known /\ Refused
  BY TypeParts DEF Inv
<1> DEFINE Held(c) == /\ access[token[c]].admin \in Admin
                      /\ admin[access[token[c]].admin] # None
<1>h. \A c \in barred : Held(c) /\ admin[access[token[c]].admin] # "active"
  BY <1>0, ReadRows DEF Refused, RefusedAt, BarredAt, Wired, WiredAt, Presenting, Known, CallsOK
<1>1. CASE \/ \E r \in Refresh : ExpireRefresh(r)
           \/ \E a \in Admin : CreateAdmin(a)
  <2>1. \A c \in Call : Stays(c)
    BY <1>1, AllStay
  <2>2. UNCHANGED <<late, barred>>
    BY <1>1 DEF ExpireRefresh, CreateAdmin, history
  <2>3. \A a \in Admin : admin[a] # None => admin'[a] = admin[a]
    BY <1>0, <1>1 DEF ExpireRefresh, CreateAdmin, RowsOK
  <2> QED
    BY <1>h, <2>1, <2>2, <2>3, StaysRefused DEF Refused
<1>5. CASE \E t \in Access : ExpireAccess(t) \/ Logout(t)
  <2> PICK t \in Access : ExpireAccess(t) \/ Logout(t)
    BY <1>5
  <2>1. \A c \in Call : Stays(c)
    BY <1>5, AllStay
  <2>2. RevokeAccessToken(t)
    BY DEF ExpireAccess, Logout, RevokeAccessToken, Dead
  <2>3. late' = late \cup Unread(t) /\ UNCHANGED <<admin, barred>>
    BY DEF ExpireAccess, Logout
  <2>4. \A c \in Unread(t) : at[c] = "find token" /\ ~access'[token[c]].live
    BY <1>0, <2>2, UnreadDies
  <2> QED
    BY <1>h, <2>1, <2>3, <2>4, StaysRefused DEF Refused
<1>6. CASE \E a \in Admin : SetStatus(a, "disabled")
  <2> PICK a \in Admin : SetStatus(a, "disabled")
    BY <1>6
  <2>1. \A c \in Call : Stays(c)
    BY AllStay
  <2>2. late' = late /\ barred' = barred \cup Unjudged(a)
    BY DEF SetStatus
  <2>3. admin' = [admin EXCEPT ![a] = "disabled"]
    BY DEF SetStatus
  <2>4. \A c \in barred : admin'[access[token[c]].admin] # "active"
    BY <1>0, <1>h, <2>3 DEF RowsOK
  <2>5. \A c \in Unjudged(a) : /\ at[c] \in {"find token", "find admin"}
                               /\ admin'[access[token[c]].admin] # "active"
    BY <1>0, <2>3 DEF Unjudged, RowsOK
  <2> QED
    BY <2>1, <2>2, <2>4, <2>5, StaysRefused DEF Refused
<1>2. CASE \E a \in Admin : SetStatus(a, "active")
  <2> PICK a \in Admin : SetStatus(a, "active")
    BY <1>2
  <2>1. \A c \in Call : Stays(c)
    BY AllStay
  <2>2. late' = late /\ \A c \in barred' : c \in barred /\ access[token[c]].admin # a
    BY DEF SetStatus
  <2>3. \A b \in Admin \ {a} : admin'[b] = admin[b]
    BY <1>0 DEF SetStatus, RowsOK
  <2> QED
    BY <1>h, <2>1, <2>2, <2>3, StaysRefused DEF Refused
<1>3. CASE \E c \in Call, t \in Access : Present(c, t)
  <2> PICK c \in Call, t \in Access : Present(c, t)
    BY <1>3
  <2>1. \A d \in Call \ {c} : Stays(d)
    BY OthersStay
  <2>2. /\ UNCHANGED <<admin, access>>
        /\ late' = IF Dead(t) THEN late \cup {c} ELSE late
        /\ barred' = IF Active(access[t].admin) THEN barred ELSE barred \cup {c}
    BY DEF Present, rows
  <2>3. \A d \in Call \ {c} : RefusedAt(d)'
    BY <1>h, <2>1, <2>2, StaysRefused
  <2>4. c \notin late /\ c \notin barred
    BY <1>0 DEF Present, Refused, RefusedAt, LateAt, BarredAt
  <2>5. at'[c] = "find token" /\ token'[c] = t /\ access[t] # None
    BY <1>0 DEF Present, GoTo, CallsOK
  <2>6. LateAt(c)'
    BY <2>2, <2>4, <2>5 DEF LateAt, Dead
  <2>7. BarredAt(c)' /\ ActsAt(c)'
    BY <2>2, <2>4, <2>5 DEF BarredAt, ActsAt, Active
  <2> QED
    BY <2>3, <2>6, <2>7 DEF Refused, RefusedAt
<1>4. CASE \E c \in Call : Moves(c)
  <2> PICK c \in Call : Moves(c)
    BY <1>4
  <2>0. \A d \in Call \ {c} : d \in late' =>
          d \in late \/ (at[d] = "find token" /\ ~access'[token[d]].live)
    BY <1>0, MovesHistory, UnreadDies
  <2>1. \A d \in Call \ {c} : RefusedAt(d)'
    BY <1>h, <2>0, OthersStay, StaysRefused, MovesHistory DEF Moves
  <2> DEFINE Goal == RefusedAt(c)'
  <2>2. ASSUME CreateRefresh(c) \/ End(c) PROVE Goal
    BY <1>0, <2>2 DEF CreateRefresh, End, Idle, GoTo, CallsOK, RefusedAt, LateAt, BarredAt, ActsAt
  <2>3. ASSUME FindAccessToken(c) PROVE Goal
    <3>1. c \notin late
      BY <1>0, <2>3 DEF FindAccessToken, Dead, Refused, RefusedAt, LateAt
    <3>2. /\ UNCHANGED <<admin, access, token, late, barred>>
          /\ at'[c] = "find admin" /\ who'[c] = access[token[c]].admin
      BY <1>0, <2>3 DEF FindAccessToken, GoTo, rows, history, CallsOK
    <3> QED
      BY <1>0, <3>1, <3>2 DEF Refused, RefusedAt, LateAt, BarredAt, ActsAt
  <2>4. ASSUME FindAdmin(c) PROVE Goal
    <3>1. c \notin late /\ c \notin barred
      BY <1>0, <2>4 DEF FindAdmin, Active, Refused, RefusedAt, LateAt, BarredAt, ActsAt
    <3> QED
      BY <1>0, <2>4, <3>1 DEF FindAdmin, GoTo, CallsOK, history, RefusedAt, LateAt, BarredAt, ActsAt
  <2>5. ASSUME \/ \E a \in Admin : Login(c, a)
               \/ \E r \in Refresh : FindRefreshToken(c, r)
               \/ RevokeOldRefresh(c) \/ RevokeOldAccess(c) \/ CreateAccess(c)
        PROVE  Goal
    <3>1. at[c] \notin {"find token", "find admin"}
      BY <2>5 DEF Login, FindRefreshToken, RevokeOldRefresh, RevokeOldAccess, CreateAccess
    <3>2. c \notin late' /\ c \notin barred'
      BY <1>0, <3>1, MovesHistory DEF Refused, RefusedAt, LateAt, BarredAt, Unread
    <3>3. at'[c] # "find admin"
      BY <1>0, <2>5 DEF Login, FindRefreshToken, RevokeOldRefresh, RevokeOldAccess,
                        CreateAccess, GoTo, CallsOK
    <3> QED
      BY <3>2, <3>3 DEF RefusedAt, LateAt, BarredAt, ActsAt
  <2> QED
    BY <2>1, <2>2, <2>3, <2>4, <2>5 DEF Moves, Refused
<1> QED
  BY <1>1, <1>2, <1>3, <1>4, <1>5, <1>6, MoveCases

(* A branch is no worse where it gains no token and no call, and where the *)
(* call that has it moves only when it has no token left.                  *)
KeptAt(b) ==
  /\ \A r \in Refresh : branch'[r] = b => branch[r] = b
  /\ \A c \in Call : grows'[c] = b =>
       /\ grows[c] = b
       /\ \/ at'[c] = at[c] /\ used'[c] = used[c]
          \/ \A r \in Refresh : branch'[r] # b

(* Such a branch keeps its one refresh token.                              *)
LEMMA BranchKept ==
  ASSUME Inv, NEW b \in Branch, KeptAt(b)
  PROVE  SingleAt(b)'
<1>1. SingleAt(b)
  BY DEF Inv, Single
<1>2. \A r, q \in Refresh : branch'[r] = b /\ branch'[q] = b => r = q
  BY <1>1 DEF SingleAt, KeptAt
<1>3. \A c \in Call, r \in Refresh :
        grows'[c] = b /\ branch'[r] = b => at'[c] = "revoke refresh" /\ used'[c] = r
  BY <1>1 DEF SingleAt, KeptAt
<1>4. \A c, d \in Call : grows'[c] = b /\ grows'[d] = b => c = d
  BY <1>1 DEF SingleAt, KeptAt
<1> QED
  BY <1>2, <1>3, <1>4 DEF SingleAt

(* Where one call moves, of the branches that it does not come to have.    *)
LEMMA OtherBranches ==
  ASSUME Inv, NEW b \in Branch, \A r \in Refresh : branch'[r] = b => branch[r] = b,
         NEW c \in Call, \A d \in Call \ {c} : Stays(d), grows'[c] # b
  PROVE  SingleAt(b)'
<1>1. KeptAt(b)
  BY DEF KeptAt, Stays
<1> QED
  BY <1>1, BranchKept

(* A call that opens a branch has it for itself.                           *)
LEMMA Opens ==
  ASSUME Inv, NEW c \in Call, \A d \in Call \ {c} : Stays(d), grows'[c] = NewBranch,
         \A r \in Refresh : branch'[r] \in {branch[r], None}
  PROVE  Single'
<1> SUFFICES ASSUME NEW b \in Branch PROVE SingleAt(b)'
  BY DEF Single
<1>1. \A r \in Refresh : branch'[r] = b => branch[r] = b
  BY SessionConstants
<1>2. CASE b # NewBranch
  BY <1>1, <1>2, OtherBranches
<1>3. CASE b = NewBranch
  <2>1. ~Named(b)
    BY <1>3, NewBranchIsNew
  <2>2. \A r \in Refresh : branch'[r] # b
    BY <1>1, <2>1 DEF Named
  <2>3. \A d \in Call : grows'[d] = b => d = c
    BY <2>1 DEF Named, Stays
  <2> QED
    BY <2>2, <2>3 DEF SingleAt
<1> QED
  BY <1>2, <1>3

(* The steps of a call after it has revoked the old refresh token, and of  *)
(* a request.                                                              *)
LEMMA PassesOn ==
  ASSUME Inv, NEW c \in Call, \A d \in Call \ {c} : Stays(d), branch' = branch,
         \/ grows'[c] = None
         \/ grows'[c] = grows[c] /\ at[c] # "revoke refresh"
  PROVE  Single'
<1> SUFFICES ASSUME NEW b \in Branch PROVE SingleAt(b)'
  BY DEF Single
<1>1. SingleAt(b) /\ b # None
  BY SessionConstants DEF Inv, Single
<1>2. CASE grows'[c] = b
  <2>1. grows[c] = b /\ at[c] # "revoke refresh"
    BY <1>1, <1>2
  <2>2. \A r \in Refresh : branch[r] # b
    BY <1>1, <2>1 DEF SingleAt
  <2>3. KeptAt(b)
    BY <2>1, <2>2 DEF KeptAt, Stays
  <2> QED
    BY <2>3, BranchKept
<1>3. CASE grows'[c] # b
  BY <1>3, OtherBranches
<1> QED
  BY <1>2, <1>3

(* A token that is revoked or expires leaves its branch, and no token      *)
(* enters one.                                                             *)
LEMMA PrunedRows ==
  ASSUME CallsOK, Pruned
  PROVE  /\ \A r \in Refresh : branch'[r] \in {branch[r], None}
         /\ \A r \in Refresh : ~Refreshes(r)' => branch'[r] = None
BY DEF CallsOK, Pruned

(* Each step keeps the one refresh token of every branch.                  *)
LEMMA SingleStep ==
  ASSUME Inv, SessionNext, RowsKept
  PROVE  Single'
<1>0. CallsOK /\ RowsOK /\ Wired /\ Single
  BY TypeParts DEF Inv
<1> USE DEF GoTo
<1>1. CASE \/ \E a \in Admin : CreateAdmin(a) \/ \E s \in {"active", "disabled"} : SetStatus(a, s)
           \/ \E t \in Access : ExpireAccess(t) \/ Logout(t)
           \/ \E r \in Refresh : ExpireRefresh(r)
  <2>1. \A c \in Call : Stays(c)
    BY <1>1, AllStay
  <2>2. branch' = branch \/ Pruned
    BY <1>1 DEF CreateAdmin, SetStatus, ExpireAccess, Logout, ExpireRefresh, history
  <2>3. \A r \in Refresh : branch'[r] \in {branch[r], None}
    BY <1>0, <2>2, PrunedRows
  <2>4. ASSUME NEW b \in Branch PROVE KeptAt(b)
    BY <2>1, <2>3, SessionConstants DEF KeptAt, Stays
  <2> QED
    BY <2>4, BranchKept DEF Single
<1>2. ASSUME NEW c \in Call, NEW a \in Admin, Login(c, a) PROVE Single'
  <2>1. \A d \in Call \ {c} : Stays(d)
    BY <1>2, OthersStay
  <2>2. branch' = branch /\ grows'[c] = NewBranch
    BY <1>0, <1>2 DEF Login, CallsOK
  <2> QED
    BY <2>1, <2>2, Opens
<1>3. ASSUME NEW c \in Call,
             \/ \E t \in Access : Present(c, t)
             \/ RevokeOldAccess(c) \/ CreateAccess(c) \/ FindAccessToken(c) \/ FindAdmin(c)
             \/ End(c)
      PROVE  Single'
  <2>1. \A d \in Call \ {c} : Stays(d)
    BY <1>3, OthersStay
  <2>2. branch' = branch
    BY <1>3 DEF Present, RevokeOldAccess, CreateAccess, FindAccessToken, FindAdmin, End, history
  <2>3. CASE End(c)
    <3>1. grows'[c] = None
      BY <1>0, <2>3 DEF End, Idle, CallsOK
    <3> QED
      BY <2>1, <2>2, <3>1, PassesOn
  <2>4. CASE ~End(c)
    <3>1. grows' = grows /\ at[c] # "revoke refresh"
      BY <1>3, <2>4 DEF Present, RevokeOldAccess, CreateAccess, FindAccessToken, FindAdmin, history
    <3> QED
      BY <2>1, <2>2, <3>1, PassesOn
  <2> QED
    BY <2>3, <2>4
<1>4. ASSUME NEW c \in Call, NEW r \in Refresh, FindRefreshToken(c, r) PROVE Single'
  <2>1. \A d \in Call \ {c} : Stays(d)
    BY <1>4, OthersStay
  <2>2. /\ branch' = branch /\ at'[c] = "revoke refresh" /\ used'[c] = r
        /\ grows'[c] = IF RacedBy(c, r) THEN NewBranch ELSE branch[r]
    BY <1>0, <1>4 DEF FindRefreshToken, CallsOK
  <2>3. CASE RacedBy(c, r)
    BY <2>1, <2>2, <2>3, Opens
  <2>4. CASE ~RacedBy(c, r)
    <3> SUFFICES ASSUME NEW b \in Branch PROVE SingleAt(b)'
      BY DEF Single
    <3>1. CASE b # branch[r]
      BY <2>1, <2>2, <2>4, <3>1, OtherBranches
    <3>2. CASE b = branch[r]
      <4>1. SingleAt(b)
        BY <1>0 DEF Single
      <4>2. \A d \in Call \ {c} : grows[d] # b
        BY <2>4, <3>2, <4>1 DEF SingleAt, RacedBy
      <4>3. \A d \in Call : grows'[d] = b => d = c
        BY <2>1, <4>2 DEF Stays
      <4>4. \A q \in Refresh : branch'[q] = b => q = r
        BY <2>2, <3>2, <4>1 DEF SingleAt
      <4> QED
        BY <2>2, <4>3, <4>4 DEF SingleAt
    <3> QED
      BY <3>1, <3>2
  <2> QED
    BY <2>3, <2>4
<1>5. ASSUME NEW c \in Call, RevokeOldRefresh(c) PROVE Single'
  <2>1. \A d \in Call \ {c} : Stays(d)
    BY <1>5, OthersStay
  <2>2. /\ at[c] = "revoke refresh"
        /\ \/ RevokeRefreshToken(used[c]) /\ grows' = grows
           \/ branch[used[c]] # grows[c] /\ grows' = grows
           \/ grows' = [grows EXCEPT ![c] = NewBranch]
        /\ Pruned
    BY <1>5 DEF RevokeOldRefresh
  <2>3. used[c] \in Refresh /\ refresh[used[c]] # None
    BY <1>0, <2>2 DEF Wired, WiredAt, Refreshing
  <2>4. \A r \in Refresh : branch'[r] \in {branch[r], None}
    BY <1>0, <2>2, PrunedRows
  <2>5. CASE grows' = [grows EXCEPT ![c] = NewBranch]
    BY <1>0, <2>1, <2>4, <2>5, Opens DEF CallsOK
  <2>6. CASE /\ grows' = grows
             /\ RevokeRefreshToken(used[c]) \/ branch[used[c]] # grows[c]
    <3> SUFFICES ASSUME NEW b \in Branch PROVE SingleAt(b)'
      BY DEF Single
    <3>1. \A r \in Refresh : branch'[r] = b => branch[r] = b
      BY <2>4, SessionConstants
    <3>2. CASE grows'[c] # b
      BY <2>1, <3>1, <3>2, OtherBranches
    <3>3. CASE grows'[c] = b
      <4>1. SingleAt(b) /\ grows[c] = b
        BY <1>0, <2>6, <3>3 DEF Single
      <4>2. ASSUME RevokeRefreshToken(used[c]) PROVE branch'[used[c]] = None
        <5>1. ~refresh'[used[c]].live
          BY <1>0, <2>3, <4>2, RefreshDies DEF RowsOK
        <5> QED
          BY <1>0, <2>2, <2>3, <5>1, PrunedRows DEF Refreshes
      <4>3. branch'[used[c]] # b
        BY <2>6, <3>1, <4>1, <4>2, <2>3, SessionConstants
      <4>4. \A r \in Refresh : branch'[r] # b
        BY <3>1, <4>1, <4>3 DEF SingleAt
      <4>5. KeptAt(b)
        BY <2>1, <3>1, <4>1, <4>4 DEF KeptAt, Stays
      <4> QED
        BY <4>5, BranchKept
    <3> QED
      BY <3>2, <3>3
  <2> QED
    BY <2>2, <2>5, <2>6
<1>6. ASSUME NEW c \in Call, CreateRefresh(c) PROVE Single'
  <2>1. \A d \in Call \ {c} : Stays(d)
    BY <1>6, OthersStay
  <2> PICK r \in Refresh : branch' = [branch EXCEPT ![r] = grows[c]]
    BY <1>6 DEF CreateRefresh
  <2>2. at[c] = "create refresh" /\ grows'[c] = None
    BY <1>0, <1>6 DEF CreateRefresh, Idle, CallsOK
  <2>3. /\ \A q \in Refresh \ {r} : branch'[q] = branch[q]
        /\ branch'[r] = grows[c]
    BY <1>0 DEF CallsOK
  <2> SUFFICES ASSUME NEW b \in Branch PROVE SingleAt(b)'
    BY DEF Single
  <2>4. grows'[c] # b
    BY <2>2, SessionConstants
  <2>5. CASE b # grows[c]
    <3>1. \A q \in Refresh : branch'[q] = b => branch[q] = b
      BY <2>3, <2>5
    <3> QED
      BY <2>1, <2>4, <3>1, OtherBranches
  <2>6. CASE b = grows[c]
    <3>1. SingleAt(b)
      BY <1>0 DEF Single
    <3>2. \A q \in Refresh : branch[q] # b
      BY <2>2, <2>6, <3>1 DEF SingleAt
    <3>3. \A q \in Refresh : branch'[q] = b => q = r
      BY <2>3, <3>2
    <3>4. \A d \in Call : grows'[d] # b
      BY <2>1, <2>4, <2>6, <3>1 DEF SingleAt, Stays
    <3> QED
      BY <3>3, <3>4 DEF SingleAt
  <2> QED
    BY <2>5, <2>6
<1> QED
  BY <1>1, <1>2, <1>3, <1>4, <1>5, <1>6, StepCases

-----------------------------------------------------------------------------
(* The invariant is inductive.                                             *)
LEMMA InvStep == Inv /\ [SessionNext]_vars => Inv'
<1> SUFFICES ASSUME Inv, [SessionNext]_vars PROVE Inv'
  OBVIOUS
<1>1. CASE SessionNext
  <2>1. RowsOK' /\ RowsKept
    BY <1>1, RowsStep
  <2>2. CallsOK'
    BY <1>1, TypeStep
  <2>3. SessionTypeOK'
    BY <2>1, <2>2 DEF SessionTypeOK, RowsOK, CallsOK
  <2> QED
    BY <1>1, <2>1, <2>3, WiredStep, KnownStep, RefusedStep, SingleStep DEF Inv
<1>2. CASE UNCHANGED vars
  <2> USE <1>2 DEF vars, rows, local, history, Inv
  <2>1. SessionTypeOK'
    BY DEF SessionTypeOK
  <2>2. Wired' /\ Known'
    BY DEF Wired, WiredAt, Known
  <2>3. Refused'
    BY DEF Refused, RefusedAt, LateAt, BarredAt, ActsAt
  <2>4. Single'
    BY DEF Single, SingleAt
  <2> QED
    BY <2>1, <2>2, <2>3, <2>4
<1> QED
  BY <1>1, <1>2

(* And so it holds in every reachable state.                               *)
LEMMA SessionSafe == SessionSpec => []Inv
BY InitInv, InvStep, PTL DEF SessionSpec

(* The types of the tables and of every call hold in every reachable       *)
(* state.                                                                  *)
THEOREM SessionTypeCorrect == SessionSpec => []SessionTypeOK
<1>1. Inv => SessionTypeOK
  BY DEF Inv
<1> QED
  BY <1>1, SessionSafe, PTL

(* A request whose token is revoked or expired before it reads the row, or *)
(* whose administrator is disabled before it reads theirs, and stays so,   *)
(* is never accepted, with any number of calls in flight.                  *)
THEOREM DeadTokensRefused == SessionSpec => []RevocationIsImmediate
<1>1. Inv => RevocationIsImmediate
  BY DEF Inv, Refused, RefusedAt, LateAt, BarredAt, SessionTypeOK, RevocationIsImmediate
<1> QED
  BY <1>1, SessionSafe, PTL

(* A branch has at most one refresh token that works: however many calls   *)
(* overlap, are dropped or fail, a session has a second one only by a      *)
(* refresh that races another with the same token, or by a revocation that *)
(* fails, each of which opens one branch.                                  *)
THEOREM SessionsDoNotFork == SessionSpec => []OneLivePair
<1>1. Inv => OneLivePair
  BY DEF Inv, SessionTypeOK, Single, SingleAt, OneLivePair
<1> QED
  BY <1>1, SessionSafe, PTL

-----------------------------------------------------------------------------
(* The JWTs of services.                                                   *)

(* What a row grants has lapsed at no time.                                *)
Granted == \A s \in Service : \A r \in Services!Rights(service[s]) : lapsed[s][r] = 0

(* What the row that a call has read granted has lapsed for no longer than *)
(* the call waits since.                                                   *)
WaitsFor(x) ==
  exchange[x] # None =>
    \A r \in Services!Rights(exchange[x].row) :
      lapsed[exchange[x].service][r] <= exchange[x].waited

Waiting == \A x \in Exchange : WaitsFor(x)

JwtsFade == Services!ServiceTypeOK /\ Granted /\ Waiting /\ AccessFadesOut

(* What a row grants is a secret with a scope.                             *)
LEMMA RightsType ==
  ASSUME NEW row \in Services!Row \cup {None}
  PROVE  Services!Rights(row) \subseteq Services!Secret \X Scope
BY DEF Services!Rights, Services!Row

LEMMA FieldsType ==
  ASSUME NEW k \in Services!Secret, NEW scopes \in SUBSET Scope, NEW active \in BOOLEAN
  PROVE  Services!Fields(k, scopes, active) \in Services!Row
BY DEF Services!Fields, Services!Row

(* A statement on the row of a service, whoever makes it: what is granted  *)
(* has not lapsed, and what has lapsed for some time is not set back while *)
(* it is not granted.                                                      *)
LEMMA WriteKeeps ==
  ASSUME JwtsFade, NEW s \in Service, NEW row \in Services!Row, Services!Write(s, row),
         UNCHANGED <<exchange, jwt>>
  PROVE  /\ service' \in [Service -> Services!Row \cup {None}]
         /\ lapsed' \in [Service -> [Services!Secret \X Scope -> 0 .. Lifetime + 1]]
         /\ Granted' /\ Waiting' /\ AccessFadesOut'
<1> DEFINE Pairs == Services!Secret \X Scope
<1>1. /\ service \in [Service -> Services!Row \cup {None}]
      /\ lapsed \in [Service -> [Pairs -> 0 .. Lifetime + 1]]
      /\ jwt \in [Jwt -> Services!Token \cup {None}]
      /\ exchange \in [Exchange -> Services!Reading \cup {None}]
  BY DEF JwtsFade, Services!ServiceTypeOK
<1>2. Lifetime \in Nat
  BY AccessConstants
<1>3. Services!Rights(row) \subseteq Pairs
  BY RightsType
<1>4. service' = [service EXCEPT ![s] = row]
  BY DEF Services!Write
<1>5. lapsed' = [lapsed EXCEPT ![s] = [r \in Pairs |->
                   IF r \in Services!Rights(row) THEN 0 ELSE lapsed[s][r]]]
  BY DEF Services!Write
<1> HIDE DEF Pairs
<1>6. service' \in [Service -> Services!Row \cup {None}]
  BY <1>1, <1>4
<1>7. lapsed' \in [Service -> [Pairs -> 0 .. Lifetime + 1]]
  BY <1>1, <1>2, <1>5
<1>8. \A q \in Service : \A r \in Pairs :
        lapsed'[q][r] = IF q = s /\ r \in Services!Rights(row) THEN 0 ELSE lapsed[q][r]
  BY <1>1, <1>5
<1>9. Granted'
  <2> SUFFICES ASSUME NEW q \in Service, NEW r \in Services!Rights(service'[q])
               PROVE  lapsed'[q][r] = 0
    BY DEF Granted, Services!Rights
  <2>1. CASE q = s
    BY <2>1, <1>1, <1>3, <1>4, <1>8
  <2>2. CASE q # s
    <3>1. service'[q] = service[q]
      BY <2>2, <1>1, <1>4
    <3>2. r \in Pairs
      BY <3>1, <1>1, RightsType DEF Pairs
    <3>3. lapsed[q][r] = 0
      BY <3>1 DEF JwtsFade, Granted
    <3> QED
      BY <2>2, <3>2, <3>3, <1>8
  <2> QED
    BY <2>1, <2>2
<1>10. AccessFadesOut'
  <2> SUFFICES ASSUME NEW j \in Jwt, jwt[j] # None, NEW x \in jwt[j].scopes
               PROVE  jwt[j].left + lapsed'[jwt[j].service][<<jwt[j].secret, x>>]
                        <= Lifetime + jwt[j].delay
    BY DEF AccessFadesOut
  <2> DEFINE q == jwt[j].service
             r == <<jwt[j].secret, x>>
  <2>1. jwt[j] \in Services!Token
    BY <1>1
  <2>2. /\ q \in Service /\ r \in Pairs
        /\ jwt[j].left \in 0 .. Lifetime /\ jwt[j].delay \in 0 .. Lifetime + 1
    BY <2>1 DEF Services!Token, Pairs
  <2>3. jwt[j].left + lapsed[q][r] <= Lifetime + jwt[j].delay
    BY DEF JwtsFade, AccessFadesOut
  <2>4. lapsed'[q][r] \in {0, lapsed[q][r]} /\ lapsed[q][r] \in 0 .. Lifetime + 1
    BY <1>1, <2>2, <1>8
  <2> HIDE DEF q, r
  <2>5. jwt[j].left + lapsed'[q][r] <= Lifetime + jwt[j].delay
    BY <2>2, <2>3, <2>4, <1>2
  <2> QED
    BY <2>5 DEF q, r
<1>11. Waiting'
  <2> SUFFICES ASSUME NEW x \in Exchange, exchange[x] # None,
                      NEW r \in Services!Rights(exchange[x].row)
               PROVE  lapsed'[exchange[x].service][r] <= exchange[x].waited
    BY DEF Waiting, WaitsFor, Services!Rights
  <2> DEFINE q == exchange[x].service
             w == exchange[x].waited
  <2>1. exchange[x] \in Services!Reading
    BY <1>1
  <2>2. q \in Service /\ exchange[x].row \in Services!Row /\ w \in 0 .. Lifetime + 1
    BY <2>1 DEF Services!Reading
  <2>3. r \in Pairs
    BY <2>2, RightsType DEF Pairs
  <2>4. lapsed[q][r] <= w
    BY DEF JwtsFade, Waiting, WaitsFor
  <2>5. lapsed'[q][r] \in {0, lapsed[q][r]}
    BY <2>2, <2>3, <1>8
  <2> HIDE DEF q, w
  <2>6. lapsed'[q][r] <= w
    BY <2>2, <2>4, <2>5, <1>2
  <2> QED
    BY <2>6 DEF q, w
<1> QED
  BY <1>6, <1>7, <1>9, <1>10, <1>11 DEF Pairs

(* A token is issued on what the row grants at that moment, or granted     *)
(* when the call read it.                                                  *)
LEMMA IssueKeeps ==
  ASSUME JwtsFade, NEW c \in Exchange, NEW j \in Jwt, Services!Issue(c, j)
  PROVE  JwtsFade'
<1> DEFINE s   == exchange[c].service
           row == exchange[c].row
           wait == IF service[s] = row THEN 0 ELSE exchange[c].waited
           new == [service |-> s, secret |-> row.secret, scopes |-> row.scopes,
                   left |-> Lifetime, delay |-> wait]
<1>1. /\ exchange \in [Exchange -> Services!Reading \cup {None}]
      /\ jwt \in [Jwt -> Services!Token \cup {None}]
  BY DEF JwtsFade, Services!ServiceTypeOK
<1>2. Lifetime \in Nat
  BY AccessConstants
<1>3. /\ exchange[c] # None /\ row.active
      /\ jwt' = [jwt EXCEPT ![j] = new]
      /\ exchange' = [exchange EXCEPT ![c] = None]
      /\ UNCHANGED <<service, edit, lapsed>>
  BY DEF Services!Issue, Services!Passes, Services!Forget
<1>4. s \in Service /\ row \in Services!Row /\ exchange[c].waited \in 0 .. Lifetime + 1
  BY <1>1, <1>3 DEF Services!Reading
<1>5. wait \in 0 .. Lifetime + 1
  BY <1>2, <1>4
<1>6. \A x \in row.scopes :
        lapsed[s][<<row.secret, x>>] <= wait
  <2> SUFFICES ASSUME NEW x \in row.scopes
               PROVE  lapsed[s][<<row.secret, x>>] <= wait
    OBVIOUS
  <2>1. row # None
    BY <1>4, AccessConstants
  <2>2. <<row.secret, x>> \in Services!Rights(row)
    BY <2>1, <1>3 DEF Services!Rights
  <2>3. CASE service[s] = row
    <3>1. lapsed[s][<<row.secret, x>>] = 0
      BY <2>2, <2>3, <1>4 DEF JwtsFade, Granted
    <3> QED
      BY <2>3, <3>1
  <2>4. CASE service[s] # row
    <3>1. lapsed[s][<<row.secret, x>>] <= exchange[c].waited
      BY <2>2, <1>3 DEF JwtsFade, Waiting, WaitsFor
    <3> QED
      BY <2>4, <3>1
  <2> QED
    BY <2>3, <2>4
<1> HIDE DEF wait
<1>7. new \in Services!Token
  BY <1>2, <1>4, <1>5 DEF Services!Token, Services!Row
<1>8. Services!ServiceTypeOK'
  <2>1. jwt' \in [Jwt -> Services!Token \cup {None}]
    BY <1>1, <1>3, <1>7
  <2>2. exchange' \in [Exchange -> Services!Reading \cup {None}]
    BY <1>1, <1>3
  <2> QED
    BY <2>1, <2>2, <1>3 DEF JwtsFade, Services!ServiceTypeOK
<1>9. Granted'
  BY <1>3 DEF JwtsFade, Granted, Services!Rights
<1>10. Waiting'
  <2>1. \A x \in Exchange : exchange'[x] # None => exchange'[x] = exchange[x]
    BY <1>1, <1>3
  <2> QED
    BY <2>1, <1>3 DEF JwtsFade, Waiting, WaitsFor, Services!Rights
<1>11. AccessFadesOut'
  <2> SUFFICES ASSUME NEW i \in Jwt, jwt'[i] # None, NEW x \in jwt'[i].scopes
               PROVE  jwt'[i].left + lapsed[jwt'[i].service][<<jwt'[i].secret, x>>]
                        <= Lifetime + jwt'[i].delay
    BY <1>3 DEF AccessFadesOut
  <2>1. CASE i = j
    <3>1. jwt'[i] = new
      BY <2>1, <1>1, <1>3
    <3>2. <<row.secret, x>> \in Services!Secret \X Scope
      BY <3>1, <1>4 DEF Services!Row
    <3>3. lapsed[s][<<row.secret, x>>] \in 0 .. Lifetime + 1
      BY <3>2, <1>4 DEF JwtsFade, Services!ServiceTypeOK
    <3>4. Lifetime + lapsed[s][<<row.secret, x>>] <= Lifetime + wait
      BY <3>1, <3>3, <1>2, <1>5, <1>6
    <3> QED
      BY <3>1, <3>4
  <2>2. CASE i # j
    <3>1. jwt'[i] = jwt[i]
      BY <2>2, <1>1, <1>3
    <3> QED
      BY <3>1 DEF JwtsFade, AccessFadesOut
  <2> QED
    BY <2>1, <2>2
<1> QED
  BY <1>8, <1>9, <1>10, <1>11 DEF JwtsFade

(* While the clock goes on, a token loses what a lapsed right gains.       *)
LEMMA TickKeeps ==
  ASSUME JwtsFade, Services!Tick
  PROVE  JwtsFade'
<1> DEFINE Pairs == Services!Secret \X Scope
<1>1. /\ service \in [Service -> Services!Row \cup {None}]
      /\ lapsed \in [Service -> [Pairs -> 0 .. Lifetime + 1]]
      /\ jwt \in [Jwt -> Services!Token \cup {None}]
      /\ exchange \in [Exchange -> Services!Reading \cup {None}]
  BY DEF JwtsFade, Services!ServiceTypeOK
<1>2. Lifetime \in Nat
  BY AccessConstants
<1>3. /\ jwt' = [j \in Jwt |-> IF jwt[j] = None \/ jwt[j].left = 0 THEN None
                               ELSE Services!Aged(jwt[j])]
      /\ lapsed' = [s \in Service |-> [r \in Pairs |->
                       IF r \in Services!Rights(service[s]) THEN lapsed[s][r]
                       ELSE Services!OneMore(lapsed[s][r])]]
      /\ exchange' = [x \in Exchange |-> IF exchange[x] = None THEN None
                                          ELSE Services!Waits(exchange[x])]
      /\ UNCHANGED <<service, edit>>
  BY DEF Services!Tick
<1> HIDE DEF Pairs
<1>4. \A j \in Jwt : jwt[j] # None /\ jwt[j].left # 0 => Services!Aged(jwt[j]) \in Services!Token
  <2> SUFFICES ASSUME NEW j \in Jwt, jwt[j] # None, jwt[j].left # 0
               PROVE  Services!Aged(jwt[j]) \in Services!Token
    OBVIOUS
  <2>1. jwt[j] \in Services!Token
    BY <1>1
  <2>2. jwt[j].left - 1 \in 0 .. Lifetime
    BY <2>1, <1>2 DEF Services!Token
  <2> QED
    BY <2>1, <2>2 DEF Services!Token, Services!Aged
<1>5. jwt' \in [Jwt -> Services!Token \cup {None}]
  BY <1>3, <1>4
<1>6. \A s \in Service, r \in Pairs :
        /\ lapsed[s][r] \in 0 .. Lifetime + 1
        /\ lapsed'[s][r] = IF r \in Services!Rights(service[s]) THEN lapsed[s][r]
                           ELSE Services!OneMore(lapsed[s][r])
  BY <1>1, <1>3
<1>m. \A n \in 0 .. Lifetime + 1 :
        /\ Services!OneMore(n) \in 0 .. Lifetime + 1
        /\ n <= Services!OneMore(n) /\ Services!OneMore(n) <= n + 1
        /\ \A m \in 0 .. n : Services!OneMore(m) <= Services!OneMore(n)
  BY <1>2 DEF Services!OneMore
<1>7. \A s \in Service, r \in Pairs :
        /\ lapsed'[s][r] \in 0 .. Lifetime + 1
        /\ lapsed'[s][r] <= lapsed[s][r] + 1
        /\ lapsed'[s][r] <= Services!OneMore(lapsed[s][r])
  BY <1>2, <1>6, <1>m
<1>8. lapsed' \in [Service -> [Pairs -> 0 .. Lifetime + 1]]
  <2>1. /\ lapsed' = [s \in Service |-> lapsed'[s]]
        /\ \A s \in Service : lapsed'[s] = [r \in Pairs |-> lapsed'[s][r]]
    BY <1>3
  <2> QED
    BY <2>1, <1>7
<1>12. exchange' \in [Exchange -> Services!Reading \cup {None}]
  <2> SUFFICES ASSUME NEW x \in Exchange, exchange[x] # None
               PROVE  Services!Waits(exchange[x]) \in Services!Reading
    BY <1>3
  <2>1. exchange[x] \in Services!Reading
    BY <1>1
  <2>2. Services!OneMore(exchange[x].waited) \in 0 .. Lifetime + 1
    BY <2>1, <1>m DEF Services!Reading
  <2> QED
    BY <2>1, <2>2 DEF Services!Reading, Services!Waits
<1>9. Services!ServiceTypeOK'
  BY <1>3, <1>5, <1>8, <1>12 DEF JwtsFade, Services!ServiceTypeOK, Pairs
<1>10. Granted'
  <2> SUFFICES ASSUME NEW s \in Service, NEW r \in Services!Rights(service[s])
               PROVE  lapsed'[s][r] = 0
    BY <1>3 DEF Granted, Services!Rights
  <2>1. r \in Pairs
    BY <1>1, RightsType DEF Pairs
  <2>2. lapsed[s][r] = 0
    BY DEF JwtsFade, Granted
  <2> QED
    BY <2>1, <2>2, <1>6
<1>11. AccessFadesOut'
  <2> SUFFICES ASSUME NEW j \in Jwt, jwt'[j] # None, NEW x \in jwt'[j].scopes
               PROVE  jwt'[j].left + lapsed'[jwt'[j].service][<<jwt'[j].secret, x>>]
                        <= Lifetime + jwt'[j].delay
    BY DEF AccessFadesOut
  <2>1. jwt[j] # None /\ jwt[j].left # 0 /\ jwt'[j] = Services!Aged(jwt[j])
    BY <1>3
  <2>2. jwt[j] \in Services!Token
    BY <2>1, <1>1
  <2>3. /\ jwt'[j].service = jwt[j].service /\ jwt'[j].secret = jwt[j].secret
        /\ jwt'[j].scopes = jwt[j].scopes /\ jwt'[j].delay = jwt[j].delay
        /\ jwt'[j].left = jwt[j].left - 1
    BY <2>1 DEF Services!Aged
  <2> DEFINE s == jwt[j].service
             r == <<jwt[j].secret, x>>
  <2>4. /\ s \in Service /\ r \in Pairs
        /\ jwt[j].left \in 0 .. Lifetime /\ jwt[j].delay \in 0 .. Lifetime + 1
    BY <2>2, <2>3 DEF Services!Token, Pairs
  <2>5. jwt[j].left + lapsed[s][r] <= Lifetime + jwt[j].delay
    BY <2>1, <2>3 DEF JwtsFade, AccessFadesOut
  <2>6. lapsed[s][r] \in 0 .. Lifetime + 1 /\ lapsed'[s][r] \in 0 .. Lifetime + 1
        /\ lapsed'[s][r] <= lapsed[s][r] + 1
    BY <2>4, <1>6, <1>7
  <2> HIDE DEF s, r
  <2>7. jwt[j].left - 1 + lapsed'[s][r] <= Lifetime + jwt[j].delay
    BY <2>4, <2>5, <2>6, <1>2
  <2> QED
    BY <2>3, <2>7 DEF s, r
<1>13. Waiting'
  <2> SUFFICES ASSUME NEW x \in Exchange, exchange'[x] # None,
                      NEW r \in Services!Rights(exchange'[x].row)
               PROVE  lapsed'[exchange'[x].service][r] <= exchange'[x].waited
    BY DEF Waiting, WaitsFor, Services!Rights
  <2>1. exchange[x] # None /\ exchange'[x] = Services!Waits(exchange[x])
    BY <1>3
  <2>2. exchange[x] \in Services!Reading
    BY <2>1, <1>1
  <2> DEFINE s == exchange[x].service
             w == exchange[x].waited
  <2>3. /\ exchange'[x].service = s /\ exchange'[x].row = exchange[x].row
        /\ exchange'[x].waited = Services!OneMore(w)
    BY <2>1 DEF Services!Waits
  <2>4. s \in Service /\ exchange[x].row \in Services!Row /\ w \in 0 .. Lifetime + 1
    BY <2>2 DEF Services!Reading
  <2>5. r \in Pairs
    BY <2>3, <2>4, RightsType DEF Pairs
  <2>6. lapsed[s][r] <= w
    BY <2>1, <2>3 DEF JwtsFade, Waiting, WaitsFor, Services!Rights
  <2>7. lapsed'[s][r] <= Services!OneMore(lapsed[s][r]) /\ lapsed[s][r] \in 0 .. Lifetime + 1
        /\ lapsed'[s][r] \in 0 .. Lifetime + 1
    BY <2>4, <2>5, <1>6, <1>7
  <2> HIDE DEF s, w
  <2>8. lapsed[s][r] \in 0 .. w
    BY <2>4, <2>6, <2>7, <1>2
  <2>9. Services!OneMore(lapsed[s][r]) <= Services!OneMore(w)
    BY <2>4, <2>8, <1>m
  <2>10. Services!OneMore(lapsed[s][r]) \in 0 .. Lifetime + 1
         /\ Services!OneMore(w) \in 0 .. Lifetime + 1
    BY <2>4, <2>7, <1>m
  <2>11. lapsed'[s][r] <= Services!OneMore(w)
    BY <2>7, <2>9, <2>10, <1>2
  <2> QED
    BY <2>3, <2>11 DEF s, w
<1> QED
  BY <1>9, <1>10, <1>11, <1>13 DEF JwtsFade

(* Every step of a service, a call or the clock.                           *)
LEMMA ServiceStep == JwtsFade /\ Services!ServiceNext => JwtsFade'
<1> SUFFICES ASSUME JwtsFade, Services!ServiceNext PROVE JwtsFade'
  OBVIOUS
<1> DEFINE Rows      == service \in [Service -> Services!Row \cup {None}]
           Exchanges == exchange \in [Exchange -> Services!Reading \cup {None}] /\ Waiting
           Edits     == edit \in [Edit -> [service : Service, scopes : SUBSET Scope] \cup {None}]
           Tokens    == jwt \in [Jwt -> Services!Token \cup {None}]
           Times     == lapsed \in [Service -> [Services!Secret \X Scope -> 0 .. Lifetime + 1]]
<1>1. Rows /\ Exchanges /\ Edits /\ Tokens /\ Times
  BY DEF JwtsFade, Services!ServiceTypeOK
<1>2. ASSUME NEW s \in Service, NEW row \in Services!Row, Services!Write(s, row),
             UNCHANGED <<exchange, jwt>>, Edits'
      PROVE  JwtsFade'
  <2>1. Rows' /\ Times' /\ Granted' /\ Waiting' /\ AccessFadesOut'
    BY <1>2, WriteKeeps
  <2>2. Tokens' /\ exchange' \in [Exchange -> Services!Reading \cup {None}]
    BY <1>1, <1>2
  <2> QED
    BY <1>2, <2>1, <2>2 DEF JwtsFade, Services!ServiceTypeOK
<1>3. ASSUME NEW s \in Service, service[s] # None
      PROVE  /\ service[s].secret \in Services!Secret /\ service[s].scopes \in SUBSET Scope
             /\ service[s].active \in BOOLEAN
  BY <1>1, <1>3 DEF Services!Row
<1>4. ASSUME NEW s \in Service, NEW active \in BOOLEAN, Services!SetStatus(s, active),
             UNCHANGED <<exchange, jwt>>, Edits'
      PROVE  JwtsFade'
  <2> DEFINE row == Services!Fields(service[s].secret, service[s].scopes, active)
  <2>1. row \in Services!Row
    BY <1>3, <1>4, FieldsType DEF Services!SetStatus
  <2> QED
    BY <1>2, <1>4, <2>1 DEF Services!SetStatus
<1>5. ASSUME NEW s \in Service, NEW scopes \in SUBSET Scope, Services!UpdateScopes(s, scopes),
             UNCHANGED <<exchange, jwt>>, Edits'
      PROVE  JwtsFade'
  <2> DEFINE row == Services!Fields(service[s].secret, scopes, service[s].active)
  <2>1. row \in Services!Row
    BY <1>3, <1>5, FieldsType DEF Services!UpdateScopes
  <2> QED
    BY <1>2, <1>5, <2>1 DEF Services!UpdateScopes
<1>6. ASSUME UNCHANGED <<service, jwt, lapsed>>, Exchanges', Edits'
      PROVE  JwtsFade'
  <2>1. Rows' /\ Tokens' /\ Times'
    BY <1>1, <1>6
  <2>2. Granted' /\ AccessFadesOut'
    BY <1>6 DEF JwtsFade, Granted, AccessFadesOut, Services!Rights
  <2> QED
    BY <1>6, <2>1, <2>2 DEF JwtsFade, Services!ServiceTypeOK
<1>7. ASSUME NEW s \in Service, NEW scopes \in SUBSET Scope, Services!CreateService(s, scopes)
      PROVE  JwtsFade'
  <2> DEFINE row == Services!Fields(0, scopes, TRUE)
  <2>1. row \in Services!Row
    <3>1. 0 \in Services!Secret
      BY AccessConstants DEF Services!Secret
    <3> QED
      BY <3>1, FieldsType
  <2>2. Services!Write(s, row) /\ UNCHANGED <<exchange, edit, jwt>>
    BY <1>7 DEF Services!CreateService, Services!Insert
  <2> QED
    BY <1>1, <1>2, <2>1, <2>2
<1>8. ASSUME NEW s \in Service, NEW active \in BOOLEAN, Services!Switch(s, active)
      PROVE  JwtsFade'
  BY <1>1, <1>4, <1>8 DEF Services!Switch
<1>9. ASSUME NEW e \in Edit, NEW s \in Service, NEW active \in BOOLEAN,
             NEW scopes \in SUBSET Scope, Services!SwitchFirst(e, s, active, scopes)
      PROVE  JwtsFade'
  <2>1. /\ Services!SetStatus(s, active) /\ UNCHANGED <<exchange, jwt>>
        /\ edit' = [edit EXCEPT ![e] = [service |-> s, scopes |-> scopes]]
    BY <1>9 DEF Services!SwitchFirst
  <2>2. Edits'
    BY <1>1, <2>1
  <2> QED
    BY <1>1, <1>4, <2>1, <2>2
<1>10. ASSUME NEW e \in Edit, Services!RescopeThen(e)
       PROVE  JwtsFade'
  <2>1. /\ edit[e] # None /\ UNCHANGED <<exchange, jwt>>
        /\ Services!UpdateScopes(edit[e].service, edit[e].scopes)
        /\ edit' = [edit EXCEPT ![e] = None]
    BY <1>10 DEF Services!RescopeThen
  <2>2. edit[e].service \in Service /\ edit[e].scopes \in SUBSET Scope
    BY <1>1, <2>1
  <2>3. Edits'
    BY <1>1, <2>1
  <2> QED
    BY <1>1, <1>5, <2>1, <2>2, <2>3
<1>11. ASSUME NEW e \in Edit, Services!HalfDone(e)
       PROVE  JwtsFade'
  <2>1. Edits'
    BY <1>1, <1>11 DEF Services!HalfDone
  <2>2. Exchanges'
    BY <1>1, <1>11 DEF Services!HalfDone, Waiting, WaitsFor, Services!Rights
  <2> QED
    BY <1>1, <1>6, <1>11, <2>1, <2>2 DEF Services!HalfDone
<1>12. ASSUME NEW s \in Service, NEW scopes \in SUBSET Scope, Services!Rescope(s, scopes)
       PROVE  JwtsFade'
  BY <1>1, <1>5, <1>12 DEF Services!Rescope
<1>13. ASSUME NEW s \in Service, Services!ResetServiceSecret(s)
       PROVE  JwtsFade'
  <2> DEFINE row == Services!Fields(service[s].secret + 1, service[s].scopes, service[s].active)
  <2>1. /\ service[s] # None /\ service[s].secret < Resets
        /\ Services!Write(s, row) /\ UNCHANGED <<exchange, edit, jwt>>
    BY <1>13 DEF Services!ResetServiceSecret, Services!ResetSecret
  <2>2. service[s].secret + 1 \in Services!Secret
    BY <1>3, <2>1, AccessConstants DEF Services!Secret
  <2>3. row \in Services!Row
    BY <1>3, <2>1, <2>2, FieldsType
  <2> QED
    BY <1>1, <1>2, <2>1, <2>3
<1>14. ASSUME NEW c \in Exchange, NEW s \in Service, NEW k \in Services!Secret,
              Services!FindAuth(c, s, k)
       PROVE  JwtsFade'
  <2>1. /\ service[s] # None /\ UNCHANGED <<service, edit, jwt, lapsed>>
        /\ exchange' = [exchange EXCEPT ![c] =
                          [service |-> s, secret |-> k, row |-> service[s], waited |-> 0]]
    BY <1>14 DEF Services!FindAuth
  <2>2. service[s] \in Services!Row
    BY <1>1, <2>1
  <2> DEFINE new == [service |-> s, secret |-> k, row |-> service[s], waited |-> 0]
  <2>3. new \in Services!Reading
    BY <2>2, AccessConstants DEF Services!Reading
  <2>4. exchange' \in [Exchange -> Services!Reading \cup {None}]
    BY <1>1, <2>1, <2>3
  <2>5. WaitsFor(c)'
    <3>1. exchange'[c] = new
      BY <1>1, <2>1
    <3>2. \A r \in Services!Rights(service[s]) : lapsed[s][r] = 0
      BY DEF JwtsFade, Granted
    <3> QED
      BY <2>1, <3>1, <3>2 DEF WaitsFor, Services!Rights
  <2>6. ASSUME NEW x \in Exchange, x # c PROVE WaitsFor(x)'
    <3>1. exchange'[x] = exchange[x]
      BY <1>1, <2>1, <2>6
    <3> QED
      BY <1>1, <2>1, <3>1 DEF Waiting, WaitsFor, Services!Rights
  <2>7. Exchanges'
    BY <2>4, <2>5, <2>6 DEF Waiting
  <2> QED
    BY <1>1, <1>6, <2>1, <2>7
<1>15. ASSUME NEW c \in Exchange, Services!Leave(c)
       PROVE  JwtsFade'
  <2>1. UNCHANGED <<service, edit, jwt, lapsed>> /\ exchange' = [exchange EXCEPT ![c] = None]
    BY <1>15 DEF Services!Leave, Services!Forget
  <2>2. \A x \in Exchange : exchange'[x] # None => exchange'[x] = exchange[x]
    BY <1>1, <2>1
  <2>3. Exchanges'
    BY <1>1, <2>1, <2>2 DEF Waiting, WaitsFor, Services!Rights
  <2> QED
    BY <1>1, <1>6, <2>1, <2>3
<1> HIDE DEF Rows, Exchanges, Edits, Tokens, Times
<1> QED
  BY <1>7, <1>8, <1>9, <1>10, <1>11, <1>12, <1>13, <1>14, <1>15, IssueKeeps, TickKeeps
     DEF Services!ServiceNext

LEMMA JwtInit == AccessInit => JwtsFade
<1> SUFFICES ASSUME AccessInit PROVE JwtsFade
  OBVIOUS
<1>1. /\ service  = [s \in Service |-> None] /\ exchange = [c \in Exchange |-> None]
      /\ edit = [e \in Edit |-> None]       /\ jwt = [j \in Jwt |-> None]
      /\ lapsed = [s \in Service |-> [r \in Services!Secret \X Scope |-> Lifetime + 1]]
  BY DEF AccessInit, Services!ServiceInit
<1>2. Lifetime + 1 \in 0 .. Lifetime + 1
  BY AccessConstants
<1>3. Services!ServiceTypeOK
  BY <1>1, <1>2 DEF Services!ServiceTypeOK
<1>4. Granted
  BY <1>1 DEF Granted, Services!Rights
<1>5. AccessFadesOut
  BY <1>1 DEF AccessFadesOut
<1>6. Waiting
  BY <1>1 DEF Waiting, WaitsFor
<1> QED
  BY <1>3, <1>4, <1>5, <1>6 DEF JwtsFade

(* A step of the sessions leaves the services alone.                       *)
LEMMA ServicesKeep == JwtsFade /\ [AccessNext]_<<vars, serviceVars>> => JwtsFade'
<1> SUFFICES ASSUME JwtsFade, [AccessNext]_<<vars, serviceVars>> PROVE JwtsFade'
  OBVIOUS
<1>1. CASE Services!ServiceNext
  BY <1>1, ServiceStep
<1>2. CASE UNCHANGED serviceVars
  <2>1. UNCHANGED <<service, exchange, edit, jwt, lapsed>>
    BY <1>2 DEF serviceVars
  <2> QED
    BY <2>1 DEF JwtsFade, Services!ServiceTypeOK, Granted, Waiting, WaitsFor, AccessFadesOut,
                Services!Rights
<1> QED
  BY <1>1, <1>2 DEF AccessNext

(* However administrators edit a service while it exchanges its secret,    *)
(* the access that its row no longer grants fades out with the tokens, for *)
(* any number of services, calls, secrets, scopes and tokens, and any      *)
(* lifetime.                                                               *)
THEOREM WithdrawnAccessFades == AccessSpec => []AccessFadesOut
<1>1. JwtsFade /\ [AccessNext]_<<vars, serviceVars>> => JwtsFade'
  BY ServicesKeep
<1>2. JwtsFade => AccessFadesOut
  BY DEF JwtsFade
<1> QED
  BY <1>1, <1>2, JwtInit, PTL DEF AccessSpec

(* What is proved of the sessions holds beside the services.               *)
LEMMA SessionsBeside == AccessSpec => SessionSpec
<1>1. AccessInit => SessionInit
  BY DEF AccessInit
<1>2. [AccessNext]_<<vars, serviceVars>> => [SessionNext]_vars
  BY DEF AccessNext
<1> QED
  BY <1>1, <1>2, PTL DEF AccessSpec, SessionSpec

(* The types of both ways in hold in every reachable state.                *)
THEOREM AccessTypeCorrect == AccessSpec => []AccessTypeOK
<1>1. JwtsFade /\ [AccessNext]_<<vars, serviceVars>> => JwtsFade'
  BY ServicesKeep
<1>2. JwtsFade /\ SessionTypeOK => AccessTypeOK
  BY DEF JwtsFade, AccessTypeOK
<1> QED
  BY <1>1, <1>2, JwtInit, SessionsBeside, SessionTypeCorrect, PTL DEF AccessSpec
=============================================================================
