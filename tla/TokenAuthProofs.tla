-------------------------- MODULE TokenAuthProofs --------------------------
(* Proofs about API token authentication, for any tokens, accounts and     *)
(* number of requests in flight.                                           *)
EXTENDS TokenAuth, TLAPS

(* Every step is one of the actions; the lemmas below cite it.             *)
LEMMA StepCases ==
  ASSUME AuthNext
  PROVE \/ \E a \in Account : CreateAccount(a) \/ UpdateAccount(a)
        \/ \E t \in Token, a \in Account : CreateToken(t, a)
        \/ \E t \in Token : RevokeToken(t) \/ Expire(t)
        \/ \E r \in Request, t \in Token : Arrive(r, t)
        \/ \E r \in Request : Hit(r) \/ Miss(r) \/ ReadRow(r) \/ ReadFails(r) \/ Fill(r) \/ Leave(r)
BY DEF AuthNext, Authenticate, UpdateAccount, DeleteAccount

LEMMA TypeInit == AuthInit => AuthTypeOK
BY AuthConstants DEF AuthInit, AuthTypeOK, TokenRow, TokenInfo

LEMMA TypeStep == AuthTypeOK /\ [AuthNext]_vars => AuthTypeOK'
<1> SUFFICES ASSUME AuthTypeOK, [AuthNext]_vars PROVE AuthTypeOK'
  OBVIOUS
<1> USE AuthConstants DEF AuthTypeOK, TokenRow, TokenInfo, tables, local
<1>1. CASE \E a \in Account : CreateAccount(a) \/ UpdateAccount(a)
  BY <1>1 DEF CreateAccount, UpdateAccount, SetAccountStatus
<1>2. CASE \E t \in Token, a \in Account : CreateToken(t, a)
  BY <1>2 DEF CreateToken, InsertToken
<1>3. CASE \E t \in Token : RevokeToken(t)
  <2> PICK t \in Token : RevokeToken(t)
    BY <1>3
  <2>1. token[t] \in TokenRow /\ [token[t] EXCEPT !.status = "revoked"] \in TokenRow
    BY Zenon DEF RevokeToken, Revoke, TokenRow
  <2>2. token' \in [Token -> TokenRow \cup {None}]
    BY <2>1 DEF RevokeToken, Revoke
  <2> QED
    BY <2>2 DEF RevokeToken
<1>4. CASE \E t \in Token : Expire(t)
  BY <1>4 DEF Expire
<1>5. CASE \E r \in Request, t \in Token : Arrive(r, t)
  BY <1>5 DEF Arrive
<1>6. CASE \E r \in Request : Hit(r)
  BY <1>6 DEF Hit
<1>7. CASE \E r \in Request : Miss(r) \/ ReadFails(r)
  BY <1>7 DEF Miss, ReadFails
<1>8. CASE \E r \in Request : ReadRow(r)
  BY <1>8 DEF ReadRow, Passes, FindByHash
<1>9. CASE \E r \in Request : Fill(r)
  BY <1>9 DEF Fill, CacheSet
<1>10. CASE \E r \in Request : Leave(r)
  BY <1>10 DEF Leave
<1>11. CASE UNCHANGED vars
  BY <1>11 DEF vars
<1> QED
  BY <1>1, <1>2, <1>3, <1>4, <1>5, <1>6, <1>7, <1>8, <1>9, <1>10, <1>11, StepCases

(* The types hold in every reachable state of AuthSpec.                    *)
THEOREM AuthTypeCorrect == AuthSpec => []AuthTypeOK
BY TypeInit, TypeStep, PTL DEF AuthSpec

LEMMA OwnerInit == AuthInit => ActsForItsOwner
BY DEF AuthInit, ActsForItsOwner

LEMMA OwnerStep == AuthTypeOK /\ ActsForItsOwner /\ [AuthNext]_vars => ActsForItsOwner'
<1> SUFFICES ASSUME AuthTypeOK, ActsForItsOwner, [AuthNext]_vars PROVE ActsForItsOwner'
  OBVIOUS
<1> USE AuthConstants DEF AuthTypeOK, ActsForItsOwner, ListByAccount, TokenRow, TokenInfo, tables, local
<1>1. CASE \E a \in Account : CreateAccount(a) \/ UpdateAccount(a)
  BY <1>1 DEF CreateAccount, UpdateAccount, SetAccountStatus
<1>2. CASE \E t \in Token, a \in Account : CreateToken(t, a)
  BY <1>2 DEF CreateToken, InsertToken
<1>3. CASE \E t \in Token : RevokeToken(t)
  <2> PICK t \in Token : RevokeToken(t)
    BY <1>3
  <2>1. token[t] \in TokenRow
    BY DEF RevokeToken, Revoke
  <2>2. \A s \in Token : /\ (token'[s] = None) <=> (token[s] = None)
                         /\ token[s] # None => token'[s].account = token[s].account
    BY <2>1, Zenon DEF RevokeToken, Revoke
  <2> QED
    BY <2>2 DEF RevokeToken
<1>4. CASE \E t \in Token : Expire(t)
  BY <1>4 DEF Expire
<1>5. CASE \E r \in Request, t \in Token : Arrive(r, t)
  BY <1>5 DEF Arrive
<1>6. CASE \E r \in Request : Hit(r)
  BY <1>6 DEF Hit
<1>7. CASE \E r \in Request : Miss(r) \/ ReadFails(r)
  BY <1>7 DEF Miss, ReadFails
<1>8. CASE \E r \in Request : ReadRow(r)
  BY <1>8 DEF ReadRow, Passes, FindByHash
<1>9. CASE \E r \in Request : Fill(r)
  BY <1>9 DEF Fill, CacheSet
<1>10. CASE \E r \in Request : Leave(r)
  BY <1>10 DEF Leave
<1>11. CASE UNCHANGED vars
  BY <1>11 DEF vars
<1> QED
  BY <1>1, <1>2, <1>3, <1>4, <1>5, <1>6, <1>7, <1>8, <1>9, <1>10, <1>11, StepCases

(* Whatever is revoked, refilled or expired in between, an accepted        *)
(* request acts for the account its token was issued to.                   *)
THEOREM AcceptedActsForOwner == AuthSpec => []ActsForItsOwner
BY TypeInit, TypeStep, OwnerInit, OwnerStep, PTL DEF AuthSpec

LEMMA DeadStep ==
  ASSUME AuthTypeOK, AuthNext, NEW t \in Token, Dead(t)
  PROVE  Dead(t)'
<1> USE AuthConstants DEF AuthTypeOK, Dead, IsRevoked, TokenRow, TokenInfo, tables, local
<1>1. CASE \E a \in Account : CreateAccount(a) \/ UpdateAccount(a)
  BY <1>1 DEF CreateAccount, UpdateAccount, SetAccountStatus
<1>2. CASE \E u \in Token, a \in Account : CreateToken(u, a)
  BY <1>2 DEF CreateToken, InsertToken
<1>3. CASE \E u \in Token : RevokeToken(u)
  <2> PICK u \in Token : RevokeToken(u)
    BY <1>3
  <2>1. token[u] \in TokenRow
    BY DEF RevokeToken, Revoke
  <2>2. \A s \in Token : token[s] # None /\ token[s].status = "revoked"
          => token'[s] # None /\ token'[s].status = "revoked"
    BY <2>1, Zenon DEF RevokeToken, Revoke
  <2> QED
    BY <2>2 DEF RevokeToken
<1>4. CASE \E u \in Token : Expire(u)
  BY <1>4 DEF Expire
<1>5. CASE \E r \in Request, u \in Token : Arrive(r, u)
  BY <1>5 DEF Arrive
<1>6. CASE \E r \in Request : Hit(r)
  BY <1>6 DEF Hit
<1>7. CASE \E r \in Request : Miss(r) \/ ReadFails(r)
  BY <1>7 DEF Miss, ReadFails
<1>8. CASE \E r \in Request : ReadRow(r)
  BY <1>8 DEF ReadRow, Passes, FindByHash
<1>9. CASE \E r \in Request : Fill(r)
  BY <1>9 DEF Fill, CacheSet
<1>10. CASE \E r \in Request : Leave(r)
  BY <1>10 DEF Leave
<1> QED
  BY <1>1, <1>2, <1>3, <1>4, <1>5, <1>6, <1>7, <1>8, <1>9, <1>10, StepCases

(* A revoked token that no cache entry and no accepted request carries can *)
(* not come back: no step of any request or administrator revives it.      *)
THEOREM DeadTokensStayDead == AuthSpec => RevocationIsFinal
<1>1. AuthTypeOK /\ [AuthNext]_vars => [\A t \in Token : Dead(t) => Dead(t)']_vars
  <2> SUFFICES ASSUME AuthTypeOK, AuthNext, NEW t \in Token, Dead(t) PROVE Dead(t)'
    OBVIOUS
  <2> QED
    BY DeadStep
<1> QED
  BY <1>1, AuthTypeCorrect, PTL DEF AuthSpec, RevocationIsFinal

-----------------------------------------------------------------------------
(* From the revocation of a token to its death.                            *)

(* Requests that have read the row of the token and may write its entry.   *)
Filling(t) == {r \in Request : at[r] = "fill" /\ bearer[r] = t}

DiesOut(t) ==
  /\ IsRevoked(t)'
  /\ Filling(t)' \subseteq Filling(t)
  /\ cache'[t] # cache[t] /\ cache'[t] # None => Filling(t)' # Filling(t)

LEMMA DyingStep ==
  ASSUME AuthTypeOK, [AuthNext]_vars, NEW t \in Token, IsRevoked(t)
  PROVE  DiesOut(t)
<1> USE AuthConstants DEF AuthTypeOK, DiesOut, Filling, IsRevoked, TokenRow, TokenInfo, tables,
        local
<1>1. CASE \E a \in Account : CreateAccount(a) \/ UpdateAccount(a)
  BY <1>1 DEF CreateAccount, UpdateAccount, SetAccountStatus
<1>2. CASE \E u \in Token, a \in Account : CreateToken(u, a)
  BY <1>2 DEF CreateToken, InsertToken
<1>3. CASE \E u \in Token : RevokeToken(u)
  <2> PICK u \in Token : RevokeToken(u)
    BY <1>3
  <2>1. token[u] \in TokenRow
    BY DEF RevokeToken, Revoke
  <2>2. token'[t] # None /\ token'[t].status = "revoked"
    BY <2>1, Zenon DEF RevokeToken, Revoke
  <2> QED
    BY <2>2 DEF RevokeToken
<1>4. CASE \E u \in Token : Expire(u)
  BY <1>4 DEF Expire
<1>5. CASE \E r \in Request, u \in Token : Arrive(r, u)
  BY <1>5 DEF Arrive
<1>6. CASE \E r \in Request : Hit(r) \/ Miss(r) \/ ReadFails(r)
  BY <1>6 DEF Hit, Miss, ReadFails
<1>7. CASE \E r \in Request : ReadRow(r)
  BY <1>7 DEF ReadRow, Passes, FindByHash
<1>8. ASSUME NEW r \in Request, Fill(r)
      PROVE  DiesOut(t)
  <2>1. \A q \in Request : at'[q] = IF q = r THEN "accepted" ELSE at[q]
    BY <1>8 DEF Fill
  <2>2. UNCHANGED <<token, bearer>>
    BY <1>8 DEF Fill
  <2>3. at[r] = "fill" /\ (cache'[t] # cache[t] => bearer[r] = t)
    BY <1>8 DEF Fill, CacheSet
  <2>4. Filling(t)' \subseteq Filling(t)
    BY <2>1, <2>2
  <2>5. cache'[t] # cache[t] => r \in Filling(t) /\ r \notin Filling(t)'
    BY <2>1, <2>3
  <2> QED
    BY <2>2, <2>4, <2>5
<1>9. CASE \E r \in Request : Leave(r)
  BY <1>9 DEF Leave
<1>10. CASE UNCHANGED vars
  BY <1>10 DEF vars
<1> QED
  BY <1>1, <1>2, <1>3, <1>4, <1>5, <1>6, <1>7, <1>8, <1>9, <1>10, StepCases

(* After its revocation a token is cached again only by the requests that  *)
(* had read its row before, each of them once: no request joins them, and  *)
(* each entry that is written takes one away.                              *)
THEOREM RevokedTokensDieOut ==
  AuthSpec => [][\A t \in Token : IsRevoked(t) => DiesOut(t)]_vars
<1>1. AuthTypeOK /\ [AuthNext]_vars => [\A t \in Token : IsRevoked(t) => DiesOut(t)]_vars
  <2> SUFFICES ASSUME AuthTypeOK, [AuthNext]_vars, NEW t \in Token, IsRevoked(t)
               PROVE  DiesOut(t)
    OBVIOUS
  <2> QED
    BY DyingStep
<1> QED
  BY <1>1, AuthTypeCorrect, PTL DEF AuthSpec
=============================================================================
