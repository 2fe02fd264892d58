---------------------------- MODULE AdminAccess ----------------------------
(***************************************************************************)
(* Who is let in to the handlers of the administrators: authenticate_admin *)
(* in crates/api/src/middleware/auth_admin.rs takes what a request         *)
(* presents for the JWT of a service, and if it does not verify, for the   *)
(* token of a session.  A session token verifies as no JWT and the HMAC of *)
(* a JWT is in no row, so a request takes one of two ways, and the two     *)
(* share no table.                                                         *)
(***************************************************************************)
EXTENDS AdminSession, Naturals

CONSTANTS
  Service, Resets, Scope, Jwt, Exchange, Edit, Lifetime

VARIABLES service, exchange, edit, jwt, lapsed

serviceVars == <<service, exchange, edit, jwt, lapsed>>

Services == INSTANCE ServiceAccount WITH token <- jwt

ASSUME AccessConstants ==
  /\ Resets \in Nat /\ Lifetime \in Nat
  /\ None \notin Services!Row \cup Services!Token \cup Services!Reading

AccessInit == SessionInit /\ Services!ServiceInit

AccessNext ==
  \/ SessionNext          /\ UNCHANGED serviceVars
  \/ Services!ServiceNext /\ UNCHANGED vars

AccessSpec == AccessInit /\ [][AccessNext]_<<vars, serviceVars>>

-----------------------------------------------------------------------------
(* The tables and the calls of both ways hold what the code can put there. *)
AccessTypeOK == SessionTypeOK /\ Services!ServiceTypeOK

(* Access is taken back by the short life of the JWTs (design, line 102):  *)
(* a service that is disabled, or that loses a scope or its secret, keeps  *)
(* no more than what its tokens had left.  A token has expired by the time *)
(* that the row has not granted one of its scopes for a lifetime; and if   *)
(* the row changed while the call that issued it was reading it, by then   *)
(* and the time that this call took.                                       *)
AccessFadesOut ==
  \A j \in Jwt : jwt[j] # None =>
    \A x \in jwt[j].scopes :
      jwt[j].left + lapsed[jwt[j].service][<<jwt[j].secret, x>>] <= Lifetime + jwt[j].delay
=============================================================================
