---------------------------- MODULE CreditAdmin ----------------------------
(***************************************************************************)
(* The two handlers of crates/api/src/handlers/admin/credits.rs that move  *)
(* credit, while chat requests spend it.                                   *)
(*                                                                         *)
(* adjust_credits adjusts by the delta it was given (AdjustCredits).       *)
(* set_credits reads the balance, computes the delta that would make it    *)
(* the one asked for, and adjusts by that delta in another transaction;    *)
(* what happened in between stays in the balance.  When the adjustment has *)
(* been committed, each of them inserts an audit record with its account   *)
(* and delta, by a statement of its own whose failure is ignored.          *)
(***************************************************************************)
EXTENDS ChatBilling, Functions

CONSTANTS
  SetCall,   \* calls of set_credits
  Setting    \* account and balance of each such call

ASSUME SetConstants ==
  /\ SetCall \subseteq Call \ (AdminCall \cup Request \X {"place", "close"})
  /\ Setting \in [SetCall -> [account : Account, balance : Int]]
  /\ None \notin [account : Account, delta : Int]

CreditCall == AdminCall \cup SetCall

VARIABLES
  planned,   \* what each call of set_credits has read, and the delta it came to
  audit,     \* audit record of each call: None as long as there is no row
  ended      \* calls that have ended after their adjustment was committed

records   == <<audit, ended>>
adminVars == <<chatVars, planned, records>>

AdminInit ==
  /\ ChatInit
  /\ planned = [c \in SetCall |-> None]
  /\ audit = [c \in CreditCall |-> None]
  /\ ended = {}

AccountOf(c) == IF c \in AdminCall THEN Adjustment[c].account ELSE Setting[c].account
DeltaOf(c)   == IF c \in AdminCall THEN Adjustment[c].delta ELSE planned[c].delta

(* An account without a row is answered with 404.                          *)
ReadBalance(c) ==
  /\ planned[c] = None
  /\ Setting[c].account \in opened
  /\ LET from == balance[Setting[c].account]
     IN  planned' = [planned EXCEPT ![c] =
                       [from |-> from, delta |-> Setting[c].balance - from]]
  /\ UNCHANGED <<chatVars, records>>

(* Wrong: the delta is computed again when it is applied, and the record   *)
(* names the first one.                                                    *)
SetCreditsAgain(c) ==
  /\ planned[c] # None
  /\ LET a == Setting[c].account
     IN  Adjust(c, a, Setting[c].balance - balance[a]) \/ NoEffect(c)
  /\ UNCHANGED <<planned, records, pool, chatOnly, notices>>

(* Err, and the answer 400 to a balance that would be negative by now,     *)
(* change nothing.                                                         *)
SetCredits(c) ==
  /\ planned[c] # None
  /\ Adjust(c, Setting[c].account, planned[c].delta) \/ NoEffect(c)
  /\ UNCHANGED <<planned, records, pool, chatOnly, notices>>

(* The adjustment is committed, its record has still to be inserted.       *)
Applied(c) == outcome[c] = "ok" /\ c \notin ended

RecordAdjustment(c) ==
  /\ Applied(c)
  /\ audit' = [audit EXCEPT ![c] = [account |-> AccountOf(c), delta |-> DeltaOf(c)]]
  /\ ended' = ended \cup {c}
  /\ UNCHANGED <<chatVars, planned>>

(* The insert failed and the call answers 200 all the same, or its future  *)
(* was dropped before the insert.                                          *)
RecordLost(c) ==
  /\ Applied(c)
  /\ ended' = ended \cup {c}
  /\ UNCHANGED <<chatVars, planned, audit>>

AdminNext ==
  \/ ChatNext /\ UNCHANGED <<planned, records>>
  \/ \E c \in SetCall : ReadBalance(c) \/ SetCredits(c)
  \/ \E c \in CreditCall : RecordAdjustment(c) \/ RecordLost(c)

AdminSpec == AdminInit /\ [][AdminNext]_adminVars

-----------------------------------------------------------------------------
Charged(a) == {r \in Request : Owner[r] = a /\ HoldIs(r, "settled")}
CostOf(S)  == SumFunction([r \in S |-> charge[r].cost])

RowsOf(a)     == {c \in CreditCall : audit[c] # None /\ audit[c].account = a}
WithoutRow(a) == {c \in CreditCall : outcome[c] = "ok" /\ audit[c] = None /\ AccountOf(c) = a}

(* What the audit records of credits.adjust and credits.set of an account  *)
(* add up to, and the adjustments that have none: not yet, or lost.        *)
Recorded(a)   == SumFunction([c \in RowsOf(a) |-> audit[c].delta])
Unrecorded(a) == SumFunction([c \in WithoutRow(a) |-> DeltaOf(c)])
Deposited(a)  == Recorded(a) + Unrecorded(a)

(* The books of four tables agree: what an account's transactions say      *)
(* beyond the deltas in the audit records, and those of committed          *)
(* adjustments whose record is still to come or was lost, is the cost of   *)
(* its settled requests; and the usage summary falls short of that by the  *)
(* settled requests that are not yet, or never, recorded.  No record names *)
(* a delta other than the one applied, none is of an adjustment that was   *)
(* refused, no request is charged or recorded twice, and a charge that     *)
(* lands between the two steps of set_credits is not lost.                 *)
ChargesReconcile ==
  \A a \in Account :
    /\ Deposited(a) - booked[a] = CostOf(Charged(a))
    /\ booked[a] + accountCredits[a] = Deposited(a) - CostOf(Charged(a) \ logged)
=============================================================================
