---------------------------- MODULE AtomicLedger ----------------------------
(***************************************************************************)
(* What the credits repository promises its callers: a set of accounts     *)
(* with a spendable balance and a held part, on which every call takes     *)
(* effect at most once, in one indivisible step whose guard is judged      *)
(* against the ledger as it is in that step.                               *)
(*                                                                         *)
(* CreditLedger, which models the repository's transactions statement by   *)
(* statement, implements this module; ChatBilling is built on it.          *)
(***************************************************************************)
EXTENDS Integers, FiniteSets, Functions

CONSTANTS
  Account,    \* account ids
  Call,       \* calls of the repository; a call of place_hold names the hold it makes
  Delta,      \* amounts an administrator may add or take
  Estimate,   \* amounts a request may put on hold
  Cost,       \* amounts a request may be charged
  None        \* no hold, no open transaction

HoldRow == [status : {"held", "settled", "released"},
            account : Account, amount : Estimate]

ASSUME LedgerConstants ==
  /\ Delta \subseteq Int
  /\ Estimate \subseteq Nat \ {0}
  /\ Cost \subseteq Nat
  /\ None \notin HoldRow

VARIABLES
  opened,     \* accounts that have a credits row
  balance,    \* credits.balance
  held,       \* credits.held
  booked,     \* SUM(credit_transactions.delta) of each account
  hold,       \* credit_holds, by hold id
  outcome     \* what each call returned: Ok(Some), Ok(None) or Err

ledger     == <<opened, balance, held, booked, hold>>
ledgerVars == <<ledger, outcome>>

LedgerInit ==
  /\ opened  = {}
  /\ balance = [a \in Account |-> 0]
  /\ held    = [a \in Account |-> 0]
  /\ booked  = [a \in Account |-> 0]
  /\ hold    = [c \in Call |-> None]
  /\ outcome = [c \in Call |-> "idle"]

-----------------------------------------------------------------------------
(* Guards of the four writes, as the code evaluates them.                  *)

IsOpenHold(h) == hold[h] # None /\ hold[h].status = "held"

CanAdjust(a, d)    == a \in opened /\ balance[a] + d >= 0
CanPlace(a, e)     == a \in opened /\ balance[a] >= e
CanSettle(h, cost) == /\ IsOpenHold(h)
                      /\ balance[hold[h].account] + hold[h].amount - cost >= 0
                      /\ held[hold[h].account] >= hold[h].amount
CanRelease(h)      == IsOpenHold(h)

Return(c, result) ==
  /\ outcome[c] = "idle"
  /\ outcome' = [outcome EXCEPT ![c] = result]

(* CreditsRepo::init: INSERT OR IGNORE leaves an existing row alone.       *)
OpenAccount(a) ==
  /\ opened' = opened \cup {a}
  /\ UNCHANGED <<balance, held, booked, hold, outcome>>

Adjust(c, a, d) ==
  /\ CanAdjust(a, d)
  /\ balance' = [balance EXCEPT ![a] = @ + d]
  /\ booked'  = [booked EXCEPT ![a] = @ + d]
  /\ Return(c, "ok")
  /\ UNCHANGED <<opened, held, hold>>

(* The hold made by call c is named c.                                     *)
PlaceHold(c, a, e) ==
  /\ CanPlace(a, e)
  /\ balance' = [balance EXCEPT ![a] = @ - e]
  /\ held'    = [held EXCEPT ![a] = @ + e]
  /\ hold'    = [hold EXCEPT ![c] = [status |-> "held", account |-> a, amount |-> e]]
  /\ Return(c, "ok")
  /\ UNCHANGED <<opened, booked>>

SettleHold(c, h, cost) ==
  /\ CanSettle(h, cost)
  /\ LET a == hold[h].account
     IN  /\ balance' = [balance EXCEPT ![a] = @ + hold[h].amount - cost]
         /\ held'    = [held EXCEPT ![a] = @ - hold[h].amount]
         /\ booked'  = [booked EXCEPT ![a] = @ - cost]
  /\ hold' = [hold EXCEPT ![h] = [@ EXCEPT !.status = "settled"]]
  /\ Return(c, "ok")
  /\ UNCHANGED opened

ReleaseHold(c, h) ==
  /\ CanRelease(h)
  /\ LET a == hold[h].account
     IN  /\ balance' = [balance EXCEPT ![a] = @ + hold[h].amount]
         /\ held'    = [held EXCEPT ![a] = @ - hold[h].amount]
  /\ hold' = [hold EXCEPT ![h] = [@ EXCEPT !.status = "released"]]
  /\ Return(c, "ok")
  /\ UNCHANGED <<opened, booked>>

(* None (refused, or beaten by another writer) and Err change nothing.     *)
NoEffect(c) ==
  /\ \E result \in {"none", "error"} : Return(c, result)
  /\ UNCHANGED ledger

LedgerNext ==
  \/ \E a \in Account : OpenAccount(a)
  \/ \E c \in Call :
       \/ \E a \in Account, d \in Delta : Adjust(c, a, d)
       \/ \E a \in Account, e \in Estimate : PlaceHold(c, a, e)
       \/ \E h \in Call, cost \in Cost : SettleHold(c, h, cost)
       \/ \E h \in Call : ReleaseHold(c, h)
       \/ NoEffect(c)

LedgerSpec == LedgerInit /\ [][LedgerNext]_ledgerVars

-----------------------------------------------------------------------------
(* Properties.                                                             *)

(* Every variable has its type, and only a call that returned its hold has *)
(* made one.                                                               *)
LedgerTypeOK ==
  /\ opened \in SUBSET Account
  /\ balance \in [Account -> Int]
  /\ held \in [Account -> Int]
  /\ booked \in [Account -> Int]
  /\ hold \in [Call -> HoldRow \cup {None}]
  /\ outcome \in [Call -> {"idle", "ok", "none", "error"}]
  /\ \A c \in Call : hold[c] # None => outcome[c] = "ok"

(* No order of adjust, place_hold, settle_hold and release_hold spends a   *)
(* credit twice: neither part of an account is ever negative.  The code    *)
(* tests neither part when it releases (line 290), nor the held part when  *)
(* it places: this rests on the other calls.                               *)
NeverOversold == \A a \in Account : balance[a] >= 0 /\ held[a] >= 0

HoldsOf(a) == {h \in Call : IsOpenHold(h) /\ hold[h].account = a}

(* credits.held is the sum of the account's credit_holds with status       *)
(* 'held': the two tables, written by separate statements, never drift.    *)
HeldIsSumOfHolds ==
  \A a \in Account :
    /\ IsFiniteSet(HoldsOf(a))
    /\ held[a] = SumFunction([h \in HoldsOf(a) |-> hold[h].amount])

(* Credit is neither made nor lost: what an account has, spendable and     *)
(* held, is the sum of its credit_transactions, although place_hold and    *)
(* release_hold write no transaction and settle_hold books the cost while  *)
(* it moves the difference between the hold and the cost.                  *)
BooksBalance == \A a \in Account : balance[a] + held[a] = booked[a]

(* A hold is settled or released once, whoever races to close it: a closed *)
(* hold stays as it is, and closing changes nothing but the status, though *)
(* the UPDATE of credit_holds (lines 234 and 303) does not test the status.*)
HoldsCloseOnce ==
  [][\A h \in Call : hold[h] # None /\ hold'[h] # hold[h] =>
        /\ hold[h].status = "held"
        /\ hold'[h] \in {[hold[h] EXCEPT !.status = "settled"],
                         [hold[h] EXCEPT !.status = "released"]}]_ledgerVars
=============================================================================
