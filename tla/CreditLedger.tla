---------------------------- MODULE CreditLedger ----------------------------
(***************************************************************************)
(* The credits repository, crates/storage/src/repo/credits.rs.             *)
(*                                                                         *)
(* Every write of the repository is one SQLite transaction in two parts: a *)
(* read of the rows it needs (one snapshot, because BEGIN is deferred and  *)
(* the database is in WAL mode), with the early returns that follow from   *)
(* what was read; then the UPDATE of the credits row guarded by the        *)
(* version that was read, the other writes, and COMMIT.  SQLite has one    *)
(* writer at a time and hides uncommitted writes, so the second part is    *)
(* one step; what other calls do between the two parts is not in the       *)
(* call's control.                                                         *)
(*                                                                         *)
(* The model gives the database no more than that.  SQLite also refuses to *)
(* upgrade a stale snapshot (SQLITE_BUSY), which is one of the errors of   *)
(* Abort; the model still lets a stale call reach the guarded UPDATE,      *)
(* where rows_affected = 0 decides, as the code is written to.             *)
(*                                                                         *)
(* The tables are the variables of AtomicLedger, which says what the whole *)
(* call does; here are the steps of the code, with the column and the open *)
(* transactions that only they see.  Nothing of AtomicLedger but its       *)
(* variables and its properties is used to define them.                    *)
(***************************************************************************)
EXTENDS AtomicLedger

Txn == [op : {"adjust", "place", "settle", "release"},
        account : Account,
        hold : Call,                    \* the hold made or closed; c itself for adjust
        amount : Int,                   \* delta, estimate or cost; 0 for release
        balance : Int, held : Int, version : Nat]             \* the row as read

ASSUME TxnConstants == None \notin Txn

VARIABLES
  version,    \* credits.version
  txn         \* the open transaction of each call

rows == <<opened, balance, held, version, booked, hold>>
vars == <<rows, txn, outcome>>

Init ==
  /\ opened  = {}
  /\ balance = [a \in Account |-> 0]
  /\ held    = [a \in Account |-> 0]
  /\ version = [a \in Account |-> 0]
  /\ booked  = [a \in Account |-> 0]
  /\ hold    = [c \in Call |-> None]
  /\ txn     = [c \in Call |-> None]
  /\ outcome = [c \in Call |-> "idle"]

-----------------------------------------------------------------------------
(* The tests that a call makes on what it read, before it writes.          *)

(* Wrong: a closed hold passes for an open one.                            *)
IsHeldOrClosed(h) == hold[h] # None

IsHeld(h) == hold[h] # None /\ hold[h].status = "held"

AdjustFits(a, d)    == a \in opened /\ balance[a] + d >= 0
PlaceFits(a, e)     == a \in opened /\ balance[a] >= e
(* Wrong: a cost above the estimate is charged whatever the balance.       *)
SettleFitsUnchecked(h, cost) == IsHeld(h)

SettleFits(h, cost) ==
  /\ IsHeld(h)
  /\ LET row == hold[h]
     IN  /\ balance[row.account] + (row.amount - cost) >= 0
         /\ held[row.account] - row.amount >= 0
ReleaseFits(h)      == IsHeld(h)

Finish(c, result) == outcome' = [outcome EXCEPT ![c] = result]

(* First part of a call: open a transaction that remembers the row, or     *)
(* return None.                                                            *)
Read(c, op, a, h, n) ==
  /\ txn' = [txn EXCEPT ![c] =
       [op |-> op, account |-> a, hold |-> h, amount |-> n,
        balance |-> balance[a], held |-> held[a], version |-> version[a]]]
  /\ UNCHANGED <<rows, outcome>>

Refuse(c) == Finish(c, "none") /\ UNCHANGED <<rows, txn>>

Starts(c) == outcome[c] = "idle" /\ txn[c] = None

ReadAdjust(c, a, d) ==
  /\ Starts(c)
  /\ \/ AdjustFits(a, d) /\ Read(c, "adjust", a, c, d)
     \/ ~AdjustFits(a, d) /\ Refuse(c)

ReadPlace(c, a, e) ==
  /\ Starts(c)
  /\ \/ PlaceFits(a, e) /\ Read(c, "place", a, c, e)
     \/ ~PlaceFits(a, e) /\ Refuse(c)

ReadSettle(c, h, cost) ==
  /\ Starts(c)
  /\ \/ SettleFits(h, cost) /\ Read(c, "settle", hold[h].account, h, cost)
     \/ ~SettleFits(h, cost) /\ Refuse(c)

ReadRelease(c, h) ==
  /\ Starts(c)
  /\ \/ ReleaseFits(h) /\ Read(c, "release", hold[h].account, h, 0)
     \/ ~ReleaseFits(h) /\ Refuse(c)

-----------------------------------------------------------------------------
(* Wrong: the UPDATE is not guarded by the version.                        *)
VersionUnchecked(c) == txn[c] # None

(* UPDATE credits ... WHERE account_id = ? AND version = ?                 *)
VersionIsCurrent(c) == version[txn[c].account] = txn[c].version

(* Wrong: the UPDATE leaves the version as it is.                          *)
WriteKeepingVersion(c, op, newBalance, newHeld) ==
  /\ txn[c] # None /\ txn[c].op = op
  /\ VersionIsCurrent(c)
  /\ balance' = [balance EXCEPT ![txn[c].account] = newBalance]
  /\ held'    = [held EXCEPT ![txn[c].account] = newHeld]
  /\ txn'     = [txn EXCEPT ![c] = None]
  /\ Finish(c, "ok")
  /\ UNCHANGED <<opened, version>>

(* Second part: the guarded UPDATE with the values computed from the read, *)
(* and the COMMIT that ends the call.                                      *)
Write(c, op, newBalance, newHeld) ==
  /\ txn[c] # None /\ txn[c].op = op
  /\ VersionIsCurrent(c)
  /\ LET a == txn[c].account
     IN  /\ balance' = [balance EXCEPT ![a] = newBalance]
         /\ held'    = [held EXCEPT ![a] = newHeld]
         /\ version' = [version EXCEPT ![a] = txn[c].version + 1]
  /\ txn' = [txn EXCEPT ![c] = None]
  /\ Finish(c, "ok")
  /\ UNCHANGED opened

InsertHold(c, a, e) ==
  hold' = [hold EXCEPT ![c] = [status |-> "held", account |-> a, amount |-> e]]

CloseHold(h, status) == hold' = [hold EXCEPT ![h] = [@ EXCEPT !.status = status]]

(* INSERT INTO credit_transactions                                         *)
Book(a, d) == booked' = [booked EXCEPT ![a] = @ + d]

CommitAdjust(c) ==
  /\ Write(c, "adjust", txn[c].balance + txn[c].amount, held[txn[c].account])
  /\ Book(txn[c].account, txn[c].amount)
  /\ UNCHANGED hold

(* place_hold moves the amount inside the UPDATE (balance = balance - ?).  *)
CommitPlace(c) ==
  LET a == txn[c].account
      e == txn[c].amount
  IN  /\ Write(c, "place", balance[a] - e, held[a] + e)
      /\ InsertHold(c, a, e)
      /\ UNCHANGED booked

CommitSettle(c) ==
  LET h == txn[c].hold
      refund == hold[h].amount - txn[c].amount
  IN  /\ Write(c, "settle", txn[c].balance + refund, txn[c].held - hold[h].amount)
      /\ CloseHold(h, "settled")
      /\ Book(txn[c].account, -txn[c].amount)

CommitRelease(c) ==
  LET h == txn[c].hold
  IN  /\ Write(c, "release", txn[c].balance + hold[h].amount,
                             txn[c].held - hold[h].amount)
      /\ CloseHold(h, "released")
      /\ UNCHANGED booked

(* rows_affected() = 0: roll back and return None.                         *)
Conflict(c) ==
  /\ txn[c] # None
  /\ ~VersionIsCurrent(c)
  /\ txn' = [txn EXCEPT ![c] = None]
  /\ Finish(c, "none")
  /\ UNCHANGED rows

(* Wrong: a failed call leaves its transaction open on the connection.     *)
AbortKeepingTxn(c) ==
  /\ outcome[c] = "idle"
  /\ Finish(c, "error")
  /\ UNCHANGED <<rows, txn>>

(* Any statement may fail (busy, I/O, pool timeout), the caller may drop   *)
(* the future, the process may die: the transaction rolls back.            *)
Abort(c) ==
  /\ outcome[c] = "idle"
  /\ txn' = [txn EXCEPT ![c] = None]
  /\ Finish(c, "error")
  /\ UNCHANGED rows

(* INSERT OR IGNORE of a row of zeros: an existing row is left alone.      *)
InitCredits(a) ==
  /\ opened' = opened \cup {a}
  /\ UNCHANGED <<balance, held, version, booked, hold, txn, outcome>>

Next ==
  \/ \E a \in Account : InitCredits(a)
  \/ \E c \in Call :
       \/ \E a \in Account, d \in Delta : ReadAdjust(c, a, d)
       \/ \E a \in Account, e \in Estimate : ReadPlace(c, a, e)
       \/ \E h \in Call, cost \in Cost : ReadSettle(c, h, cost)
       \/ \E h \in Call : ReadRelease(c, h)
       \/ CommitAdjust(c) \/ CommitPlace(c) \/ CommitSettle(c) \/ CommitRelease(c)
       \/ Conflict(c)
       \/ Abort(c)

Spec == Init /\ [][Next]_vars

-----------------------------------------------------------------------------
(* Properties.                                                             *)

(* What a call remembers is of its own kind, belongs to an existing hold   *)
(* of the same account if it closes one, and is never ahead of the row; a  *)
(* hold belongs to a place_hold that has returned it.                      *)
CallsOK ==
  /\ \A c \in Call : txn[c] # None =>
       LET t == txn[c]
       IN  /\ outcome[c] = "idle"
           /\ t.version <= version[t.account]
           /\ t.op = "adjust" => t.amount \in Delta
           /\ t.op = "place"  => t.amount \in Estimate
           /\ t.op = "settle" => t.amount \in Cost
           /\ t.op \in {"settle", "release"} =>
                hold[t.hold] # None /\ hold[t.hold].account = t.account
  /\ \A c \in Call : hold[c] # None => outcome[c] = "ok"

(* Every variable has its type, and every call is in a state it can be in. *)
TypeOK ==
  /\ opened \in SUBSET Account
  /\ balance \in [Account -> Int]
  /\ held \in [Account -> Int]
  /\ version \in [Account -> Nat]
  /\ booked \in [Account -> Int]
  /\ hold \in [Call -> HoldRow \cup {None}]
  /\ txn \in [Call -> Txn \cup {None}]
  /\ outcome \in [Call -> {"idle", "ok", "none", "error"}]
  /\ CallsOK

(* What a call read still describes the ledger, and its tests would still  *)
(* let it go on.                                                           *)
ReadIsCurrent(c) ==
  LET t == txn[c]
  IN  /\ t.balance = balance[t.account] /\ t.held = held[t.account]
      /\ t.op = "adjust" => AdjustFits(t.account, t.amount)
      /\ t.op = "place" => PlaceFits(t.account, t.amount)
      /\ t.op = "settle" => SettleFits(t.hold, t.amount)
      /\ t.op = "release" => ReleaseFits(t.hold)

(* The version is an honest witness: a transaction whose version is still  *)
(* current read the balance, the held part and (to close a hold) a hold    *)
(* still held, exactly as they are now.  This is what makes the one-row    *)
(* version test of every UPDATE enough to protect two tables.              *)
CurrentVersionMeansCurrentRead ==
  \A c \in Call : txn[c] # None /\ VersionIsCurrent(c) => ReadIsCurrent(c)

(* The repository implements the atomic ledger: a commit is the one step   *)
(* at which a call takes effect, judged against the ledger of that moment, *)
(* and everything before it is invisible.                                  *)
ImplementsAtomicLedger == LedgerSpec
=============================================================================
