---------------------------- MODULE MCChatBilling ----------------------------
(* Small instances of ChatBilling: two requests of one account.  Requests  *)
(* are interchangeable (both have the same owner), and so are mappings     *)
(* that lead to providers with the same quota.                             *)
EXTENDS ChatBilling, TLC

CONSTANTS r1, r2, a1, m1, m2, p1, p2, deposit, debit

Calls == (Request \X {"place", "close"}) \cup AdminCall

OneOwner == [r \in Request |-> a1]

TwoProviders == [m \in Mapping |-> IF m = m1 THEN p1 ELSE p2]
OneProvider  == [m \in Mapping |-> p1]

Adjustments == [c \in AdminCall |->
                  [account |-> a1, delta |-> IF c = debit THEN -1 ELSE 3]]
Deltas    == {-1, 3}
Estimates == {1}
OneCost   == {1}
OneTotal  == {1}

Reasons     == FaultKinds \cup {"admin"}
TwoFaults   == {"quota", "caller"}
NoFault     == {}
CallerFault == {"caller"}

NoLimit  == [p \in Provider |-> 0]
Timeouts    == {"timeout"}

LimitOne == [p \in Provider |-> 1]
NoSync   == {}
SyncZero == {0}

Symmetry == Permutations(Request)
=============================================================================
