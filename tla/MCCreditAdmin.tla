---------------------------- MODULE MCCreditAdmin ----------------------------
(* Two requests of one account, an adjustment, and a call that sets the    *)
(* balance.  The amounts are those that crates/billing computes.           *)
EXTENDS CreditAdmin, MCChatBilling, Billing

CONSTANT set

CallsAndSets == Calls \cup SetCall
Settings     == [c \in SetCall |-> [account |-> a1, balance |-> 1]]
AnyDelta     == -9 .. 9

(* One credit for a thousand tokens in, two for a thousand out: a short    *)
(* prompt and a long one, and an answer that reports what it used after    *)
(* one that reports nothing.                                               *)
Prompts == {900, 2000}
Reports == {[prompt |-> Absent, completion |-> Absent], [prompt |-> 399, completion |-> 1000]}
Counted == [prompt |-> 900, completion |-> 499]
Answers == {ResolveUsage(u, Counted) : u \in Reports}

EstimatesOfPrompts == {EstimatedCredits(n, 1, 2) : n \in Prompts}
CostsOfAnswers     == {ActualCredits(u, 1, 2) : u \in Answers}
TotalsOfAnswers    == {Total(u) : u \in Answers}
=============================================================================
