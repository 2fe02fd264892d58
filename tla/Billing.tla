------------------------------ MODULE Billing ------------------------------
(***************************************************************************)
(* The arithmetic of charges, crates/billing: how many tokens a request    *)
(* is charged for, and what they cost at a model's rates for a thousand.   *)
(* Everything is i64: a product saturates, a division drops the remainder, *)
(* and a sum wraps in the release build.  Counting the tokens of a text is *)
(* left out: a count is any number.                                        *)
(***************************************************************************)
EXTENDS Integers

CONSTANTS
  MaxInt,   \* i64::MAX
  Absent    \* a field that the upstream leaves out

ASSUME BillingConstants == MaxInt \in Nat \ {0} /\ Absent \notin Int

MinInt == -MaxInt - 1

(* saturating_mul *)
Saturate(n) == IF n > MaxInt THEN MaxInt ELSE IF n < MinInt THEN MinInt ELSE n

(* n / 1000 of i64 goes toward zero.                                       *)
Thousandth(n) == IF n >= 0 THEN n \div 1000 ELSE -((-n) \div 1000)

ComputeCredits(usage, input, output) ==
  Thousandth(Saturate(usage.prompt * input)) + Thousandth(Saturate(usage.completion * output))

(* The hold of a request: its prompt alone, and at least one.              *)
EstimatedCredits(prompt, input, output) ==
  LET n == ComputeCredits([prompt |-> prompt, completion |-> 0], input, output)
  IN  IF n < 1 THEN 1 ELSE n

(* The cost of an answer.                                                  *)
ActualCredits(usage, input, output) ==
  LET n == ComputeCredits(usage, input, output)
  IN  IF n < 0 THEN 0 ELSE n

OrZero(n) == IF n = Absent THEN 0 ELSE n

(* The usage that the upstream reports, or else the counts of the texts.   *)
ResolveUsage(upstream, counted) ==
  IF upstream.prompt = Absent /\ upstream.completion = Absent
  THEN counted
  ELSE [prompt |-> OrZero(upstream.prompt), completion |-> OrZero(upstream.completion)]

(* prompt_tokens + completion_tokens, both as the upstream sent them.      *)
Total(usage) ==
  LET n == usage.prompt + usage.completion
  IN  IF n > MaxInt THEN n - 2 * (MaxInt + 1)
      ELSE IF n < MinInt THEN n + 2 * (MaxInt + 1) ELSE n
=============================================================================
