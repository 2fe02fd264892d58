------------------------- MODULE CreditLedgerProofs -------------------------
(***************************************************************************)
(* Proofs about the credits repository, for any sets of accounts, calls    *)
(* and amounts.                                                            *)
(*                                                                         *)
(* First the sums, which the books of every account are.  Then the         *)
(* promises of AtomicLedger.  Their conjunction is inductive: BooksBalance *)
(* and the balance part of NeverOversold by themselves; the held part,     *)
(* since release_hold tests nothing, by HeldIsSumOfHolds: a hold that is   *)
(* placed is one summand more, one that is closed is one less.             *)
(*                                                                         *)
(* Then CreditLedger: its types, the version as a witness of what was      *)
(* read, and by these two that every step is one of AtomicLedger or none,  *)
(* so that the promises hold of the repository too.                        *)
(***************************************************************************)
EXTENDS CreditLedger, FiniteSetTheorems, WellFoundedInduction, TLAPS

-----------------------------------------------------------------------------
(* Sums.  SumFunctionOnSet is a recursive function on the subsets of a set; *)
(* what follows is proved on a smallest subset of which it would not hold. *)

Some(s) == CHOOSE x \in s : TRUE

IsSum(sum, f, S) ==
  sum = [s \in SUBSET S |-> IF s = {} THEN 0 ELSE f[Some(s)] + sum[s \ {Some(s)}]]

LEMMA SumIs ==
  ASSUME NEW f, NEW S
  PROVE  SumFunctionOnSet(f, S) = (CHOOSE sum : IsSum(sum, f, S))[S]
BY DEF SumFunctionOnSet, FoldFunctionOnSet, MapThenFoldSet, IsSum, Some

LEMMA LeastNumber ==
  ASSUME NEW T \in SUBSET Nat, T # {}
  PROVE  \E i \in T : \A j \in T : i <= j
<1>1. PICK i \in T : \A j \in T : ~ (<<j, i>> \in OpToRel(<, Nat))
  BY NatLessThanWellFounded, WFMin, Zenon
<1>2. \A j \in T : ~ (j < i)
  BY <1>1 DEF OpToRel
<1> QED
  BY <1>2

(* An element taken away leaves a smaller set.                             *)
LEMMA SmallerSet ==
  ASSUME NEW S, IsFiniteSet(S), NEW x \in S
  PROVE  /\ IsFiniteSet(S \ {x})
         /\ Cardinality(S) \in Nat /\ Cardinality(S \ {x}) \in Nat
         /\ Cardinality(S) = Cardinality(S \ {x}) + 1
BY FS_RemoveElement, FS_CardinalityType

LEMMA SomeElement ==
  ASSUME NEW s, s # {}
  PROVE  Some(s) \in s
BY DEF Some

(* Sets that satisfy something: one of them has no smaller one.            *)
LEMMA SmallestSet ==
  ASSUME NEW F, F # {}, \A s \in F : IsFiniteSet(s)
  PROVE  \E s \in F : \A x \in s : s \ {x} \notin F
<1> DEFINE sizes == {Cardinality(s) : s \in F}
<1>1. sizes \in SUBSET Nat /\ sizes # {}
  BY FS_CardinalityType
<1>2. PICK i \in sizes : \A j \in sizes : i <= j
  BY <1>1, LeastNumber
<1>3. PICK s \in F : i = Cardinality(s)
  BY <1>2
<1>4. ASSUME NEW x \in s, s \ {x} \in F
      PROVE  FALSE
  <2>1. Cardinality(s \ {x}) \in sizes
    BY <1>4
  <2>2. i <= Cardinality(s \ {x})
    BY <1>2, <2>1
  <2>3. IsFiniteSet(s)
    OBVIOUS
  <2>4. /\ Cardinality(s) \in Nat /\ Cardinality(s \ {x}) \in Nat
        /\ Cardinality(s) = Cardinality(s \ {x}) + 1
    BY <2>3, SmallerSet
  <2> QED
    BY <1>3, <2>2, <2>4
<1> QED
  BY <1>4

(* The sum exists: a function that is right for the small subsets can be   *)
(* made right for those with one element more.                             *)
LEMMA SumExists ==
  ASSUME NEW f, NEW S, IsFiniteSet(S)
  PROVE  \E sum : IsSum(sum, f, S)
<1> DEFINE Extends(sum, s) == IF s = {} THEN 0 ELSE f[Some(s)] + sum[s \ {Some(s)}]
           RightTo(sum, n) == \A s \in SUBSET S : Cardinality(s) <= n => sum[s] = Extends(sum, s)
           bad == {n \in Nat : ~ \E sum : RightTo(sum, n)}
<1>1. \A s \in SUBSET S : IsFiniteSet(s) /\ Cardinality(s) \in Nat
  BY FS_Subset, FS_CardinalityType
<1>2. bad = {}
  <2> SUFFICES ASSUME bad # {}
               PROVE  FALSE
    OBVIOUS
  <2>1. PICK n \in bad : \A m \in bad : n <= m
    BY LeastNumber
  <2>2. PICK old : \A s \in SUBSET S : Cardinality(s) < n => old[s] = Extends(old, s)
    <3>1. CASE n = 0
      BY <1>1, <3>1
    <3>2. CASE n # 0
      <4>1. n \in Nat /\ n - 1 \in Nat /\ n - 1 < n
        BY <3>2
      <4>2. n - 1 \notin bad
        <5> HIDE DEF bad
        <5> QED
          BY <2>1, <4>1
      <4>3. PICK sum : RightTo(sum, n - 1)
        BY <4>1, <4>2
      <4>4. ASSUME NEW s \in SUBSET S, Cardinality(s) < n
            PROVE  sum[s] = Extends(sum, s)
        <5>1. Cardinality(s) <= n - 1
          BY <1>1, <4>1, <4>4
        <5> QED
          BY <4>3, <5>1
      <4> QED
        BY <4>4
    <3> QED
      BY <3>1, <3>2
  <2> DEFINE new == [s \in SUBSET S |-> Extends(old, s)]
  <2>3. ASSUME NEW s \in SUBSET S, Cardinality(s) <= n
        PROVE  new[s] = Extends(new, s)
    <3>1. CASE s = {}
      BY <3>1
    <3>2. CASE s # {}
      <4> DEFINE rest == s \ {Some(s)}
      <4>1. rest \in SUBSET S /\ Cardinality(rest) < n
        BY <1>1, <2>1, <2>3, <3>2, SomeElement, SmallerSet
      <4>2. new[rest] = old[rest]
        BY <2>2, <4>1
      <4> QED
        BY <3>2, <4>2
    <3> QED
      BY <3>1, <3>2
  <2>4. RightTo(new, n)
    BY <2>3
  <2> QED
    BY <2>1, <2>4
<1>3. Cardinality(S) \in Nat
  BY FS_CardinalityType
<1>4. PICK sum : RightTo(sum, Cardinality(S))
  BY <1>2, <1>3
<1> DEFINE total == [s \in SUBSET S |-> sum[s]]
<1>5. ASSUME NEW s \in SUBSET S
      PROVE  total[s] = Extends(total, s)
  <2>1. Cardinality(s) <= Cardinality(S)
    BY FS_Subset
  <2>2. s # {} => s \ {Some(s)} \in SUBSET S
    OBVIOUS
  <2> QED
    BY <1>4, <2>1, <2>2
<1>6. IsSum(total, f, S)
  BY <1>5 DEF IsSum
<1> QED
  BY <1>6

(* The sums over a set and over its subsets are the same function.         *)
LEMMA SumUnique ==
  ASSUME NEW f, NEW S, IsFiniteSet(S), NEW T \in SUBSET S, NEW g, NEW h,
         IsSum(g, f, S), IsSum(h, f, T)
  PROVE  \A s \in SUBSET T : g[s] = h[s]
<1> DEFINE differ == {s \in SUBSET T : g[s] # h[s]}
<1> SUFFICES ASSUME differ # {}
             PROVE  FALSE
  OBVIOUS
<1>1. \A s \in SUBSET S : IsFiniteSet(s)
  BY FS_Subset
<1>2. PICK s \in differ : \A x \in s : s \ {x} \notin differ
  <2>1. \A s \in differ : IsFiniteSet(s)
    BY <1>1
  <2> HIDE DEF differ
  <2> QED
    BY <2>1, SmallestSet
<1>3. /\ g[s] = IF s = {} THEN 0 ELSE f[Some(s)] + g[s \ {Some(s)}]
      /\ h[s] = IF s = {} THEN 0 ELSE f[Some(s)] + h[s \ {Some(s)}]
  BY DEF IsSum
<1>4. CASE s = {}
  BY <1>3, <1>4
<1>5. CASE s # {}
  <2>1. Some(s) \in s
    BY <1>5, SomeElement
  <2>2. s \ {Some(s)} \notin differ
    BY <1>2, <2>1
  <2>3. g[s \ {Some(s)}] = h[s \ {Some(s)}]
    BY <2>2
  <2> QED
    BY <1>3, <1>5, <2>3
<1> QED
  BY <1>4, <1>5

LEMMA SumEmpty ==
  ASSUME NEW f
  PROVE  SumFunctionOnSet(f, {}) = 0
<1> DEFINE sum == CHOOSE sum : IsSum(sum, f, {})
<1>1. IsSum(sum, f, {})
  BY SumExists, FS_EmptySet
<1> HIDE DEF sum
<1>2. sum[{}] = 0
  BY <1>1 DEF IsSum
<1> QED
  BY <1>2, SumIs DEF sum

LEMMA SumOfSome ==
  ASSUME NEW f, NEW S, IsFiniteSet(S), S # {}
  PROVE  SumFunctionOnSet(f, S) = f[Some(S)] + SumFunctionOnSet(f, S \ {Some(S)})
<1> DEFINE T == S \ {Some(S)}
           all == CHOOSE sum : IsSum(sum, f, S)
           most == CHOOSE sum : IsSum(sum, f, T)
<1>1. T \in SUBSET S /\ IsFiniteSet(T)
  BY FS_Subset
<1>2. IsSum(all, f, S) /\ IsSum(most, f, T)
  BY <1>1, SumExists
<1>3. SumFunctionOnSet(f, S) = all[S] /\ SumFunctionOnSet(f, T) = most[T]
  BY SumIs
<1> HIDE DEF all, most
<1>4. all[S] = f[Some(S)] + all[T]
  BY <1>2 DEF IsSum
<1>5. all[T] = most[T]
  <2> HIDE DEF T
  <2> QED
    BY <1>1, <1>2, SumUnique
<1> QED
  BY <1>3, <1>4, <1>5

LEMMA SumIsInt ==
  ASSUME NEW f, NEW S, IsFiniteSet(S), \A x \in S : f[x] \in Int
  PROVE  SumFunctionOnSet(f, S) \in Int
<1> DEFINE bad == {s \in SUBSET S : SumFunctionOnSet(f, s) \notin Int}
<1> SUFFICES ASSUME bad # {}
             PROVE  FALSE
  OBVIOUS
<1>1. \A s \in bad : IsFiniteSet(s)
  BY FS_Subset
<1>2. PICK s \in bad : \A x \in s : s \ {x} \notin bad
  <2> HIDE DEF bad
  <2> QED
    BY <1>1, SmallestSet
<1>3. s # {}
  BY SumEmpty
<1>4. Some(s) \in s
  BY <1>3, SomeElement
<1>5. SumFunctionOnSet(f, s \ {Some(s)}) \in Int
  BY <1>2, <1>4
<1>6. SumFunctionOnSet(f, s) = f[Some(s)] + SumFunctionOnSet(f, s \ {Some(s)})
  BY <1>1, <1>3, SumOfSome
<1> QED
  BY <1>4, <1>5, <1>6

(* The order in which a sum is taken does not matter.                      *)
LEMMA SumOfAny ==
  ASSUME NEW f, NEW S, IsFiniteSet(S), \A x \in S : f[x] \in Int, NEW x \in S
  PROVE  SumFunctionOnSet(f, S) = f[x] + SumFunctionOnSet(f, S \ {x})
<1> DEFINE Sum(s) == SumFunctionOnSet(f, s)
           bad == {s \in SUBSET S : \E y \in s : Sum(s) # f[y] + Sum(s \ {y})}
<1>0. \A s \in SUBSET S : IsFiniteSet(s) /\ Sum(s) \in Int
  BY FS_Subset, SumIsInt
<1>1. bad = {}
  <2> SUFFICES ASSUME bad # {}
               PROVE  FALSE
    OBVIOUS
  <2>1. \A s \in bad : IsFiniteSet(s)
    BY <1>0
  <2>2. PICK s \in bad : \A y \in s : s \ {y} \notin bad
    <3> HIDE DEF bad
    <3> QED
      BY <2>1, SmallestSet
  <2>3. PICK y \in s : Sum(s) # f[y] + Sum(s \ {y})
    OBVIOUS
  <2> DEFINE z == Some(s)
  <2>4. z \in s /\ Sum(s) = f[z] + Sum(s \ {z})
    BY <2>1, SomeElement, SumOfSome
  <2> HIDE DEF z, Sum
  <2>5. y # z
    BY <2>3, <2>4
  <2>6. Sum(s \ {z}) = f[y] + Sum((s \ {z}) \ {y})
    BY <2>2, <2>4, <2>5
  <2>7. Sum(s \ {y}) = f[z] + Sum((s \ {y}) \ {z})
    BY <2>2, <2>4, <2>5
  <2>8. Sum((s \ {z}) \ {y}) = Sum((s \ {y}) \ {z})
    <3>1. (s \ {z}) \ {y} = (s \ {y}) \ {z}
      OBVIOUS
    <3> QED
      BY <3>1, Zenon
  <2>9. f[y] \in Int /\ f[z] \in Int /\ Sum((s \ {y}) \ {z}) \in Int
    BY <1>0, <2>4
  <2>10. Sum(s) = f[y] + Sum(s \ {y})
    <3> DEFINE n == Sum((s \ {y}) \ {z})
    <3>1. n \in Int /\ Sum(s \ {y}) = f[z] + n /\ Sum(s \ {z}) = f[y] + n
      BY <2>6, <2>7, <2>8, <2>9
    <3> HIDE DEF n
    <3> QED
      BY <2>4, <2>9, <3>1
  <2> QED
    BY <2>3, <2>10
<1> QED
  BY <1>1

LEMMA SumSame ==
  ASSUME NEW f, NEW g, NEW S, IsFiniteSet(S), \A x \in S : f[x] = g[x]
  PROVE  SumFunctionOnSet(f, S) = SumFunctionOnSet(g, S)
<1> DEFINE differ == {s \in SUBSET S : SumFunctionOnSet(f, s) # SumFunctionOnSet(g, s)}
<1> SUFFICES ASSUME differ # {}
             PROVE  FALSE
  OBVIOUS
<1>1. \A s \in differ : IsFiniteSet(s)
  BY FS_Subset
<1>2. PICK s \in differ : \A x \in s : s \ {x} \notin differ
  <2> HIDE DEF differ
  <2> QED
    BY <1>1, SmallestSet
<1>3. s # {}
  BY SumEmpty
<1>4. Some(s) \in s
  BY <1>3, SomeElement
<1>5. SumFunctionOnSet(f, s \ {Some(s)}) = SumFunctionOnSet(g, s \ {Some(s)})
  BY <1>2, <1>4
<1>6. /\ SumFunctionOnSet(f, s) = f[Some(s)] + SumFunctionOnSet(f, s \ {Some(s)})
      /\ SumFunctionOnSet(g, s) = g[Some(s)] + SumFunctionOnSet(g, s \ {Some(s)})
  BY <1>1, <1>3, SumOfSome
<1> QED
  BY <1>4, <1>5, <1>6

(* A function with one element more in its domain.                         *)
LEMMA SumOfOneMore ==
  ASSUME NEW f, NEW g, NEW x, x \notin DOMAIN f, DOMAIN g = DOMAIN f \cup {x},
         IsFiniteSet(DOMAIN f), g[x] \in Int,
         \A y \in DOMAIN f : f[y] \in Int /\ g[y] = f[y]
  PROVE  SumFunction(g) = g[x] + SumFunction(f)
<1>1. IsFiniteSet(DOMAIN g)
  BY FS_AddElement
<1>2. \A y \in DOMAIN g : g[y] \in Int
  OBVIOUS
<1>3. SumFunctionOnSet(g, DOMAIN g) = g[x] + SumFunctionOnSet(g, DOMAIN g \ {x})
  BY <1>1, <1>2, SumOfAny
<1>4. DOMAIN g \ {x} = DOMAIN f
  OBVIOUS
<1>5. SumFunctionOnSet(g, DOMAIN f) = SumFunctionOnSet(f, DOMAIN f)
  BY SumSame
<1> QED
  BY <1>3, <1>4, <1>5 DEF SumFunction

LEMMA SumOfNone ==
  ASSUME NEW f, DOMAIN f = {}
  PROVE  SumFunction(f) = 0
BY SumEmpty DEF SumFunction

LEMMA SumIsNat ==
  ASSUME NEW f, IsFiniteSet(DOMAIN f), \A x \in DOMAIN f : f[x] \in Nat
  PROVE  SumFunction(f) \in Nat
<1> DEFINE bad == {s \in SUBSET DOMAIN f : SumFunctionOnSet(f, s) \notin Nat}
<1> SUFFICES ASSUME bad # {}
             PROVE  FALSE
  BY DEF SumFunction
<1>1. \A s \in bad : IsFiniteSet(s)
  BY FS_Subset
<1>2. PICK s \in bad : \A x \in s : s \ {x} \notin bad
  <2> HIDE DEF bad
  <2> QED
    BY <1>1, SmallestSet
<1>3. s # {}
  BY SumEmpty
<1>4. Some(s) \in s
  BY <1>3, SomeElement
<1>5. SumFunctionOnSet(f, s \ {Some(s)}) \in Nat
  BY <1>2, <1>4
<1>6. SumFunctionOnSet(f, s) = f[Some(s)] + SumFunctionOnSet(f, s \ {Some(s)})
  BY <1>1, <1>3, SumOfSome
<1> QED
  BY <1>4, <1>5, <1>6

-----------------------------------------------------------------------------
(* The promises of AtomicLedger.                                           *)

BalancesOK == \A a \in Account : balance[a] >= 0

LedgerInv == LedgerTypeOK /\ BalancesOK /\ BooksBalance /\ HeldIsSumOfHolds

LEMMA HeldHold ==
  ASSUME LedgerTypeOK, NEW h \in Call, IsOpenHold(h)
  PROVE  /\ hold[h] \in HoldRow /\ hold[h] # None
         /\ hold[h].account \in Account
         /\ hold[h].amount \in Nat \ {0}
         /\ hold[h].status = "held"
<1>1. hold[h] \in HoldRow /\ hold[h] # None
  BY DEF LedgerTypeOK, IsOpenHold
<1> QED
  BY <1>1, LedgerConstants DEF HoldRow, IsOpenHold

Amounts(a) == [h \in HoldsOf(a) |-> hold[h].amount]

LEMMA InvImpliesPromises == LedgerInv => NeverOversold
<1> SUFFICES ASSUME LedgerInv, NEW a \in Account
             PROVE  balance[a] >= 0 /\ held[a] >= 0
  BY DEF NeverOversold
<1> DEFINE f == Amounts(a)
<1>1. \A h \in HoldsOf(a) : hold[h].amount \in Nat
  BY HeldHold DEF HoldsOf, LedgerInv
<1>2. DOMAIN f = HoldsOf(a) /\ \A h \in DOMAIN f : f[h] \in Nat
  BY <1>1 DEF Amounts
<1>3. IsFiniteSet(HoldsOf(a)) /\ held[a] = SumFunction(f)
  BY DEF LedgerInv, HeldIsSumOfHolds, Amounts
<1> HIDE DEF f
<1>4. held[a] \in Nat
  BY <1>2, <1>3, SumIsNat
<1> QED
  BY <1>4 DEF LedgerInv, BalancesOK

LEMMA InitInv == LedgerInit => LedgerInv
<1> SUFFICES ASSUME LedgerInit
             PROVE  LedgerInv
  OBVIOUS
<1>1. \A a \in Account : HoldsOf(a) = {}
  BY DEF LedgerInit, HoldsOf, IsOpenHold
<1>2. HeldIsSumOfHolds
  BY <1>1, FS_EmptySet, SumOfNone DEF LedgerInit, HeldIsSumOfHolds
<1> QED
  BY <1>2, LedgerConstants
     DEF LedgerInit, LedgerInv, LedgerTypeOK, BalancesOK, BooksBalance

-----------------------------------------------------------------------------
(* The sum of the holds under the steps that change it, and the others.    *)

LEMMA PlaceSum ==
  ASSUME LedgerTypeOK, HeldIsSumOfHolds, NEW c \in Call, NEW a \in Account,
         NEW e \in Estimate, PlaceHold(c, a, e)
  PROVE  HeldIsSumOfHolds'
<1> DEFINE row == [status |-> "held", account |-> a, amount |-> e]
<1>1. hold[c] = None /\ e \in Nat /\ row \in HoldRow
  BY LedgerConstants DEF PlaceHold, Return, LedgerTypeOK, HoldRow
<1>2. row # None
  BY <1>1, LedgerConstants
<1>3. hold' = [hold EXCEPT ![c] = row] /\ hold'[c] = row
  BY DEF PlaceHold, LedgerTypeOK
<1>4. held' = [held EXCEPT ![a] = held[a] + e]
  BY DEF PlaceHold
<1>5. ASSUME NEW x \in Account, x # a
      PROVE  HoldsOf(x)' = HoldsOf(x) /\ Amounts(x)' = Amounts(x)
  <2>1. HoldsOf(x)' = HoldsOf(x) /\ c \notin HoldsOf(x)
    BY <1>1, <1>2, <1>3, <1>5 DEF HoldsOf, IsOpenHold, LedgerTypeOK
  <2>2. \A h \in HoldsOf(x) : hold'[h] = hold[h]
    BY <1>3, <2>1 DEF HoldsOf, LedgerTypeOK
  <2> QED
    BY <2>1, <2>2 DEF Amounts
<1>6. /\ HoldsOf(a)' = HoldsOf(a) \cup {c} /\ c \notin HoldsOf(a)
      /\ \A h \in HoldsOf(a) : hold'[h] = hold[h]
  BY <1>1, <1>2, <1>3 DEF HoldsOf, IsOpenHold, LedgerTypeOK
<1>7. \A h \in HoldsOf(a) : hold[h].amount \in Int
  BY HeldHold DEF HoldsOf
<1>8. IsFiniteSet(HoldsOf(a)) /\ held[a] = SumFunction(Amounts(a))
  BY DEF HeldIsSumOfHolds, Amounts
<1>9. SumFunction(Amounts(a)') = held[a] + e
  <2> DEFINE f == Amounts(a)
             g == Amounts(a)'
  <2>1. /\ DOMAIN f = HoldsOf(a) /\ DOMAIN g = DOMAIN f \cup {c} /\ g[c] = e
        /\ \A h \in DOMAIN f : f[h] \in Int /\ g[h] = f[h]
    BY <1>3, <1>6, <1>7 DEF Amounts
  <2> HIDE DEF f, g
  <2>2. SumFunction(g) = e + SumFunction(f)
    BY <1>1, <1>6, <1>8, <2>1, SumOfOneMore
  <2> QED
    BY <1>1, <1>8, <2>2 DEF f, g, LedgerTypeOK
<1>10. IsFiniteSet(HoldsOf(a)')
  BY <1>6, <1>8, FS_AddElement
<1> QED
  BY <1>4, <1>5, <1>9, <1>10 DEF HeldIsSumOfHolds, Amounts, LedgerTypeOK

LEMMA CloseSum ==
  ASSUME LedgerTypeOK, HeldIsSumOfHolds, NEW h \in Call, IsOpenHold(h),
         NEW status \in {"settled", "released"},
         hold' = [hold EXCEPT ![h] = [@ EXCEPT !.status = status]],
         held' = [held EXCEPT ![hold[h].account] = @ - hold[h].amount]
  PROVE  HeldIsSumOfHolds'
<1> DEFINE a == hold[h].account
           n == hold[h].amount
<1>1. a \in Account /\ n \in Nat \ {0} /\ hold[h] \in HoldRow
  BY HeldHold
<1>2. hold'[h].status = status /\ \A x \in Call \ {h} : hold'[x] = hold[x]
  BY <1>1 DEF LedgerTypeOK, HoldRow
<1>3. ~IsOpenHold(h)'
  BY <1>2 DEF IsOpenHold
<1>4. \A x \in Account \ {a} : HoldsOf(x)' = HoldsOf(x) /\ h \notin HoldsOf(x)
  BY <1>2, <1>3 DEF HoldsOf, IsOpenHold
<1>5. /\ HoldsOf(a)' = HoldsOf(a) \ {h} /\ h \in HoldsOf(a)
      /\ \A y \in HoldsOf(a)' : hold'[y] = hold[y]
  BY <1>2, <1>3 DEF HoldsOf, IsOpenHold
<1>6. ASSUME NEW x \in Account, x # a
      PROVE  Amounts(x)' = Amounts(x)
  <2>1. \A y \in HoldsOf(x) : hold'[y] = hold[y]
    BY <1>2, <1>4, <1>6 DEF HoldsOf
  <2> QED
    BY <1>4, <1>6, <2>1 DEF Amounts
<1>7. \A y \in HoldsOf(a) : hold[y].amount \in Int
  BY HeldHold DEF HoldsOf
<1>8. IsFiniteSet(HoldsOf(a)) /\ held[a] = SumFunction(Amounts(a))
  BY <1>1 DEF HeldIsSumOfHolds, Amounts
<1>9. IsFiniteSet(HoldsOf(a)')
  BY <1>5, <1>8, FS_Subset
<1>10. SumFunction(Amounts(a)') = held[a] - n
  <2> DEFINE f == Amounts(a)
             g == Amounts(a)'
  <2>1. /\ DOMAIN g = HoldsOf(a)' /\ h \notin DOMAIN g /\ DOMAIN f = DOMAIN g \cup {h}
        /\ f[h] = n /\ \A y \in DOMAIN g : g[y] \in Int /\ f[y] = g[y]
    BY <1>5, <1>7 DEF Amounts
  <2> HIDE DEF f, g
  <2>2. SumFunction(f) = f[h] + SumFunction(g)
    BY <1>1, <1>9, <2>1, SumOfOneMore
  <2>3. SumFunction(g) \in Int
    BY <1>9, <2>1, SumIsInt DEF SumFunction
  <2> QED
    BY <1>1, <1>8, <2>1, <2>2, <2>3 DEF f, g
<1> QED
  BY <1>1, <1>4, <1>6, <1>8, <1>9, <1>10 DEF HeldIsSumOfHolds, Amounts, LedgerTypeOK

LEMMA QuietSum ==
  ASSUME HeldIsSumOfHolds, UNCHANGED <<held, hold>>
  PROVE  HeldIsSumOfHolds'
<1>1. \A a \in Account : HoldsOf(a)' = HoldsOf(a)
  BY DEF HoldsOf, IsOpenHold
<1> QED
  BY <1>1 DEF HeldIsSumOfHolds

-----------------------------------------------------------------------------
(* The inductive step, one case for each kind of call.                     *)

LEMMA PlaceInv ==
  ASSUME LedgerInv, NEW c \in Call, NEW a \in Account, NEW e \in Estimate,
         PlaceHold(c, a, e)
  PROVE  LedgerInv'
<1>1. e \in Nat \ {0} /\ balance[a] >= e
  BY LedgerConstants DEF PlaceHold, CanPlace
<1>2. [status |-> "held", account |-> a, amount |-> e] \in HoldRow
  BY DEF HoldRow
<1>3. LedgerTypeOK'
  BY <1>1, <1>2 DEF LedgerInv, LedgerTypeOK, PlaceHold, Return
<1>4. BalancesOK' /\ BooksBalance'
  BY <1>1 DEF LedgerInv, LedgerTypeOK, BalancesOK, BooksBalance, PlaceHold
<1> QED
  BY <1>3, <1>4, PlaceSum DEF LedgerInv

LEMMA CloseTypes ==
  ASSUME LedgerInv, NEW h \in Call, IsOpenHold(h), NEW status \in {"settled", "released"},
         hold' = [hold EXCEPT ![h] = [@ EXCEPT !.status = status]]
  PROVE  /\ hold' \in [Call -> HoldRow \cup {None}]
         /\ \A c \in Call : hold'[c] # None => hold[c] # None
<1>1. [hold[h] EXCEPT !.status = status] \in HoldRow
  BY HeldHold DEF LedgerInv, HoldRow
<1> QED
  BY <1>1, HeldHold DEF LedgerInv, LedgerTypeOK

LEMMA SettleInv ==
  ASSUME LedgerInv, NEW c \in Call, NEW h \in Call, NEW cost \in Cost,
         SettleHold(c, h, cost)
  PROVE  LedgerInv'
<1> DEFINE a == hold[h].account
<1>1. IsOpenHold(h) /\ cost \in Nat /\ balance[a] + hold[h].amount - cost >= 0
  BY LedgerConstants DEF SettleHold, CanSettle
<1>2. a \in Account /\ hold[h].amount \in Nat
  BY <1>1, HeldHold DEF LedgerInv
<1>3. LedgerTypeOK'
  <2>1. /\ hold' \in [Call -> HoldRow \cup {None}]
        /\ \A x \in Call : hold'[x] # None => hold[x] # None
    BY <1>1, CloseTypes DEF SettleHold
  <2> QED
    BY <1>1, <1>2, <2>1 DEF LedgerInv, LedgerTypeOK, SettleHold, Return
<1>4. BalancesOK' /\ BooksBalance'
  BY <1>1, <1>2 DEF LedgerInv, LedgerTypeOK, BalancesOK, BooksBalance, SettleHold
<1>5. HeldIsSumOfHolds'
  BY <1>1, CloseSum DEF LedgerInv, SettleHold
<1> QED
  BY <1>3, <1>4, <1>5 DEF LedgerInv

LEMMA ReleaseInv ==
  ASSUME LedgerInv, NEW c \in Call, NEW h \in Call, ReleaseHold(c, h)
  PROVE  LedgerInv'
<1> DEFINE a == hold[h].account
<1>1. IsOpenHold(h)
  BY DEF ReleaseHold, CanRelease
<1>2. a \in Account /\ hold[h].amount \in Nat
  BY <1>1, HeldHold DEF LedgerInv
<1>3. LedgerTypeOK'
  <2>1. /\ hold' \in [Call -> HoldRow \cup {None}]
        /\ \A x \in Call : hold'[x] # None => hold[x] # None
    BY <1>1, CloseTypes DEF ReleaseHold
  <2> QED
    BY <1>1, <1>2, <2>1 DEF LedgerInv, LedgerTypeOK, ReleaseHold, Return
<1>4. BalancesOK' /\ BooksBalance'
  BY <1>2 DEF LedgerInv, LedgerTypeOK, BalancesOK, BooksBalance, ReleaseHold
<1>5. HeldIsSumOfHolds'
  BY <1>1, CloseSum DEF LedgerInv, ReleaseHold
<1> QED
  BY <1>3, <1>4, <1>5 DEF LedgerInv

(* A step that leaves money and holds alone.                               *)
LEMMA IdleInv ==
  ASSUME LedgerInv, UNCHANGED <<balance, held, booked, hold>>,
         opened' \in SUBSET Account,
         \/ UNCHANGED outcome
         \/ \E c \in Call, r \in {"none", "error"} : Return(c, r)
  PROVE  LedgerInv'
<1>1. LedgerTypeOK'
  BY DEF LedgerInv, LedgerTypeOK, Return
<1>2. HeldIsSumOfHolds'
  BY QuietSum DEF LedgerInv
<1> QED
  BY <1>1, <1>2 DEF LedgerInv, BalancesOK, BooksBalance

(* Any amount may be added or taken, not only those of Delta: set_credits  *)
(* computes its own.                                                       *)
LEMMA AdjustInv ==
  ASSUME LedgerInv, NEW c \in Call, NEW a \in Account, NEW d \in Int, Adjust(c, a, d)
  PROVE  LedgerInv'
<1>1. balance[a] + d >= 0
  BY DEF Adjust, CanAdjust
<1>2. LedgerTypeOK' /\ BalancesOK' /\ BooksBalance'
  BY <1>1 DEF Adjust, Return, LedgerInv, LedgerTypeOK, BalancesOK, BooksBalance
<1>3. HeldIsSumOfHolds'
  BY QuietSum DEF Adjust, LedgerInv
<1> QED
  BY <1>2, <1>3 DEF LedgerInv

LEMMA NextInv == LedgerInv /\ [LedgerNext]_ledgerVars => LedgerInv'
<1> SUFFICES ASSUME LedgerInv, [LedgerNext]_ledgerVars
             PROVE  LedgerInv'
  OBVIOUS
<1>1. ASSUME NEW a \in Account, OpenAccount(a)
      PROVE  LedgerInv'
  BY <1>1, IdleInv DEF OpenAccount, LedgerInv, LedgerTypeOK
<1>2. ASSUME NEW c \in Call, NEW a \in Account, NEW d \in Delta, Adjust(c, a, d)
      PROVE  LedgerInv'
  BY <1>2, AdjustInv, LedgerConstants
<1>3. ASSUME NEW c \in Call, NoEffect(c)
      PROVE  LedgerInv'
  BY <1>3, IdleInv DEF NoEffect, ledger, LedgerInv, LedgerTypeOK
<1>4. CASE UNCHANGED ledgerVars
  BY <1>4, IdleInv DEF ledgerVars, ledger, LedgerInv, LedgerTypeOK
<1> QED
  BY <1>1, <1>2, <1>3, <1>4, PlaceInv, SettleInv, ReleaseInv DEF LedgerNext

(* In every behaviour of the ledger: the types, no account oversold, no    *)
(* credit made or lost, held equal to the sum of the holds.                *)
THEOREM LedgerSafe ==
  LedgerSpec => [](LedgerTypeOK /\ NeverOversold /\ BooksBalance /\ HeldIsSumOfHolds)
<1>1. LedgerInv => LedgerTypeOK /\ NeverOversold /\ BooksBalance /\ HeldIsSumOfHolds
  BY InvImpliesPromises DEF LedgerInv
<1> QED
  BY InitInv, NextInv, <1>1, PTL DEF LedgerSpec

LEMMA CloseOnceStep ==
  ASSUME LedgerTypeOK, [LedgerNext]_ledgerVars, NEW h \in Call,
         hold[h] # None, hold'[h] # hold[h]
  PROVE  /\ hold[h].status = "held"
         /\ hold'[h] \in {[hold[h] EXCEPT !.status = "settled"],
                          [hold[h] EXCEPT !.status = "released"]}
<1>1. outcome[h] = "ok"
  BY DEF LedgerTypeOK
<1>2. ASSUME NEW c \in Call, NEW a \in Account, NEW e \in Estimate, PlaceHold(c, a, e)
      PROVE  FALSE
  <2>1. c # h /\ hold'[h] = hold[h]
    BY <1>1, <1>2 DEF PlaceHold, Return, LedgerTypeOK
  <2> QED
    BY <2>1
<1>3. ASSUME NEW x \in Call, IsOpenHold(x), NEW status \in {"settled", "released"},
             hold' = [hold EXCEPT ![x] = [@ EXCEPT !.status = status]]
      PROVE  hold[h].status = "held" /\ hold'[h] = [hold[h] EXCEPT !.status = status]
  BY <1>3, Zenon DEF IsOpenHold, LedgerTypeOK
<1>4. ASSUME NEW c \in Call, NEW x \in Call, NEW cost \in Cost, SettleHold(c, x, cost)
      PROVE  hold[h].status = "held" /\ hold'[h] = [hold[h] EXCEPT !.status = "settled"]
  BY <1>3, <1>4 DEF SettleHold, CanSettle
<1>5. ASSUME NEW c \in Call, NEW x \in Call, ReleaseHold(c, x)
      PROVE  hold[h].status = "held" /\ hold'[h] = [hold[h] EXCEPT !.status = "released"]
  BY <1>3, <1>5 DEF ReleaseHold, CanRelease
<1>6. ~(\/ \E a \in Account : OpenAccount(a)
        \/ \E c \in Call, a \in Account, d \in Delta : Adjust(c, a, d)
        \/ \E c \in Call : NoEffect(c)
        \/ UNCHANGED ledgerVars)
  BY DEF OpenAccount, Adjust, NoEffect, ledger, ledgerVars
<1> QED
  BY <1>2, <1>4, <1>5, <1>6 DEF LedgerNext

(* In every behaviour of the ledger a hold is closed at most once and then *)
(* keeps its account, its amount and its final status.                     *)
THEOREM LedgerClosesOnce == LedgerSpec => HoldsCloseOnce
<1>1. LedgerTypeOK /\ [LedgerNext]_ledgerVars =>
        [\A h \in Call : hold[h] # None /\ hold'[h] # hold[h] =>
           /\ hold[h].status = "held"
           /\ hold'[h] \in {[hold[h] EXCEPT !.status = "settled"],
                            [hold[h] EXCEPT !.status = "released"]}]_ledgerVars
  BY CloseOnceStep
<1> QED
  BY LedgerSafe, <1>1, PTL DEF LedgerSpec, HoldsCloseOnce

-----------------------------------------------------------------------------
(* Type correctness.                                                       *)

LEMMA ReadType ==
  ASSUME TypeOK, NEW c \in Call, Starts(c), NEW a \in Account, NEW h \in Call,
         NEW n \in Int, NEW op \in {"adjust", "place", "settle", "release"},
         Read(c, op, a, h, n),
         op = "adjust" => n \in Delta,
         op = "place"  => n \in Estimate,
         op = "settle" => n \in Cost,
         op \in {"settle", "release"} => hold[h] # None /\ hold[h].account = a
  PROVE  TypeOK'
<1> DEFINE t == [op |-> op, account |-> a, hold |-> h, amount |-> n,
                 balance |-> balance[a], held |-> held[a], version |-> version[a]]
<1>1. t \in Txn
  BY DEF TypeOK, Txn
<1>2. txn' = [txn EXCEPT ![c] = t] /\ UNCHANGED <<rows, outcome>>
  BY DEF Read
<1>3. CallsOK'
  <2>1. ASSUME NEW x \in Call, txn'[x] # None
        PROVE  LET u == txn'[x]
               IN  /\ outcome[x] = "idle"
                   /\ u.version <= version[u.account]
                   /\ u.op = "adjust" => u.amount \in Delta
                   /\ u.op = "place"  => u.amount \in Estimate
                   /\ u.op = "settle" => u.amount \in Cost
                   /\ u.op \in {"settle", "release"} =>
                        hold[u.hold] # None /\ hold[u.hold].account = u.account
    <3>1. CASE x = c
      BY <3>1, <1>2 DEF TypeOK, Starts
    <3>2. CASE x # c
      BY <3>2, <2>1, <1>2 DEF TypeOK, CallsOK
    <3> QED
      BY <3>1, <3>2
  <2> QED
    BY <2>1, <1>2 DEF CallsOK, rows, TypeOK
<1> QED
  BY <1>1, <1>2, <1>3 DEF TypeOK, rows

LEMMA WriteType ==
  ASSUME TypeOK, NEW c \in Call, NEW op, NEW b \in Int, NEW m \in Int,
         Write(c, op, b, m),
         booked' \in [Account -> Int],
         hold' \in [Call -> HoldRow \cup {None}],
         \A h \in Call : hold[h] # None =>
             hold'[h] # None /\ hold'[h].account = hold[h].account,
         \A h \in Call \ {c} : hold'[h] # None => hold[h] # None
  PROVE  TypeOK'
<1> DEFINE a == txn[c].account
<1>1. txn[c] \in Txn /\ a \in Account /\ txn[c].version = version[a] /\ outcome[c] = "idle"
  BY DEF Write, TypeOK, Txn, VersionIsCurrent, CallsOK
<1>2. /\ balance' = [balance EXCEPT ![a] = b]
      /\ held' = [held EXCEPT ![a] = m]
      /\ version' = [version EXCEPT ![a] = version[a] + 1]
      /\ txn' = [txn EXCEPT ![c] = None]
      /\ outcome' = [outcome EXCEPT ![c] = "ok"]
      /\ opened' = opened
  BY <1>1 DEF Write, Finish
<1>3. version' \in [Account -> Nat] /\ \A x \in Account : version[x] <= version'[x]
  BY <1>1, <1>2 DEF TypeOK
<1>4. ASSUME NEW x \in Call, txn'[x] # None
      PROVE  /\ outcome'[x] = "idle"
             /\ txn[x].version <= version'[txn[x].account]
             /\ txn'[x] = txn[x]
             /\ txn[x].op = "adjust" => txn[x].amount \in Delta
             /\ txn[x].op = "place"  => txn[x].amount \in Estimate
             /\ txn[x].op = "settle" => txn[x].amount \in Cost
             /\ txn[x].op \in {"settle", "release"} =>
                  hold'[txn[x].hold] # None /\ hold'[txn[x].hold].account = txn[x].account
  <2>1. x # c /\ txn'[x] = txn[x] /\ txn[x] \in Txn /\ outcome'[x] = outcome[x]
    BY <1>2, <1>4 DEF TypeOK
  <2>2. txn[x].account \in Account /\ txn[x].hold \in Call /\ txn[x].version \in Nat
    BY <2>1 DEF Txn
  <2>3. version[txn[x].account] \in Nat /\ version'[txn[x].account] \in Nat
    BY <2>2, <1>3 DEF TypeOK
  <2> QED
    BY <2>1, <2>2, <2>3, <1>3, <1>4 DEF TypeOK, CallsOK
<1>5. \A x \in Call : hold'[x] # None => outcome'[x] = "ok"
  BY <1>2 DEF TypeOK, CallsOK
<1>6. CallsOK'
  BY <1>4, <1>5 DEF CallsOK
<1> QED
  BY <1>1, <1>2, <1>3, <1>6 DEF TypeOK

LEMMA CloseHoldType ==
  ASSUME TypeOK, NEW h \in Call, hold[h] # None,
         NEW status \in {"settled", "released"}, CloseHold(h, status)
  PROVE  /\ hold' \in [Call -> HoldRow \cup {None}]
         /\ \A x \in Call : hold[x] # None =>
               hold'[x] # None /\ hold'[x].account = hold[x].account
         /\ \A x \in Call : hold'[x] # None => hold[x] # None
<1>1. hold[h] \in HoldRow /\ [hold[h] EXCEPT !.status = status] \in HoldRow
  BY DEF TypeOK, HoldRow
<1>2. [hold[h] EXCEPT !.status = status] # None
  BY <1>1, LedgerConstants
<1>3. [hold[h] EXCEPT !.status = status].account = hold[h].account
  BY <1>1 DEF HoldRow
<1> QED
  BY <1>1, <1>2, <1>3 DEF CloseHold, TypeOK

(* The transaction that a commit ends, and the hold it is about.           *)
LEMMA OpenTxn ==
  ASSUME TypeOK, NEW c \in Call, txn[c] # None
  PROVE  /\ txn[c] \in Txn
         /\ outcome[c] = "idle"
         /\ hold[c] = None
         /\ txn[c].account \in Account /\ txn[c].amount \in Int /\ txn[c].hold \in Call
         /\ txn[c].balance \in Int /\ txn[c].held \in Int /\ txn[c].version \in Nat
         /\ txn[c].op = "place" => txn[c].amount \in Estimate
         /\ txn[c].op \in {"settle", "release"} =>
              /\ hold[txn[c].hold] \in HoldRow
              /\ hold[txn[c].hold] # None
              /\ hold[txn[c].hold].account = txn[c].account
              /\ hold[txn[c].hold].amount \in Nat \ {0}
<1>1. txn[c] \in Txn /\ outcome[c] = "idle" /\ hold[c] = None
  BY DEF TypeOK, CallsOK
<1>2. ASSUME txn[c].op \in {"settle", "release"}
      PROVE  /\ hold[txn[c].hold] \in HoldRow
             /\ hold[txn[c].hold] # None
             /\ hold[txn[c].hold].account = txn[c].account
             /\ hold[txn[c].hold].amount \in Nat \ {0}
  <2>1. txn[c].hold \in Call
    BY <1>1 DEF Txn
  <2>2. hold[txn[c].hold] # None /\ hold[txn[c].hold].account = txn[c].account
    BY <1>2 DEF TypeOK, CallsOK
  <2>3. hold[txn[c].hold] \in HoldRow
    BY <2>1, <2>2 DEF TypeOK
  <2> QED
    BY <2>2, <2>3, LedgerConstants DEF HoldRow
<1> QED
  BY <1>1, <1>2 DEF Txn, TypeOK, CallsOK

LEMMA InitType == Init => TypeOK
BY LedgerConstants, TxnConstants DEF Init, TypeOK, CallsOK

LEMMA ReadCallType ==
  ASSUME TypeOK, NEW c \in Call
  PROVE  /\ \A a \in Account, d \in Delta : ReadAdjust(c, a, d) => TypeOK'
         /\ \A a \in Account, e \in Estimate : ReadPlace(c, a, e) => TypeOK'
         /\ \A h \in Call, cost \in Cost : ReadSettle(c, h, cost) => TypeOK'
         /\ \A h \in Call : ReadRelease(c, h) => TypeOK'
<1>1. ASSUME Starts(c), Refuse(c)
      PROVE  TypeOK'
  BY <1>1 DEF Starts, Refuse, Finish, TypeOK, CallsOK, rows
<1>2. ASSUME NEW a \in Account, NEW d \in Delta, ReadAdjust(c, a, d)
      PROVE  TypeOK'
  BY <1>1, <1>2, ReadType, LedgerConstants DEF ReadAdjust
<1>3. ASSUME NEW a \in Account, NEW e \in Estimate, ReadPlace(c, a, e)
      PROVE  TypeOK'
  BY <1>1, <1>3, ReadType, LedgerConstants DEF ReadPlace
<1>4. ASSUME NEW h \in Call, IsHeld(h)
      PROVE  hold[h] # None /\ hold[h].account \in Account
  BY <1>4 DEF IsHeld, TypeOK, HoldRow
<1>5. ASSUME NEW h \in Call, NEW cost \in Cost, ReadSettle(c, h, cost)
      PROVE  TypeOK'
  BY <1>1, <1>4, <1>5, ReadType, LedgerConstants DEF ReadSettle, SettleFits
<1>6. ASSUME NEW h \in Call, ReadRelease(c, h)
      PROVE  TypeOK'
  BY <1>1, <1>4, <1>6, ReadType DEF ReadRelease, ReleaseFits
<1> QED
  BY <1>2, <1>3, <1>5, <1>6

LEMMA CommitType ==
  ASSUME TypeOK, NEW c \in Call,
         CommitAdjust(c) \/ CommitPlace(c) \/ CommitSettle(c) \/ CommitRelease(c)
  PROVE  TypeOK'
<1> DEFINE a == txn[c].account
           h == txn[c].hold
<1>1. CASE CommitAdjust(c)
  <2>1. a \in Account /\ txn[c].balance + txn[c].amount \in Int /\ held[a] \in Int
    BY <1>1, OpenTxn DEF CommitAdjust, Write, TypeOK
  <2>2. booked' \in [Account -> Int]
    BY <1>1, <2>1, OpenTxn DEF CommitAdjust, Write, Book, TypeOK
  <2> QED
    BY <1>1, <2>1, <2>2, WriteType DEF CommitAdjust, TypeOK
<1>2. CASE CommitPlace(c)
  <2>1. /\ a \in Account /\ txn[c].amount \in Estimate
        /\ balance[a] - txn[c].amount \in Int /\ held[a] + txn[c].amount \in Int
        /\ hold[c] = None
    BY <1>2, OpenTxn DEF CommitPlace, Write, TypeOK
  <2>2. [status |-> "held", account |-> a, amount |-> txn[c].amount] \in HoldRow
    BY <2>1 DEF HoldRow
  <2>3. hold' \in [Call -> HoldRow \cup {None}]
    BY <1>2, <2>2 DEF CommitPlace, InsertHold, TypeOK
  <2>4. \A x \in Call \ {c} : hold'[x] = hold[x]
    BY <1>2 DEF CommitPlace, InsertHold, TypeOK
  <2> QED
    BY <1>2, <2>1, <2>3, <2>4, WriteType DEF CommitPlace, TypeOK
<1>3. CASE CommitSettle(c)
  <2>1. /\ a \in Account /\ h \in Call /\ hold[h] # None
        /\ txn[c].balance + (hold[h].amount - txn[c].amount) \in Int
        /\ txn[c].held - hold[h].amount \in Int
    BY <1>3, OpenTxn DEF CommitSettle, Write
  <2>2. booked' \in [Account -> Int]
    BY <1>3, <2>1, OpenTxn DEF CommitSettle, Write, Book, TypeOK
  <2> QED
    BY <1>3, <2>1, <2>2, WriteType, CloseHoldType DEF CommitSettle
<1>4. CASE CommitRelease(c)
  <2>1. /\ a \in Account /\ h \in Call /\ hold[h] # None
        /\ txn[c].balance + hold[h].amount \in Int
        /\ txn[c].held - hold[h].amount \in Int
    BY <1>4, OpenTxn DEF CommitRelease, Write
  <2> QED
    BY <1>4, <2>1, WriteType, CloseHoldType DEF CommitRelease, TypeOK
<1> QED
  BY <1>1, <1>2, <1>3, <1>4

LEMMA EndType ==
  ASSUME TypeOK, NEW c \in Call, Conflict(c) \/ Abort(c)
  PROVE  TypeOK'
<1>1. outcome[c] = "idle" /\ hold[c] = None
  BY OpenTxn DEF Conflict, Abort, TypeOK, CallsOK
<1>2. /\ txn' = [txn EXCEPT ![c] = None]
      /\ \E r \in {"none", "error"} : outcome' = [outcome EXCEPT ![c] = r]
      /\ UNCHANGED rows
  BY DEF Conflict, Abort, Finish
<1> QED
  BY <1>1, <1>2 DEF TypeOK, CallsOK, rows

LEMMA NextType == TypeOK /\ [Next]_vars => TypeOK'
<1> SUFFICES ASSUME TypeOK, [Next]_vars
             PROVE  TypeOK'
  OBVIOUS
<1>1. ASSUME NEW a \in Account, InitCredits(a)
      PROVE  TypeOK'
  BY <1>1 DEF InitCredits, TypeOK, CallsOK
<1>2. CASE UNCHANGED vars
  BY <1>2 DEF vars, rows, TypeOK, CallsOK
<1> QED
  BY <1>1, <1>2, ReadCallType, CommitType, EndType DEF Next

(* The variables keep their types, and every call the state it can be in,  *)
(* in every behaviour of the repository.                                   *)
THEOREM TypeCorrect == Spec => []TypeOK
BY InitType, NextType, PTL DEF Spec

-----------------------------------------------------------------------------
(* The version is an honest witness.  Together with the types this is the  *)
(* inductive invariant: a commit bumps the version of the one account whose*)
(* rows it writes, so every other transaction either reads another account *)
(* or is no longer current.                                                *)

LEMMA ReadWitness ==
  ASSUME TypeOK, CurrentVersionMeansCurrentRead, NEW c \in Call, UNCHANGED rows,
         \A x \in Call \ {c} : txn'[x] = txn[x],
         txn'[c] # None /\ VersionIsCurrent(c)' => ReadIsCurrent(c)'
  PROVE  CurrentVersionMeansCurrentRead'
BY DEF CurrentVersionMeansCurrentRead, ReadIsCurrent, VersionIsCurrent, rows, AdjustFits,
       PlaceFits, SettleFits, ReleaseFits, IsHeld

LEMMA ReadCallWitness ==
  ASSUME TypeOK, CurrentVersionMeansCurrentRead, NEW c \in Call
  PROVE  /\ \A a \in Account, d \in Delta :
               ReadAdjust(c, a, d) => CurrentVersionMeansCurrentRead'
         /\ \A a \in Account, e \in Estimate :
               ReadPlace(c, a, e) => CurrentVersionMeansCurrentRead'
         /\ \A h \in Call, cost \in Cost :
               ReadSettle(c, h, cost) => CurrentVersionMeansCurrentRead'
         /\ \A h \in Call : ReadRelease(c, h) => CurrentVersionMeansCurrentRead'
<1>1. ASSUME Starts(c), Refuse(c)
      PROVE  CurrentVersionMeansCurrentRead'
  BY <1>1, ReadWitness DEF Starts, Refuse, Finish
<1>2. ASSUME NEW op \in {"adjust", "place", "settle", "release"}, NEW a, NEW h, NEW n,
             Starts(c), Read(c, op, a, h, n),
             op = "adjust" => AdjustFits(a, n), op = "place" => PlaceFits(a, n),
             op = "settle" => SettleFits(h, n), op = "release" => ReleaseFits(h)
      PROVE  CurrentVersionMeansCurrentRead'
  <2>1. /\ txn'[c] = [op |-> op, account |-> a, hold |-> h, amount |-> n,
                      balance |-> balance[a], held |-> held[a], version |-> version[a]]
        /\ UNCHANGED rows
        /\ \A x \in Call \ {c} : txn'[x] = txn[x]
    BY <1>2 DEF Read, TypeOK
  <2>2. /\ txn'[c].op = op /\ txn'[c].account = a /\ txn'[c].hold = h /\ txn'[c].amount = n
        /\ txn'[c].balance = balance[a] /\ txn'[c].held = held[a]
    BY <2>1
  <2> QED
    BY <1>2, <2>1, <2>2, ReadWitness
       DEF ReadIsCurrent, AdjustFits, PlaceFits, SettleFits, ReleaseFits, IsHeld, rows
<1>3. ASSUME NEW a \in Account, NEW d \in Delta, ReadAdjust(c, a, d)
      PROVE  CurrentVersionMeansCurrentRead'
  BY <1>1, <1>2, <1>3 DEF ReadAdjust
<1>4. ASSUME NEW a \in Account, NEW e \in Estimate, ReadPlace(c, a, e)
      PROVE  CurrentVersionMeansCurrentRead'
  BY <1>1, <1>2, <1>4 DEF ReadPlace
<1>5. ASSUME NEW h \in Call, NEW cost \in Cost, ReadSettle(c, h, cost)
      PROVE  CurrentVersionMeansCurrentRead'
  BY <1>1, <1>2, <1>5 DEF ReadSettle
<1>6. ASSUME NEW h \in Call, ReadRelease(c, h)
      PROVE  CurrentVersionMeansCurrentRead'
  BY <1>1, <1>2, <1>6 DEF ReadRelease
<1> QED
  BY <1>3, <1>4, <1>5, <1>6

LEMMA CommitWitness ==
  ASSUME TypeOK, CurrentVersionMeansCurrentRead, NEW c \in Call,
         CommitAdjust(c) \/ CommitPlace(c) \/ CommitSettle(c) \/ CommitRelease(c)
  PROVE  CurrentVersionMeansCurrentRead'
<1> DEFINE a == txn[c].account
<1>1. /\ txn[c] # None /\ a \in Account /\ txn[c].version = version[a]
      /\ version' = [version EXCEPT ![a] = version[a] + 1]
      /\ txn' = [txn EXCEPT ![c] = None]
      /\ opened' = opened
      /\ \A x \in Account \ {a} : balance'[x] = balance[x] /\ held'[x] = held[x]
  BY OpenTxn DEF CommitAdjust, CommitPlace, CommitSettle, CommitRelease, Write,
                 VersionIsCurrent, TypeOK
<1>2. ASSUME NEW h \in Call, hold[h] # None, hold[h].account # a
      PROVE  hold'[h] = hold[h]
  BY <1>1, <1>2, OpenTxn DEF CommitAdjust, CommitPlace, CommitSettle, CommitRelease, Write,
                             InsertHold, CloseHold, TypeOK
<1> SUFFICES ASSUME NEW x \in Call, txn'[x] # None, VersionIsCurrent(x)'
             PROVE  ReadIsCurrent(x)'
  BY DEF CurrentVersionMeansCurrentRead
<1>3. x # c /\ txn'[x] = txn[x] /\ txn[x] # None
  BY <1>1 DEF TypeOK
<1>4. txn[x].account \in Account /\ txn[x].hold \in Call /\ txn[x].version <= version[txn[x].account]
  BY <1>3, OpenTxn DEF TypeOK, CallsOK
<1>5. txn[x].account # a
  <2>1. version[a] \in Nat /\ version'[a] = version[a] + 1 /\ txn[x].version \in Nat
    BY <1>1, <1>3, OpenTxn DEF TypeOK
  <2> QED
    BY <1>3, <1>4, <2>1 DEF VersionIsCurrent
<1>6. VersionIsCurrent(x)
  BY <1>1, <1>3, <1>4, <1>5 DEF VersionIsCurrent, TypeOK
<1>7. txn[x].op \in {"settle", "release"} =>
        hold[txn[x].hold] # None /\ hold'[txn[x].hold] = hold[txn[x].hold]
             /\ hold[txn[x].hold].account = txn[x].account
  BY <1>2, <1>3, <1>4, <1>5, OpenTxn
<1> QED
  BY <1>1, <1>3, <1>4, <1>5, <1>6, <1>7
     DEF CurrentVersionMeansCurrentRead, ReadIsCurrent, AdjustFits, PlaceFits, SettleFits,
         ReleaseFits, IsHeld

LEMMA NextWitness ==
  TypeOK /\ CurrentVersionMeansCurrentRead /\ [Next]_vars => CurrentVersionMeansCurrentRead'
<1> SUFFICES ASSUME TypeOK, CurrentVersionMeansCurrentRead, [Next]_vars
             PROVE  CurrentVersionMeansCurrentRead'
  OBVIOUS
<1>1. ASSUME NEW a \in Account, InitCredits(a)
      PROVE  CurrentVersionMeansCurrentRead'
  BY <1>1 DEF InitCredits, CurrentVersionMeansCurrentRead, VersionIsCurrent,
              ReadIsCurrent, AdjustFits, PlaceFits, SettleFits, ReleaseFits, IsHeld
<1>2. ASSUME NEW c \in Call, Conflict(c) \/ Abort(c)
      PROVE  CurrentVersionMeansCurrentRead'
  BY <1>2, ReadWitness DEF Conflict, Abort, TypeOK
<1>3. CASE UNCHANGED vars
  BY <1>3 DEF vars, rows, CurrentVersionMeansCurrentRead, VersionIsCurrent,
              ReadIsCurrent, AdjustFits, PlaceFits, SettleFits, ReleaseFits, IsHeld
<1> QED
  BY <1>1, <1>2, <1>3, ReadCallWitness, CommitWitness DEF Next

(* Every transaction whose version is still current read the rows as they  *)
(* are, in every behaviour of the repository.                              *)
THEOREM VersionWitness == Spec => []CurrentVersionMeansCurrentRead
<1>1. Init => CurrentVersionMeansCurrentRead
  BY DEF Init, CurrentVersionMeansCurrentRead
<1> QED
  BY <1>1, TypeCorrect, NextWitness, PTL DEF Spec

-----------------------------------------------------------------------------
(* Refinement: a commit is the abstract call, every other step leaves the  *)
(* abstract ledger alone.                                                  *)

LEMMA CommitRefines ==
  ASSUME TypeOK, CurrentVersionMeansCurrentRead, NEW c \in Call
  PROVE  /\ CommitAdjust(c) => \E a \in Account, d \in Delta : Adjust(c, a, d)
         /\ CommitPlace(c) => \E a \in Account, e \in Estimate : PlaceHold(c, a, e)
         /\ CommitSettle(c) => \E h \in Call, cost \in Cost : SettleHold(c, h, cost)
         /\ CommitRelease(c) => \E h \in Call : ReleaseHold(c, h)
<1> DEFINE a == txn[c].account
           n == txn[c].amount
           h == txn[c].hold
<1>1. ASSUME txn[c] # None, VersionIsCurrent(c)
      PROVE  /\ ReadIsCurrent(c) /\ outcome[c] = "idle"
             /\ a \in Account /\ h \in Call /\ n \in Int
             /\ balance[a] \in Int /\ held[a] \in Int /\ booked[a] \in Int
  BY <1>1, OpenTxn DEF CurrentVersionMeansCurrentRead, TypeOK
<1>2. ASSUME CommitAdjust(c)
      PROVE  Adjust(c, a, n) /\ n \in Delta /\ a \in Account
  <2>1. AdjustFits(a, n) /\ txn[c].balance = balance[a] /\ n \in Delta
    BY <1>1, <1>2 DEF CommitAdjust, Write, ReadIsCurrent, TypeOK, CallsOK
  <2>2. held' = held
    BY <1>1, <1>2 DEF CommitAdjust, Write, TypeOK
  <2> QED
    BY <1>1, <1>2, <2>1, <2>2
       DEF CommitAdjust, Write, Book, Finish, AdjustFits, Adjust, CanAdjust,
           Return
<1>3. ASSUME CommitPlace(c)
      PROVE  PlaceHold(c, a, n) /\ n \in Estimate /\ a \in Account
  <2>1. PlaceFits(a, n) /\ n \in Estimate
    BY <1>1, <1>3 DEF CommitPlace, Write, ReadIsCurrent, TypeOK, CallsOK
  <2> QED
    BY <1>1, <1>3, <2>1
       DEF CommitPlace, Write, InsertHold, Finish, PlaceFits, PlaceHold,
           CanPlace, Return
<1>4. ASSUME CommitSettle(c)
      PROVE  SettleHold(c, h, n) /\ n \in Cost /\ h \in Call
  <2>1. /\ SettleFits(h, n) /\ n \in Cost
        /\ txn[c].balance = balance[a] /\ txn[c].held = held[a]
        /\ hold[h].account = a /\ hold[h].amount \in Nat
    BY <1>1, <1>4, OpenTxn DEF CommitSettle, Write, ReadIsCurrent, TypeOK, CallsOK
  <2>2. CanSettle(h, n)
    <3>1. n \in Int /\ balance[a] \in Int /\ held[a] \in Int
      BY <1>1, <1>4 DEF CommitSettle, Write
    <3>2. IsHeld(h) /\ balance[a] + (hold[h].amount - n) >= 0 /\ held[a] - hold[h].amount >= 0
      BY <2>1 DEF SettleFits
    <3> QED
      BY <2>1, <3>1, <3>2 DEF IsHeld, CanSettle, IsOpenHold
  <2>3. /\ balance' = [balance EXCEPT ![a] = balance[a] + hold[h].amount - n]
        /\ held' = [held EXCEPT ![a] = held[a] - hold[h].amount]
        /\ booked' = [booked EXCEPT ![a] = booked[a] - n]
        /\ outcome' = [outcome EXCEPT ![c] = "ok"]
        /\ opened' = opened
    BY <1>1, <1>4, <2>1, <2>2 DEF CommitSettle, Write, Book, Finish
  <2>4. hold' = [hold EXCEPT ![h] = [@ EXCEPT !.status = "settled"]]
    BY <1>4 DEF CommitSettle, CloseHold
  <2> QED
    BY <1>1, <1>4, <2>1, <2>2, <2>3, <2>4, Zenon
       DEF SettleHold, Return, CommitSettle, Write
<1>5. ASSUME CommitRelease(c)
      PROVE  ReleaseHold(c, h) /\ h \in Call
  <2>1. /\ ReleaseFits(h)
        /\ txn[c].balance = balance[a] /\ txn[c].held = held[a]
        /\ hold[h].account = a /\ hold[h].amount \in Nat
    BY <1>1, <1>5, OpenTxn DEF CommitRelease, Write, ReadIsCurrent, TypeOK, CallsOK
  <2>2. /\ balance' = [balance EXCEPT ![a] = balance[a] + hold[h].amount]
        /\ held' = [held EXCEPT ![a] = held[a] - hold[h].amount]
        /\ booked' = booked
        /\ outcome' = [outcome EXCEPT ![c] = "ok"]
        /\ opened' = opened
    BY <1>1, <1>5, <2>1 DEF CommitRelease, Write, Finish
  <2>3. hold' = [hold EXCEPT ![h] = [@ EXCEPT !.status = "released"]]
    BY <1>5 DEF CommitRelease, CloseHold
  <2> QED
    BY <1>1, <1>5, <2>1, <2>2, <2>3, Zenon
       DEF ReleaseHold, CanRelease, IsOpenHold, Return,
           ReleaseFits, IsHeld, CommitRelease, Write
<1> QED
  BY <1>2, <1>3, <1>4, <1>5

LEMMA StepRefines ==
  TypeOK /\ CurrentVersionMeansCurrentRead /\ [Next]_vars
    => [LedgerNext]_(ledgerVars)
<1> SUFFICES ASSUME TypeOK, CurrentVersionMeansCurrentRead, [Next]_vars
             PROVE  LedgerNext \/ UNCHANGED ledgerVars
  OBVIOUS
<1> USE DEF ledgerVars, ledger
<1>1. ASSUME NEW a \in Account, InitCredits(a)
      PROVE  OpenAccount(a)
  BY <1>1 DEF InitCredits, OpenAccount
<1>2. ASSUME NEW c \in Call, Starts(c), Refuse(c)
      PROVE  NoEffect(c)
  BY <1>2 DEF Starts, Refuse, Finish, rows, NoEffect, Return
<1>3. ASSUME NEW c \in Call, NEW op, NEW a, NEW h, NEW n, Read(c, op, a, h, n)
      PROVE  UNCHANGED ledgerVars
  BY <1>3 DEF Read, rows
<1>4. ASSUME NEW c \in Call, Conflict(c) \/ Abort(c)
      PROVE  NoEffect(c)
  BY <1>4, OpenTxn DEF Conflict, Abort, Finish, rows, NoEffect, Return
<1>5. CASE UNCHANGED vars
  BY <1>5 DEF vars, rows
<1>6. ASSUME NEW c \in Call,
             \/ \E a \in Account, d \in Delta : ReadAdjust(c, a, d)
             \/ \E a \in Account, e \in Estimate : ReadPlace(c, a, e)
             \/ \E h \in Call, cost \in Cost : ReadSettle(c, h, cost)
             \/ \E h \in Call : ReadRelease(c, h)
      PROVE  NoEffect(c) \/ UNCHANGED ledgerVars
  BY <1>2, <1>3, <1>6 DEF ReadAdjust, ReadPlace, ReadSettle, ReadRelease
<1> QED
  BY <1>1, <1>4, <1>5, <1>6, CommitRefines DEF Next, LedgerNext

(* The repository implements the atomic ledger, for any number of accounts *)
(* and calls and any interleaving of their reads and commits.              *)
THEOREM Refinement == Spec => ImplementsAtomicLedger
<1>1. Init => LedgerInit
  BY DEF Init, LedgerInit
<1> QED
  BY <1>1, StepRefines, TypeCorrect, VersionWitness, PTL
     DEF Spec, ImplementsAtomicLedger, LedgerSpec

-----------------------------------------------------------------------------
(* What is proved of the atomic ledger holds of the repository.            *)

(* No interleaving of the transactions oversells an account, makes or      *)
(* loses credit, or lets credits.held drift from credit_holds.             *)
THEOREM RepositorySafe == Spec => [](NeverOversold /\ BooksBalance /\ HeldIsSumOfHolds)
BY Refinement, LedgerSafe, PTL DEF ImplementsAtomicLedger

(* The credit an account ever got is what it has, what is on hold and what *)
(* has been consumed.                                                      *)
THEOREM BooksAlwaysBalance == Spec => []BooksBalance
BY RepositorySafe, PTL

(* credits.held is the sum of the rows of credit_holds that are "held".    *)
THEOREM HeldNeverDrifts == Spec => []HeldIsSumOfHolds
BY RepositorySafe, PTL

(* Whoever races to close a hold, it is closed once.                       *)
THEOREM RepositoryClosesOnce == Spec => HoldsCloseOnce
BY Refinement, LedgerClosesOnce DEF ImplementsAtomicLedger
=============================================================================
