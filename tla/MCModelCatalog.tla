--------------------------- MODULE MCModelCatalog ---------------------------
(* A small instance of ModelCatalog: one model, with a mapping to each of  *)
(* two providers.                                                          *)
EXTENDS ModelCatalog, TLC

CONSTANTS m1, k1, k2, p1, p2

OneModel     == [k \in Mapping |-> m1]
TwoProviders == [k \in Mapping |-> IF k = k2 THEN p2 ELSE p1]

Setup(level, weight, strategy, enabled) ==
  [level |-> level, weight |-> weight, strategy |-> strategy, enabled |-> enabled]

Settings == {Setup(1, 1, "sequential", TRUE), Setup(2, 2, "random", TRUE),
             Setup(1, 1, "random", FALSE)}

Symmetry == Permutations(Call) \cup Permutations(Rate) \cup Permutations(Key)

(* Prices and records concern requests and the other two tables only in    *)
(* that a model is there.  So either the calls that write prices are free, *)
(* and there is no provider yet; or everything else is, and the only such  *)
(* calls are deletions, whose records are in order.                        *)
OneSideAtATime ==
  \/ \A p \in Provider : provider[p] = None
  \/ /\ \A c \in Call : at[c] # "idle" => doing[c].after = None
     /\ \A m \in Model : Unknown \notin trail[m] /\ Cardinality(trail[m]) = 1
=============================================================================
