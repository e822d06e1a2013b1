--------------------------- MODULE MCWeightStream ---------------------------
(***************************************************************************)
(* Instances of WeightStream for TLC. Items are alike.                     *)
(***************************************************************************)
EXTENDS WeightStream, TLC

Symmetry == Permutations(Items)

(* Rounds of one or two requests, repeated ones among them.                *)
Pairs == { <<i>> : i \in Items } \cup { <<i, j>> : i \in Items, j \in Items }

(* Rounds of up to three requests, wider than the pool among them.         *)
Triples == Pairs \cup { <<i, j, k>> : i \in Items, j \in Items, k \in Items }
=============================================================================
