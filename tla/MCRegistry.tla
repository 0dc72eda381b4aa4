----------------------------- MODULE MCRegistry -----------------------------
(* Instances of Registry for TLC: the names are 1..6, dealt out to two      *)
(* shards.                                                                  *)
EXTENDS Registry, TLC

OddAndEven == [n \in Names |-> 1 + (n % 2)]
CreatorSymmetry == Permutations(Creators)
=============================================================================
