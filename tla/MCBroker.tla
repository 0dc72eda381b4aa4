------------------------------ MODULE MCBroker ------------------------------
(* Instances of Broker for TLC.  Every instance keeps its topics in one     *)
(* shard: topics of different shards share no lock.                         *)
EXTENDS Broker, TLC

OneShard == {0}
AllInOneShard == [t \in Topics |-> 0]
ClientSymmetry == Permutations(Clients)
=============================================================================
