------------------------------ MODULE Registry ------------------------------
(***************************************************************************)
(* The set of topics, spread over shards: Broker.CreateTopic with its      *)
(* limit, DeleteTopic, and the listing behind GET /topics, /stats and      *)
(* /health (internal/broker/broker.go).                                    *)
(*                                                                         *)
(* A topic is its name here.  A shard is locked for itself, and only while *)
(* it is looked at or changed: a walk over the shards, to count or to list *)
(* the topics, sees each of them at another moment.  The broker's array of *)
(* shards is 1..ShardCount and every walk goes through it in that order.   *)
(***************************************************************************)
EXTENDS Integers, FiniteSets

CONSTANTS
  Names,           \* topic names
  ShardCount,
  ShardOf,         \* selectShardForTopic
  MaxTopicsLimit,
  Creators,        \* REST handlers that create topics
  Listers,         \* REST handlers that list topics
  NoName

ASSUME ShardsAssumption ==
  /\ ShardCount \in Nat \ {0}
  /\ ShardOf \in [Names -> 1..ShardCount]
  /\ NoName \notin Names

ASSUME LimitAssumption ==
  /\ MaxTopicsLimit \in Nat \ {0}
  /\ IsFiniteSet(Names) /\ IsFiniteSet(Creators)
  /\ Creators \cap Listers = {}

VARIABLES
  topics,    \* the topics of all shards together
  walk,      \* the shard the walk of a handler looks at next, 0 outside of one
  wanted,    \* the name a creator is to create, or NoName
  counted,   \* topics a creator has counted so far
  listed,    \* topics a lister has collected
  steady     \* history: topics that have been there since the walk began

vars == <<topics, walk, wanted, counted, listed, steady>>

Walkers == Creators \cup Listers
Past == ShardCount + 1     \* a creator that found the limit not reached
InShard(i) == {n \in topics : ShardOf[n] = i}

Init ==
  /\ topics = {}
  /\ walk = [g \in Walkers |-> 0]
  /\ wanted = [c \in Creators |-> NoName]
  /\ counted = [c \in Creators |-> 0]
  /\ listed = [l \in Listers |-> {}]
  /\ steady = [l \in Listers |-> {}]

-----------------------------------------------------------------------------
(* CreateTopic                                                             *)

CreateTopic(c, n) ==
  /\ walk[c] = 0
  /\ walk' = [walk EXCEPT ![c] = 1]
  /\ wanted' = [wanted EXCEPT ![c] = n]
  /\ UNCHANGED <<topics, counted, listed, steady>>

Finish(c) ==
  /\ walk' = [walk EXCEPT ![c] = 0]
  /\ wanted' = [wanted EXCEPT ![c] = NoName]
  /\ counted' = [counted EXCEPT ![c] = 0]

\* Variation of CountShard: the limit itself still passes.
CountShardOffByOne(c) ==
  LET sum == counted[c] + Cardinality(InShard(walk[c])) IN
  /\ walk[c] \in 1..ShardCount
  /\ IF sum > MaxTopicsLimit
     THEN Finish(c)
     ELSE /\ walk' = [walk EXCEPT ![c] = @ + 1]
          /\ counted' = [counted EXCEPT ![c] = IF walk[c] = ShardCount
                                               THEN 0 ELSE sum]
          /\ UNCHANGED wanted
  /\ UNCHANGED <<topics, listed, steady>>

\* GetTotalTopicCount, one shard at a time; CreateTopic goes on with the
\* sum of the last one.
CountShard(c) ==
  LET sum == counted[c] + Cardinality(InShard(walk[c])) IN
  /\ walk[c] \in 1..ShardCount
  /\ IF walk[c] = ShardCount /\ sum >= MaxTopicsLimit
     THEN Finish(c)
     ELSE /\ walk' = [walk EXCEPT ![c] = @ + 1]
          /\ counted' = [counted EXCEPT ![c] = IF walk[c] = ShardCount
                                               THEN 0 ELSE sum]
          /\ UNCHANGED wanted
  /\ UNCHANGED <<topics, listed, steady>>

\* Shard.CreateTopic: the name may be taken.
Insert(c) ==
  /\ walk[c] = Past
  /\ topics' = topics \cup {wanted[c]}
  /\ Finish(c)
  /\ UNCHANGED <<listed, steady>>

-----------------------------------------------------------------------------
(* DeleteTopic, whole: the lock it holds is in Broker                      *)

DeleteTopic(n) ==
  /\ n \in topics
  /\ topics' = topics \ {n}
  /\ steady' = [l \in Listers |-> steady[l] \ {n}]
  /\ UNCHANGED <<walk, wanted, counted, listed>>

-----------------------------------------------------------------------------
(* ListAllTopics                                                           *)

ListTopics(l) ==
  /\ walk[l] = 0
  /\ walk' = [walk EXCEPT ![l] = 1]
  /\ listed' = [listed EXCEPT ![l] = {}]
  /\ steady' = [steady EXCEPT ![l] = topics]
  /\ UNCHANGED <<topics, wanted, counted>>

\* Variation of ListShard: the last shard is left out.
ListShardOneShort(l) ==
  /\ walk[l] \in 1..ShardCount
  /\ listed' = [listed EXCEPT ![l] = IF walk[l] = ShardCount
                                     THEN @ ELSE @ \cup InShard(walk[l])]
  /\ walk' = [walk EXCEPT ![l] = IF @ = ShardCount THEN 0 ELSE @ + 1]
  /\ UNCHANGED <<topics, wanted, counted, steady>>

ListShard(l) ==
  /\ walk[l] \in 1..ShardCount
  /\ listed' = [listed EXCEPT ![l] = @ \cup InShard(walk[l])]
  /\ walk' = [walk EXCEPT ![l] = IF @ = ShardCount THEN 0 ELSE @ + 1]
  /\ UNCHANGED <<topics, wanted, counted, steady>>

-----------------------------------------------------------------------------

Next ==
  \/ \E c \in Creators, n \in Names : CreateTopic(c, n)
  \/ \E c \in Creators : CountShard(c) \/ Insert(c)
  \/ \E n \in Names : DeleteTopic(n)
  \/ \E l \in Listers : ListTopics(l) \/ ListShard(l)

Spec == Init /\ [][Next]_vars

-----------------------------------------------------------------------------
(* Properties                                                              *)

TypeOK ==
  /\ topics \subseteq Names
  /\ walk \in [Walkers -> 0..Past]
  /\ \A l \in Listers : walk[l] # Past
  /\ wanted \in [Creators -> Names \cup {NoName}]
  /\ \A c \in Creators : wanted[c] = NoName <=> walk[c] = 0
  /\ counted \in [Creators -> Nat]
  /\ listed \in [Listers -> SUBSET Names]
  /\ steady \in [Listers -> SUBSET Names]

Passed == {c \in Creators : walk[c] = Past}

\* The limit is checked before the topic is inserted, without a common lock,
\* and on a count that mixes moments: every creator may add one topic too
\* many, but the last one to pass the check leaves room for itself.
LimitOvershoot ==
  Cardinality(topics) + Cardinality(Passed)
    <= MaxTopicsLimit + Cardinality(Creators) - 1

\* A list has every topic that existed from before the walk to its end.
ListComplete == \A l \in Listers : walk[l] = 0 => steady[l] \subseteq listed[l]
=============================================================================
