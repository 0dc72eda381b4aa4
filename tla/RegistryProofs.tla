--------------------------- MODULE RegistryProofs ---------------------------
(***************************************************************************)
(* Theorems about module Registry, for any number of topics, shards,       *)
(* creators and listers and any limit.  Assumed are ShardsAssumption and   *)
(* LimitAssumption of Registry.                                            *)
(***************************************************************************)
EXTENDS Registry, FiniteSetTheorems, TLAPS

-----------------------------------------------------------------------------
(* Types                                                                   *)

\* Every step keeps the types.
LEMMA NextType == TypeOK /\ [Next]_vars => TypeOK'
  <1> SUFFICES ASSUME TypeOK, [Next]_vars PROVE TypeOK'
    OBVIOUS
  <1> USE ShardsAssumption, LimitAssumption DEF TypeOK, Walkers, Past
  <1>1. ASSUME NEW c \in Creators, NEW n \in Names, CreateTopic(c, n)
        PROVE  TypeOK'
    BY <1>1 DEF CreateTopic
  <1>2. ASSUME NEW c \in Creators, CountShard(c) PROVE TypeOK'
    <2>1. counted[c] + Cardinality(InShard(walk[c])) \in Nat
      <3>1. IsFiniteSet(topics) /\ InShard(walk[c]) \subseteq topics
        BY FS_Subset DEF InShard
      <3> QED
        BY <3>1, FS_Subset, FS_CardinalityType
    <2>2. CASE walk[c] = ShardCount
               /\ counted[c] + Cardinality(InShard(walk[c])) >= MaxTopicsLimit
      BY <1>2, <2>2 DEF CountShard, Finish
    <2>3. CASE ~(walk[c] = ShardCount
                 /\ counted[c] + Cardinality(InShard(walk[c])) >= MaxTopicsLimit)
      BY <1>2, <2>1, <2>3 DEF CountShard
    <2> QED
      BY <2>2, <2>3
  <1>3. ASSUME NEW c \in Creators, Insert(c) PROVE TypeOK'
    BY <1>3 DEF Insert, Finish
  <1>4. ASSUME NEW n \in Names, DeleteTopic(n) PROVE TypeOK'
    BY <1>4 DEF DeleteTopic
  <1>5. ASSUME NEW l \in Listers, ListTopics(l) PROVE TypeOK'
    BY <1>5 DEF ListTopics
  <1>6. ASSUME NEW l \in Listers, ListShard(l) PROVE TypeOK'
    BY <1>6 DEF ListShard, InShard
  <1>7. CASE UNCHANGED vars
    BY <1>7 DEF vars
  <1> QED
    BY <1>1, <1>2, <1>3, <1>4, <1>5, <1>6, <1>7 DEF Next

\* The types of Registry: a walk stays within the shards, and a creator has
\* a name to create exactly while it is at work.
THEOREM TypeCorrect == Spec => []TypeOK
  <1>1. Init => TypeOK
    BY ShardsAssumption DEF Init, TypeOK, Walkers, Past
  <1> QED
    BY <1>1, NextType, PTL DEF Spec

-----------------------------------------------------------------------------
(* The limit                                                               *)

\* What the walk of a creator has not looked at yet, and what it would count
\* in the end if nothing changed any more.
Ahead(c) == {n \in topics : ShardOf[n] >= walk[c]}
Foreseen(c) == counted[c] + Cardinality(Ahead(c))

\* The creators that have passed a limit of m, or would.
Heading(m) == Passed \cup
  {c \in Creators : walk[c] \in 1..ShardCount /\ Foreseen(c) < m}

\* The overshoot, for every limit from the real one up: a deletion lowers what
\* walks foresee, but then there is a topic less.
RoomFor(m) ==
  Cardinality(topics) + Cardinality(Heading(m)) <= m + Cardinality(Creators) - 1

RoomInv == \A m \in Nat : m >= MaxTopicsLimit => RoomFor(m)

\* How sets grow and shrink by parts.
LEMMA DisjointUnion ==
  ASSUME NEW S, NEW T, IsFiniteSet(S), IsFiniteSet(T), S \cap T = {}
  PROVE  Cardinality(S \cup T) = Cardinality(S) + Cardinality(T)
  <1>1. Cardinality(S \cup T)
          = Cardinality(S) + Cardinality(T) - Cardinality(S \cap T)
    BY FS_Union
  <1>2. Cardinality(S \cap T) = 0
    BY FS_EmptySet
  <1>3. Cardinality(S) \in Nat /\ Cardinality(T) \in Nat
    BY FS_CardinalityType
  <1> QED
    BY <1>1, <1>2, <1>3

\* A finite set with one element more, or less.
LEMMA OneMore ==
  ASSUME NEW S, NEW x, IsFiniteSet(S)
  PROVE  /\ IsFiniteSet(S \cup {x}) /\ IsFiniteSet(S \ {x})
         /\ {Cardinality(S), Cardinality(S \cup {x}), Cardinality(S \ {x})}
              \subseteq Nat
         /\ Cardinality(S \cup {x}) <= Cardinality(S) + 1
         /\ Cardinality(S) <= Cardinality(S \ {x}) + 1
         /\ x \in S => Cardinality(S \ {x}) = Cardinality(S) - 1
  <1>1. Cardinality(S) \in Nat
    BY FS_CardinalityType
  <1>2. /\ IsFiniteSet(S \cup {x})
        /\ Cardinality(S \cup {x}) =
             IF x \in S THEN Cardinality(S) ELSE Cardinality(S) + 1
    BY FS_AddElement
  <1>3. /\ IsFiniteSet(S \ {x})
        /\ Cardinality(S \ {x}) =
             IF x \in S THEN Cardinality(S) - 1 ELSE Cardinality(S)
    BY FS_RemoveElement
  <1>4. Cardinality(S \ {x}) \in Nat
    BY <1>3, FS_CardinalityType
  <1> QED
    BY <1>1, <1>2, <1>3, <1>4

\* The sets that are counted are finite, and no more creators pass than are.
LEMMA Counts ==
  ASSUME TypeOK
  PROVE  /\ IsFiniteSet(topics) /\ Cardinality(topics) \in Nat
         /\ Cardinality(Creators) \in Nat
         /\ \A c \in Creators :
              IsFiniteSet(Ahead(c)) /\ Cardinality(Ahead(c)) \in Nat
         /\ \A m \in Nat : /\ IsFiniteSet(Heading(m))
                           /\ Cardinality(Heading(m)) \in Nat
                           /\ Cardinality(Heading(m)) <= Cardinality(Creators)
  <1>1. IsFiniteSet(topics) /\ Cardinality(topics) \in Nat
    BY LimitAssumption, FS_Subset, FS_CardinalityType DEF TypeOK
  <1>2. ASSUME NEW c \in Creators
        PROVE  IsFiniteSet(Ahead(c)) /\ Cardinality(Ahead(c)) \in Nat
    <2>1. Ahead(c) \subseteq topics
      BY DEF Ahead
    <2> QED
      BY <1>1, <2>1, FS_Subset, FS_CardinalityType
  <1>3. ASSUME NEW m \in Nat
        PROVE  /\ IsFiniteSet(Heading(m))
               /\ Cardinality(Heading(m)) \in Nat
               /\ Cardinality(Heading(m)) <= Cardinality(Creators)
    <2>1. Heading(m) \subseteq Creators
      BY DEF Heading, Passed
    <2> QED
      BY <2>1, LimitAssumption, FS_Subset, FS_CardinalityType
  <1>4. Cardinality(Creators) \in Nat
    BY LimitAssumption, FS_CardinalityType
  <1> QED
    BY <1>1, <1>2, <1>3, <1>4

\* Where the limit is not reached there is room, whatever creators are up to.
LEMMA RoomBelow ==
  ASSUME TypeOK, TypeOK', NEW m \in Nat, Cardinality(topics') < m
  PROVE  RoomFor(m)'
  <1>1. Heading(m)' \subseteq Creators
    BY DEF Heading, Passed
  <1>2. /\ Cardinality(Heading(m)') \in Nat
        /\ Cardinality(Heading(m)') <= Cardinality(Creators)
    BY <1>1, LimitAssumption, FS_Subset, FS_CardinalityType
  <1>3. Cardinality(topics') \in Nat
    BY LimitAssumption, FS_Subset, FS_CardinalityType DEF TypeOK
  <1> QED
    BY <1>2, <1>3, Counts DEF RoomFor

\* A step that adds no topic and lets nobody new pass a limit that has been
\* reached keeps the room.
LEMMA NobodyNew ==
  ASSUME TypeOK, TypeOK', RoomInv, topics' = topics,
         \A m \in Nat : m >= MaxTopicsLimit /\ Cardinality(topics) >= m
           => Heading(m)' \subseteq Heading(m)
  PROVE  RoomInv'
  <1> SUFFICES ASSUME NEW m \in Nat, m >= MaxTopicsLimit PROVE RoomFor(m)'
    BY DEF RoomInv
  <1>1. CASE Cardinality(topics) < m
    BY <1>1, RoomBelow
  <1>2. CASE Cardinality(topics) >= m
    <2>1. /\ Cardinality(Heading(m)') \in Nat
          /\ Cardinality(Heading(m)') <= Cardinality(Heading(m))
      BY <1>2, Counts, FS_Subset, FS_CardinalityType
    <2> QED
      BY <2>1, Counts DEF RoomInv, RoomFor
  <1> QED
    BY <1>1, <1>2, Counts

\* A creator counts a shard: what it foresees stays the same, and it passes
\* the check only when that is below the limit.
LEMMA CountShardRoom ==
  ASSUME TypeOK, TypeOK', RoomInv, NEW c \in Creators, CountShard(c)
  PROVE  RoomInv'
  <1> USE ShardsAssumption, LimitAssumption DEF Walkers, Past
  <1> DEFINE i == walk[c]
             sum == counted[c] + Cardinality(InShard(i))
  <1>1. /\ i \in 1..ShardCount /\ topics' = topics
        /\ \A h \in Creators \ {c} : walk'[h] = walk[h] /\ counted'[h] = counted[h]
    BY DEF CountShard, Finish, TypeOK
  <1>2. IsFiniteSet(InShard(i)) /\ Cardinality(InShard(i)) \in Nat
    <2>1. InShard(i) \subseteq topics
      BY DEF InShard
    <2> QED
      BY <2>1, Counts, FS_Subset, FS_CardinalityType
  <1>3. ASSUME NEW h \in Creators \ {c}, NEW m \in Nat, h \in Heading(m)'
        PROVE  h \in Heading(m)
    BY <1>1, <1>3 DEF Heading, Passed, Foreseen, Ahead
  <1>4. CASE i = ShardCount /\ sum >= MaxTopicsLimit
    <2>1. walk'[c] = 0
      BY <1>4 DEF CountShard, Finish, TypeOK
    <2>2. \A m \in Nat : c \notin Heading(m)'
      BY <2>1 DEF Heading, Passed
    <2>3. \A m \in Nat : Heading(m)' \subseteq Heading(m)
      BY <1>3, <2>2 DEF Heading, Passed
    <2> QED
      BY <1>1, <2>3, NobodyNew
  <1>5. CASE i = ShardCount /\ sum < MaxTopicsLimit
    <2>1. Ahead(c) = InShard(i)
      BY <1>5 DEF Ahead, InShard, TypeOK
    <2>2. \A m \in Nat : m >= MaxTopicsLimit => c \in Heading(m)
      BY <1>1, <1>2, <1>5, <2>1 DEF Heading, Foreseen, TypeOK
    <2>3. \A m \in Nat : m >= MaxTopicsLimit => Heading(m)' \subseteq Heading(m)
      BY <1>3, <2>2 DEF Heading, Passed
    <2> QED
      BY <1>1, <2>3, NobodyNew
  <1>6. CASE i # ShardCount
    <2>1. walk'[c] = i + 1 /\ counted'[c] = sum
      BY <1>6 DEF CountShard, TypeOK
    <2>2. Ahead(c)' \subseteq topics
      BY <1>1 DEF Ahead
    <2>3. IsFiniteSet(Ahead(c)') /\ Cardinality(Ahead(c)') \in Nat
      BY <2>2, Counts, FS_Subset, FS_CardinalityType
    <2>4. Ahead(c) = InShard(i) \cup Ahead(c)' /\ InShard(i) \cap Ahead(c)' = {}
      BY <1>1, <2>1 DEF Ahead, InShard, TypeOK
    <2>5. Cardinality(Ahead(c)) = Cardinality(InShard(i)) + Cardinality(Ahead(c)')
      BY <1>2, <2>3, <2>4, DisjointUnion
    <2>6. Foreseen(c)' = Foreseen(c)
      <3>1. counted[c] \in Nat
        BY DEF TypeOK
      <3> QED
        BY <1>2, <2>1, <2>3, <2>5, <3>1 DEF Foreseen
    <2>7. \A m \in Nat : c \in Heading(m)' => c \in Heading(m)
      BY <1>1, <1>6, <2>1, <2>6 DEF Heading, Passed
    <2>8. \A m \in Nat : Heading(m)' \subseteq Heading(m)
      BY <1>3, <2>7 DEF Heading, Passed
    <2> QED
      BY <1>1, <2>8, NobodyNew
  <1> QED
    BY <1>1, <1>2, <1>4, <1>5, <1>6 DEF TypeOK

\* A topic more is a creator less that may still create one, and no walk
\* foresees fewer.
LEMMA InsertRoom ==
  ASSUME TypeOK, TypeOK', RoomInv, NEW c \in Creators, Insert(c)
  PROVE  RoomInv'
  <1> USE ShardsAssumption, LimitAssumption DEF Walkers, Past
  <1> SUFFICES ASSUME NEW m \in Nat, m >= MaxTopicsLimit PROVE RoomFor(m)'
    BY DEF RoomInv
  <1>1. /\ walk[c] = Past /\ walk'[c] = 0
        /\ topics' = topics \cup {wanted[c]}
        /\ \A h \in Creators \ {c} : walk'[h] = walk[h] /\ counted'[h] = counted[h]
    BY DEF Insert, Finish, TypeOK
  <1>2. /\ Cardinality(topics') \in Nat
        /\ Cardinality(topics') <= Cardinality(topics) + 1
    BY <1>1, Counts, OneMore
  <1>3. ASSUME NEW h \in Creators \ {c}, h \in Heading(m)'
        PROVE  h \in Heading(m)
    <2>1. Ahead(h) \subseteq Ahead(h)' /\ Ahead(h)' \subseteq topics'
      BY <1>1 DEF Ahead
    <2>2. IsFiniteSet(Ahead(h)')
      BY <1>1, <2>1, Counts, OneMore, FS_Subset
    <2>3. /\ Cardinality(Ahead(h)') \in Nat /\ Cardinality(Ahead(h)) \in Nat
          /\ Cardinality(Ahead(h)) <= Cardinality(Ahead(h)')
      BY <2>1, <2>2, FS_Subset, FS_CardinalityType
    <2>4. counted[h] \in Nat /\ walk'[h] = walk[h] /\ counted'[h] = counted[h]
      BY <1>1 DEF TypeOK
    <2>5. Foreseen(h)' < m => Foreseen(h) < m
      BY <2>3, <2>4 DEF Foreseen
    <2> QED
      BY <1>3, <2>4, <2>5 DEF Heading, Passed
  <1>4. Heading(m)' \subseteq Heading(m) \ {c}
    BY <1>1, <1>3 DEF Heading, Passed
  <1>5. c \in Heading(m)
    BY <1>1 DEF Heading, Passed
  <1>6. /\ Cardinality(Heading(m)') \in Nat
        /\ Cardinality(Heading(m)') <= Cardinality(Heading(m)) - 1
    <2>1. /\ IsFiniteSet(Heading(m) \ {c})
          /\ Cardinality(Heading(m) \ {c}) = Cardinality(Heading(m)) - 1
      BY <1>5, Counts, OneMore
    <2> QED
      BY <1>4, <2>1, FS_Subset, FS_CardinalityType
  <1> QED
    BY <1>2, <1>6, Counts DEF RoomInv, RoomFor

\* A deletion lets a walk pass a limit of m only if it would have passed one of
\* m + 1, and for that there was room with a topic more.
LEMMA DeleteRoom ==
  ASSUME TypeOK, TypeOK', RoomInv, NEW n \in Names, DeleteTopic(n)
  PROVE  RoomInv'
  <1> USE ShardsAssumption, LimitAssumption DEF Walkers, Past
  <1> SUFFICES ASSUME NEW m \in Nat, m >= MaxTopicsLimit PROVE RoomFor(m)'
    BY DEF RoomInv
  <1>1. n \in topics /\ topics' = topics \ {n} /\ UNCHANGED <<walk, counted>>
    BY DEF DeleteTopic
  <1>2. Cardinality(topics') = Cardinality(topics) - 1
    BY <1>1, Counts, OneMore
  <1>3. ASSUME NEW h \in Creators, h \in Heading(m)'
        PROVE  h \in Heading(m + 1)
    <2>1. Ahead(h)' = Ahead(h) \ {n}
      BY <1>1 DEF Ahead
    <2>2. /\ Cardinality(Ahead(h)) \in Nat /\ Cardinality(Ahead(h)') \in Nat
          /\ Cardinality(Ahead(h)) <= Cardinality(Ahead(h)') + 1
      BY <2>1, Counts, OneMore
    <2>3. counted[h] \in Nat
      BY DEF TypeOK
    <2>4. Foreseen(h)' < m => Foreseen(h) < m + 1
      BY <1>1, <2>2, <2>3 DEF Foreseen
    <2> QED
      BY <1>1, <1>3, <2>4 DEF Heading, Passed
  <1>4. Heading(m)' \subseteq Heading(m + 1)
    BY <1>3 DEF Heading, Passed
  <1>5. m + 1 \in Nat /\ m + 1 >= MaxTopicsLimit
    OBVIOUS
  <1>6. /\ Cardinality(Heading(m)') \in Nat
        /\ Cardinality(Heading(m)') <= Cardinality(Heading(m + 1))
    BY <1>4, <1>5, Counts, FS_Subset, FS_CardinalityType
  <1>7. /\ Cardinality(topics) + Cardinality(Heading(m + 1))
             <= m + 1 + Cardinality(Creators) - 1
        /\ Cardinality(Heading(m + 1)) \in Nat
    BY <1>5, Counts DEF RoomInv, RoomFor
  <1> QED
    BY <1>2, <1>6, <1>7, Counts DEF RoomFor

\* Every step keeps the room.
LEMMA NextRoom ==
  ASSUME TypeOK, TypeOK', RoomInv, [Next]_vars
  PROVE  RoomInv'
  <1> USE ShardsAssumption, LimitAssumption DEF Walkers, Past
  <1>1. ASSUME NEW c \in Creators, NEW n \in Names, CreateTopic(c, n)
        PROVE  RoomInv'
    <2>1. /\ topics' = topics /\ walk'[c] = 1 /\ counted' = counted
          /\ walk[c] = 0
          /\ \A h \in Creators \ {c} : walk'[h] = walk[h]
      BY <1>1 DEF CreateTopic, TypeOK
    <2>2. Ahead(c)' = topics
      BY <2>1 DEF Ahead, TypeOK
    <2>3. ASSUME NEW m \in Nat, m >= MaxTopicsLimit, Cardinality(topics) >= m
          PROVE  Heading(m)' \subseteq Heading(m)
      <3>1. counted[c] \in Nat
        BY DEF TypeOK
      <3>2. c \notin Heading(m)'
        BY <2>1, <2>2, <2>3, <3>1, Counts DEF Heading, Passed, Foreseen
      <3>3. ASSUME NEW h \in Creators \ {c}, h \in Heading(m)'
            PROVE  h \in Heading(m)
        BY <2>1, <3>3 DEF Heading, Passed, Foreseen, Ahead
      <3> QED
        BY <3>2, <3>3 DEF Heading, Passed
    <2> QED
      BY <2>1, <2>3, NobodyNew
  <1>2. ASSUME NEW l \in Listers, ListTopics(l) \/ ListShard(l) PROVE RoomInv'
    <2>1. /\ topics' = topics /\ counted' = counted
          /\ \A h \in Creators : walk'[h] = walk[h]
      BY <1>2 DEF ListTopics, ListShard, TypeOK
    <2>2. \A m \in Nat : Heading(m)' = Heading(m)
      BY <2>1 DEF Heading, Passed, Foreseen, Ahead
    <2> QED
      BY <2>1, <2>2, NobodyNew
  <1>3. CASE UNCHANGED vars
    <2>1. \A m \in Nat : Heading(m)' = Heading(m) /\ topics' = topics
      BY <1>3 DEF vars, Heading, Passed, Foreseen, Ahead
    <2> QED
      BY <2>1, NobodyNew
  <1> QED
    BY <1>1, <1>2, <1>3, CountShardRoom, InsertRoom, DeleteRoom DEF Next

\* The check of the limit and the insertion share no lock, and the count it
\* goes by mixes moments; still each creator can add one topic too many at
\* most, and one of them none.
THEOREM OvershootBounded == Spec => []LimitOvershoot
  <1>1. Init => RoomInv
    <2> SUFFICES ASSUME Init, NEW m \in Nat, m >= MaxTopicsLimit PROVE RoomFor(m)
      BY DEF RoomInv
    <2>1. Cardinality(topics) = 0 /\ Cardinality(Creators) \in Nat
      BY LimitAssumption, FS_EmptySet, FS_CardinalityType DEF Init
    <2>2. Heading(m) = {}
      BY ShardsAssumption DEF Init, Heading, Passed, Walkers, Past
    <2>3. Cardinality(Heading(m)) = 0
      BY <2>2, FS_EmptySet
    <2> QED
      BY <2>1, <2>3, LimitAssumption DEF RoomFor
  <1>2. TypeOK /\ RoomInv => LimitOvershoot
    <2> SUFFICES ASSUME TypeOK, RoomInv PROVE LimitOvershoot
      OBVIOUS
    <2> DEFINE m == MaxTopicsLimit
    <2>1. RoomFor(m)
      BY LimitAssumption DEF RoomInv
    <2>2. Cardinality(Passed) <= Cardinality(Heading(m)) /\ Cardinality(Passed) \in Nat
      <3>1. Passed \subseteq Heading(m)
        BY DEF Heading
      <3> QED
        BY <3>1, LimitAssumption, Counts, FS_Subset, FS_CardinalityType
    <2> QED
      BY <2>1, <2>2, LimitAssumption, Counts DEF RoomFor, LimitOvershoot
  <1> QED
    BY <1>1, <1>2, NextRoom, TypeCorrect, PTL DEF Spec

-----------------------------------------------------------------------------
(* The list                                                                *)

\* A topic that stays is in the shard it was in: once the walk is past it, the
\* topic is in the list.
WalkInv ==
  \A l \in Listers :
    /\ walk[l] # 0 => steady[l] \subseteq topics
    /\ \A n \in steady[l] : walk[l] = 0 \/ ShardOf[n] < walk[l] => n \in listed[l]

\* Every step keeps that.
LEMMA NextWalk ==
  ASSUME TypeOK, TypeOK', WalkInv, [Next]_vars
  PROVE  WalkInv'
  <1> USE ShardsAssumption, LimitAssumption DEF Walkers, Past
  <1>1. ASSUME NEW c \in Creators,
               (\E n \in Names : CreateTopic(c, n)) \/ CountShard(c) \/ Insert(c)
        PROVE  WalkInv'
    <2>1. /\ topics \subseteq topics' /\ UNCHANGED <<listed, steady>>
          /\ \A l \in Listers : walk'[l] = walk[l]
      BY <1>1 DEF CreateTopic, CountShard, Insert, Finish, TypeOK
    <2> QED
      BY <2>1 DEF WalkInv
  <1>2. ASSUME NEW n \in Names, DeleteTopic(n) PROVE WalkInv'
    <2>1. /\ topics' = topics \ {n} /\ UNCHANGED <<walk, listed>>
          /\ \A l \in Listers : steady'[l] = steady[l] \ {n}
      BY <1>2 DEF DeleteTopic
    <2> QED
      BY <2>1 DEF WalkInv
  <1>3. ASSUME NEW l \in Listers, ListTopics(l) \/ ListShard(l) PROVE WalkInv'
    <2>1. /\ topics' = topics
          /\ \A k \in Listers \ {l} : /\ walk'[k] = walk[k] /\ steady'[k] = steady[k]
                                      /\ listed'[k] = listed[k]
      BY <1>3 DEF ListTopics, ListShard, TypeOK
    <2>2. CASE ListTopics(l)
      <3>1. walk'[l] = 1 /\ steady'[l] = topics
        BY <2>2 DEF ListTopics, TypeOK
      <3> QED
        BY <2>1, <3>1 DEF WalkInv, TypeOK
    <2>3. CASE ListShard(l)
      <3>1. /\ walk[l] \in 1..ShardCount
            /\ walk'[l] = IF walk[l] = ShardCount THEN 0 ELSE walk[l] + 1
            /\ listed'[l] = listed[l] \cup InShard(walk[l])
            /\ steady'[l] = steady[l]
        BY <2>3 DEF ListShard, TypeOK
      <3>2. steady[l] \subseteq topics /\ steady[l] \subseteq Names
        BY <3>1 DEF WalkInv, TypeOK
      <3>3. ASSUME NEW n \in steady[l], walk'[l] = 0 \/ ShardOf[n] < walk'[l]
            PROVE  n \in listed'[l]
        <4>1. ShardOf[n] \in 1..ShardCount /\ n \in topics
          BY <3>2
        <4>2. ShardOf[n] < walk[l] \/ ShardOf[n] = walk[l]
          BY <3>1, <3>3, <4>1
        <4> QED
          BY <3>1, <4>1, <4>2 DEF WalkInv, InShard
      <3> QED
        BY <2>1, <3>1, <3>2, <3>3 DEF WalkInv
    <2> QED
      BY <1>3, <2>2, <2>3
  <1>4. CASE UNCHANGED vars
    BY <1>4 DEF vars, WalkInv
  <1> QED
    BY <1>1, <1>2, <1>3, <1>4 DEF Next

\* A list has every topic that was there from before its walk to the end of it,
\* although each shard is locked for itself.
THEOREM ListsComplete == Spec => []ListComplete
  <1>1. Init => WalkInv
    BY DEF Init, WalkInv, Walkers
  <1>2. WalkInv => ListComplete
    BY DEF WalkInv, ListComplete
  <1> QED
    BY <1>1, <1>2, NextWalk, TypeCorrect, PTL DEF Spec
=============================================================================
