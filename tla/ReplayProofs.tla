---------------------------- MODULE ReplayProofs ----------------------------
(***************************************************************************)
(* Theorems about module Replay, for any number of publishers and          *)
(* subscribers, any sizes and any number of publishes, topics and          *)
(* restarts.  SizesAssumption of Replay is all that is assumed.            *)
(***************************************************************************)
EXTENDS Replay, SequenceTheorems, TLAPS

-----------------------------------------------------------------------------
(* Types                                                                   *)

\* Where a publisher can be, where a subscriber, and where a publisher is
\* between the lookup of its topic and its answer.
PublisherLabels == {"idle", "push", "trim", "snapshot", "fanout", "gone"}
SubscriberLabels == {"out", "found", "joined", "replaying", "assigning",
                     "subscribed", "gone"}
Work == {"push", "trim", "snapshot", "fanout"}

\* Who is where.
AtType ==
  /\ at \in [Publishers \cup Subscribers -> PublisherLabels \cup SubscriberLabels]
  /\ \A p \in Publishers : at[p] \in PublisherLabels
  /\ \A s \in Subscribers : at[s] \in SubscriberLabels

ListType == list \in Seq(Messages) /\ log \in Seq(Messages)

\* A publisher at work has a message, and that an object.
PublishType ==
  /\ serial \in [Publishers -> 0..MaxPublishes]
  /\ on \in [Messages -> 0..MaxTopics]
  /\ todo \in [Publishers -> SUBSET Subscribers]
  /\ published \subseteq Messages
  /\ \A p \in Publishers :
       at[p] \in Work => serial[p] >= 1 /\ on[Current(p)] # 0

\* A subscriber that has found the topic holds its object.
TopicType ==
  /\ topic \in {0, created}
  /\ created \in 0..MaxTopics
  /\ restarts \in 0..MaxRestarts
  /\ members \in [Objects -> SUBSET Subscribers]
  /\ joined \in [Subscribers -> 0..MaxTopics]
  /\ \A s \in Subscribers : at[s] # "out" => joined[s] # 0

\* A pointer in a queue points to the variable of a loop that has begun.
QueueType ==
  /\ isClosed \in [Subscribers -> BOOLEAN]
  /\ queue \in [Subscribers -> Seq(Entries)]
  /\ \A s \in Subscribers :
       /\ Len(queue[s]) <= QueueSize
       /\ \A i \in 1..Len(queue[s]) :
            queue[s][i] = Replayed => loopVar[s] \in Messages \cup {Torn}
  /\ loopVar \in [Subscribers -> Messages \cup {Torn, NoMessage}]

\* The loop over replayMessages assigns only while there is something left.
ReadType ==
  /\ replay \in [Subscribers -> Seq(Messages)]
  /\ \A s \in Subscribers : at[s] = "assigning" => replay[s] # <<>>
  /\ received \in [Subscribers -> SUBSET (Messages \cup {Torn})]
  /\ reached \in [Subscribers -> SUBSET Messages]
  /\ window \in [Subscribers -> SUBSET Messages]
  /\ floor \in [Subscribers -> Int]

\* TypeOK, and what an induction needs besides it.
TypeInv ==
  AtType /\ ListType /\ PublishType /\ TopicType /\ QueueType /\ ReadType

\* What the library says of the sequences here, in one place.
LEMMA Sequence ==
  ASSUME NEW S, NEW q \in Seq(S)
  PROVE  /\ Len(q) \in Nat
         /\ \A i \in 1..Len(q) : q[i] \in S
         /\ \A e \in S : /\ Append(q, e) \in Seq(S)
                         /\ Len(Append(q, e)) = Len(q) + 1
                         /\ \A i \in 1..Len(q) : Append(q, e)[i] = q[i]
                         /\ Append(q, e)[Len(q) + 1] = e
         /\ q # <<>> => /\ Len(q) >= 1
                        /\ Head(q) = q[1]
                        /\ Tail(q) \in Seq(S)
                        /\ Len(Tail(q)) = Len(q) - 1
                        /\ \A i \in 1..Len(Tail(q)) : Tail(q)[i] = q[i + 1]
  <1>1. Len(q) \in Nat /\ \A i \in 1..Len(q) : q[i] \in S
    BY LenProperties, ElementOfSeq
  <1>2. ASSUME NEW e \in S
        PROVE  /\ Append(q, e) \in Seq(S)
               /\ Len(Append(q, e)) = Len(q) + 1
               /\ \A i \in 1..Len(q) : Append(q, e)[i] = q[i]
               /\ Append(q, e)[Len(q) + 1] = e
    BY AppendProperties
  <1>3. ASSUME q # <<>>
        PROVE  /\ Len(q) >= 1
               /\ Head(q) = q[1]
               /\ Tail(q) \in Seq(S)
               /\ Len(Tail(q)) = Len(q) - 1
               /\ \A i \in 1..Len(Tail(q)) : Tail(q)[i] = q[i + 1]
    BY <1>1, <1>3, EmptySeq, HeadTailProperties
  <1> QED
    BY <1>1, <1>2, <1>3

\* A list turned around, and its beginning.
LEMMA Turned ==
  ASSUME NEW S, NEW q \in Seq(S)
  PROVE  /\ Reverse(q) \in Seq(S)
         /\ Len(Reverse(q)) = Len(q)
         /\ \A i \in 1..Len(q) : Reverse(q)[i] = q[Len(q) - i + 1]
         /\ ToSet(q) \subseteq S
         /\ \A e : e \in ToSet(q) <=> \E i \in 1..Len(q) : q[i] = e
  <1>1. /\ Len(q) \in Nat /\ DOMAIN q = 1..Len(q)
        /\ \A i \in 1..Len(q) : q[i] \in S
    BY LenProperties, ElementOfSeq
  <1>2. \A i \in 1..Len(q) : Len(q) - i + 1 \in 1..Len(q)
    BY <1>1
  <1> QED
    BY <1>1, <1>2, IsASeq DEF Reverse, ToSet

\* What LRANGE returns and LTRIM keeps: the first n elements.
LEMMA Beginning ==
  ASSUME NEW S, NEW q \in Seq(S), NEW n \in Nat
  PROVE  LET b == SubSeq(q, 1, Smaller(n, Len(q))) IN
         /\ b \in Seq(S)
         /\ Len(b) = Smaller(n, Len(q))
         /\ \A i \in 1..Len(b) : b[i] = q[i]
  <1> DEFINE k == Smaller(n, Len(q))
  <1>1. Len(q) \in Nat /\ k \in Nat /\ k <= Len(q)
    BY LenProperties DEF Smaller
  <1>2. \A i \in 1..k : q[i] \in S
    BY <1>1, ElementOfSeq
  <1> HIDE DEF k
  <1>3. /\ SubSeq(q, 1, k) \in Seq(S)
        /\ Len(SubSeq(q, 1, k)) = k
        /\ \A i \in 1..k : SubSeq(q, 1, k)[i] = q[i]
    BY <1>1, <1>2, SubSeqProperties
  <1> QED
    BY <1>3 DEF k


\* The message a publisher is at work on.
LEMMA InHand ==
  ASSUME TypeInv, NEW p \in Publishers, at[p] \in Work
  PROVE  Current(p) \in Messages /\ on[Current(p)] \in Objects
  BY SizesAssumption DEF TypeInv, PublishType, Current, Messages, Objects

\* What a queue holds can be told apart.
LEMMA EntriesDiffer ==
  /\ {Replayed, Ack, Notice} \subseteq Entries
  /\ Replayed # Ack /\ Replayed # Notice
  /\ \A m \in Messages : /\ Live(m) \in Entries
                         /\ Live(m) \notin {Replayed, Ack, Notice}
                         /\ Live(m)[2] = m
  BY DEF Entries, Live, Replayed, Ack, Notice

\* LPUSH of one or two copies.
LEMMA Copies ==
  ASSUME NEW copies \in {1, 2}, NEW m \in Messages
  PROVE  /\ [i \in 1..copies |-> m] \in Seq(Messages)
         /\ Len([i \in 1..copies |-> m]) = copies
  BY IsASeq

\* A step of one goroutine.
LEMMA MoveAt ==
  ASSUME TypeInv, NEW g, NEW label, Goto(g, label),
         \/ g \in Publishers /\ label \in PublisherLabels
         \/ g \in Subscribers /\ label \in SubscriberLabels
  PROVE  /\ AtType' /\ at'[g] = label
         /\ \A h \in (Publishers \cup Subscribers) \ {g} : at'[h] = at[h]
         /\ g \in Publishers => \A s \in Subscribers : at'[s] = at[s]
         /\ g \in Subscribers => \A p \in Publishers : at'[p] = at[p]
  BY SizesAssumption DEF TypeInv, AtType, Goto

\* SendMessage.
LEMMA SendType ==
  ASSUME TypeInv, NEW s \in Subscribers, NEW entry \in Entries,
         Queued(s, entry) \/ Rejected(s),
         loopVar' \in [Subscribers -> Messages \cup {Torn, NoMessage}],
         \A r \in Subscribers \ {s} : loopVar'[r] = loopVar[r],
         \/ loopVar'[s] = loopVar[s] /\ entry # Replayed
         \/ loopVar'[s] \in Messages \cup {Torn}
  PROVE  QueueType'
  <1> USE SizesAssumption DEF TypeInv, QueueType
  <1>1. queue[s] \in Seq(Entries) /\ Len(queue[s]) \in Nat
    BY Sequence
  <1>2. CASE Queued(s, entry)
    <2>1. /\ queue'[s] = Append(queue[s], entry)
          /\ queue'[s] \in Seq(Entries) /\ Len(queue'[s]) = Len(queue[s]) + 1
          /\ \A i \in 1..Len(queue[s]) : queue'[s][i] = queue[s][i]
          /\ queue'[s][Len(queue[s]) + 1] = entry
      BY <1>1, <1>2, Sequence DEF Queued
    <2>2. /\ \A r \in Subscribers \ {s} : queue'[r] = queue[r]
          /\ queue' \in [Subscribers -> Seq(Entries)]
          /\ isClosed' = isClosed
          /\ Len(queue'[s]) <= QueueSize
      BY <1>1, <1>2, <2>1 DEF Queued
    <2>3. ASSUME NEW i \in 1..Len(queue'[s]), queue'[s][i] = Replayed
          PROVE  loopVar'[s] \in Messages \cup {Torn}
      <3>1. i \in 1..Len(queue[s]) \/ i = Len(queue[s]) + 1
        BY <1>1, <2>1
      <3> QED
        BY <2>1, <2>3, <3>1
    <2> QED
      BY <2>2, <2>3
  <1>3. CASE Rejected(s)
    <2>1. <<>> \in Seq(Entries) /\ Len(<<>>) = 0
      BY EmptySeq
    <2>2. CASE UNCHANGED <<isClosed, queue>>
      BY <2>2, <1>1
    <2>3. CASE Shut(s)
      <3>1. /\ queue'[s] = <<>> /\ queue' \in [Subscribers -> Seq(Entries)]
            /\ isClosed' \in [Subscribers -> BOOLEAN]
            /\ \A r \in Subscribers \ {s} : queue'[r] = queue[r]
        BY <2>1, <2>3 DEF Shut
      <3> QED
        BY <2>1, <3>1
    <2> QED
      BY <1>3, <2>2, <2>3 DEF Rejected
  <1> QED
    BY <1>2, <1>3

\* The steps of Broker.PublishMessage keep the types.
LEMMA PublishingType ==
  ASSUME TypeInv, NEW p \in Publishers, Publishing(p)
  PROVE  TypeInv'
  <1> USE SizesAssumption DEF publishVars, readVars, memberVars, topicVars
  <1>a. p \notin Subscribers
    OBVIOUS
  <1>b. ASSUME NEW label \in PublisherLabels, Goto(p, label)
        PROVE  /\ AtType' /\ at'[p] = label
               /\ \A q \in (Publishers \cup Subscribers) \ {p} : at'[q] = at[q]
               /\ \A s \in Subscribers : at'[s] = at[s]
    BY <1>b, MoveAt
  <1> USE DEF TypeInv
  <1>1. CASE Publish(p)
    <2>1. serial[p] + 1 \in 1..MaxPublishes /\ topic \in Objects
      BY <1>1 DEF Publish, TopicType, PublishType, Objects
    <2>2. AtType' /\ \A q \in (Publishers \cup Subscribers) \ {p} : at'[q] = at[q]
      BY <1>1, <1>b DEF Publish, PublisherLabels
    <2>3. PublishType'
      BY <1>1, <2>1, <2>2 DEF Publish, PublishType, Current, Messages, Objects, Work
    <2> QED
      BY <1>1, <1>a, <2>2, <2>3 DEF Publish, TopicType, ListType, QueueType, ReadType
  <1>2. ASSUME ListType', UNCHANGED <<topicVars, memberVars, isClosed, queue,
                 loopVar, received, reached, serial, on, published, readVars>>,
               todo' \in [Publishers -> SUBSET Subscribers],
               NEW label \in PublisherLabels, Goto(p, label),
               label \in Work => at[p] \in Work
        PROVE  TypeInv'
    <2>1. AtType' /\ PublishType'
      BY <1>2, <1>b DEF PublishType, Current
    <2> QED
      BY <1>2, <1>b, <2>1 DEF TopicType, QueueType, ReadType
  <1>3. CASE Push(p) \/ PushFails(p)
    <2>1. Current(p) \in Messages /\ at[p] \in Work
      BY <1>3, InHand DEF Push, PushFails, Work
    <2>2. ListType'
      <3>1. ASSUME NEW copies \in {1, 2},
                   list' = [i \in 1..copies |-> Current(p)] \o list,
                   log' = log \o [i \in 1..copies |-> Current(p)]
            PROVE  ListType'
        BY <2>1, <3>1, Copies, ConcatProperties DEF ListType
      <3>2. ASSUME list' = <<Current(p)>> \o list, log' = Append(log, Current(p))
            PROVE  ListType'
        BY <2>1, <3>2, AppendProperties, ConcatProperties DEF ListType
      <3> QED
        BY <1>3, <3>1, <3>2 DEF Push, PushFails, ListType
    <2> QED
      BY <1>2, <1>3, <2>1, <2>2 DEF Push, PushFails, PublisherLabels, Work, PublishType
  <1>4. CASE Trim(p) \/ TrimFails(p)
    <2>1. ListType'
      BY <1>4, SizesAssumption, Beginning DEF Trim, TrimFails, ListType
    <2> QED
      BY <1>2, <1>4, <2>1 DEF Trim, TrimFails, PublisherLabels, Work, PublishType
  <1>5. CASE Snapshot(p)
    <2>1. members[on[Current(p)]] \subseteq Subscribers
      BY <1>5, InHand DEF Snapshot, Work, TopicType
    <2>2. todo' \in [Publishers -> SUBSET Subscribers]
      BY <1>5, <2>1 DEF Snapshot, PublishType
    <2> QED
      BY <1>2, <1>5, <2>2 DEF Snapshot, PublisherLabels, Work, ListType
  <1>6. CASE PublishDone(p)
    <2>1. Current(p) \in Messages
      BY <1>6, InHand DEF PublishDone, Work
    <2>2. AtType' /\ \A q \in (Publishers \cup Subscribers) \ {p} : at'[q] = at[q]
      BY <1>6, <1>b DEF PublishDone, PublisherLabels
    <2>3. at'[p] = "idle"
      BY <1>6, <1>b DEF PublishDone, PublisherLabels
    <2>4. PublishType'
      BY <1>6, <2>1, <2>2, <2>3 DEF PublishDone, PublishType, Current, Work
    <2> QED
      BY <1>6, <1>a, <2>2, <2>4
         DEF PublishDone, TopicType, ListType, QueueType, ReadType
  <1>7. ASSUME NEW s \in Subscribers, Send(p, s) PROVE TypeInv'
    <2>1. Current(p) \in Messages /\ Live(Current(p)) \in Entries
      BY <1>7, InHand, EntriesDiffer DEF Send, Work
    <2>2. Live(Current(p)) # Replayed
      BY <2>1, EntriesDiffer
    <2>3. QueueType'
      <3>1. Queued(s, Live(Current(p))) \/ Rejected(s)
        BY <1>7 DEF Send
      <3>2. loopVar' = loopVar
        BY <1>7 DEF Send
      <3> QED
        BY <2>1, <2>2, <3>1, <3>2, SendType DEF QueueType
    <2>4. reached' \in [Subscribers -> SUBSET Messages]
      <3>1. reached \in [Subscribers -> SUBSET Messages]
        BY DEF ReadType
      <3>2. \/ reached' = reached
            \/ reached' = [reached EXCEPT ![s] = reached[s] \cup {Current(p)}]
        BY <1>7 DEF Send
      <3> QED
        BY <2>1, <3>1, <3>2
    <2>5. todo' \in [Publishers -> SUBSET Subscribers]
      BY <1>7 DEF Send, PublishType
    <2> QED
      BY <1>7, <2>3, <2>4, <2>5
         DEF Send, AtType, TopicType, ListType, PublishType, ReadType, Current
  <1>8. ASSUME NEW s \in Subscribers, SendPanics(p, s) PROVE TypeInv'
    <2>1. todo' \in [Publishers -> SUBSET Subscribers]
      BY <1>8 DEF SendPanics, PublishType
    <2> QED
      BY <1>2, <1>8, <2>1 DEF SendPanics, PublisherLabels, Work, ListType
  <1> QED
    BY <1>1, <1>3, <1>4, <1>5, <1>6, <1>7, <1>8 DEF Publishing

\* What a subscriber's own steps leave alone.
LEMMA SubscribingFrame ==
  ASSUME TypeInv, NEW s \in Subscribers, NEW label \in SubscriberLabels,
         Goto(s, label), UNCHANGED publishVars
  PROVE  /\ AtType' /\ PublishType'
         /\ at'[s] = label
         /\ \A r \in Subscribers \ {s} : at'[r] = at[r]
  <1>1. /\ AtType' /\ at'[s] = label
        /\ \A r \in Subscribers \ {s} : at'[r] = at[r]
        /\ \A p \in Publishers : at'[p] = at[p]
    BY MoveAt, SizesAssumption
  <1> QED
    BY <1>1 DEF publishVars, TypeInv, PublishType, Current

\* So do those of handleSubscribe and cleanupSubscriber.
LEMMA SubscribingType ==
  ASSUME TypeInv, NEW s \in Subscribers, Subscribing(s)
  PROVE  TypeInv'
  <1> USE DEF publishVars, readVars, memberVars, topicVars
  <1> USE DEF TypeInv, SubscriberLabels
  <1>1. CASE Lookup(s)
    <2>1. topic \in 1..MaxTopics
      BY <1>1, SizesAssumption DEF Lookup, TopicType
    <2> QED
      BY <1>1, <2>1, SubscribingFrame
         DEF Lookup, TopicType, ListType, QueueType, ReadType
  <1>2. CASE Join(s)
    <2>1. joined[s] \in Objects
      BY <1>2, SizesAssumption DEF Join, TopicType, Objects
    <2> QED
      BY <1>2, <2>1, SubscribingFrame
         DEF Join, TopicType, ListType, QueueType, ReadType
  <1>3. CASE Read(s)
    <2> DEFINE got == SubSeq(list, 1, Smaller(LastN, Len(list)))
    <2>1. got \in Seq(Messages)
      BY SizesAssumption, Beginning DEF ListType
    <2>2. Reverse(got) \in Seq(Messages) /\ ToSet(got) \subseteq Messages
      BY <2>1, Turned
    <2>3. Len(log) - Smaller(LastN, ReplaySize) \in Int
      BY SizesAssumption, LenProperties DEF ListType, Smaller
    <2> HIDE DEF got
    <2>4. /\ replay' = [replay EXCEPT ![s] = Reverse(got)]
          /\ window' = [window EXCEPT ![s] = ToSet(got)]
          /\ floor' = [floor EXCEPT ![s] = Len(log) - Smaller(LastN, ReplaySize)]
      BY <1>3 DEF Read, got
    <2>5. /\ at'[s] = "replaying" /\ AtType' /\ PublishType'
          /\ \A r \in Subscribers \ {s} : at'[r] = at[r]
      BY <1>3, SubscribingFrame DEF Read
    <2>6. ReadType'
      <3>1. UNCHANGED <<received, reached>>
        BY <1>3 DEF Read
      <3>2. /\ replay' \in [Subscribers -> Seq(Messages)]
            /\ \A r \in Subscribers \ {s} : replay'[r] = replay[r]
        BY <2>2, <2>4 DEF ReadType
      <3>3. /\ window' \in [Subscribers -> SUBSET Messages]
            /\ floor' \in [Subscribers -> Int]
        BY <2>2, <2>3, <2>4 DEF ReadType
      <3> QED
        BY <2>5, <3>1, <3>2, <3>3 DEF ReadType
    <2> QED
      BY <1>3, <2>5, <2>6 DEF Read, TopicType, ListType, QueueType
  <1>4. CASE ReadFails(s)
    <2>1. Len(log) \in Int
      BY LenProperties DEF ListType
    <2> QED
      BY <1>4, <2>1, SubscribingFrame
         DEF ReadFails, TopicType, ListType, QueueType, ReadType
  <1>5. CASE ReplayAssign(s)
    <2>1. QueueType'
      BY <1>5 DEF ReplayAssign, QueueType
    <2> QED
      BY <1>5, <2>1, SubscribingFrame
         DEF ReplayAssign, TopicType, ListType, ReadType
  <1>6. CASE ReplaySend(s)
    <2>1. /\ Head(replay[s]) \in Messages
          /\ Tail(replay[s]) \in Seq(Messages)
      BY <1>6, HeadTailProperties DEF ReplaySend, ReadType
    <2>2. /\ loopVar' \in [Subscribers -> Messages \cup {Torn, NoMessage}]
          /\ \A r \in Subscribers \ {s} : loopVar'[r] = loopVar[r]
          /\ loopVar'[s] \in Messages
          /\ Replayed \in Entries
      BY <1>6, <2>1, EntriesDiffer DEF ReplaySend, QueueType
    <2>3. QueueType'
      BY <1>6, <2>2, SendType DEF ReplaySend
    <2>4. /\ at'[s] = "replaying" /\ AtType' /\ PublishType'
          /\ \A r \in Subscribers \ {s} : at'[r] = at[r]
      BY <1>6, SubscribingFrame DEF ReplaySend
    <2>5. ReadType'
      BY <1>6, <2>1, <2>4 DEF ReplaySend, ReadType
    <2> QED
      BY <1>6, <2>3, <2>4, <2>5 DEF ReplaySend, TopicType, ListType
  <1>7. CASE Acknowledge(s)
    <2>1. Ack \in Entries /\ Ack # Replayed
      BY EntriesDiffer
    <2>2. Queued(s, Ack) \/ Rejected(s)
      BY <1>7 DEF Acknowledge
    <2>3. loopVar' = loopVar
      BY <1>7 DEF Acknowledge
    <2>4. QueueType'
      BY <2>1, <2>2, <2>3, SendType DEF QueueType
    <2> QED
      BY <1>7, <2>4, SubscribingFrame
         DEF Acknowledge, TopicType, ListType, ReadType
  <1>8. CASE Leave(s)
    <2>1. QueueType'
      BY <1>8, SizesAssumption, EmptySeq DEF Leave, Shut, QueueType
    <2>2. members' \in [Objects -> SUBSET Subscribers]
      BY <1>8 DEF Leave, TopicType
    <2>3. replay' \in [Subscribers -> Seq(Messages)]
      BY <1>8, EmptySeq DEF Leave, ReadType
    <2>4. /\ at'[s] = "gone" /\ AtType' /\ PublishType'
          /\ \A r \in Subscribers \ {s} : at'[r] = at[r]
      BY <1>8, SubscribingFrame DEF Leave
    <2>5. ReadType'
      BY <1>8, <2>3, <2>4 DEF Leave, ReadType
    <2> QED
      BY <1>8, <2>1, <2>2, <2>4, <2>5 DEF Leave, TopicType, ListType
  <1> QED
    BY <1>1, <1>2, <1>3, <1>4, <1>5, <1>6, <1>7, <1>8 DEF Subscribing

\* writeLoop follows a pointer only into a loop that has begun.
LEMMA WritingType ==
  ASSUME TypeInv, NEW s \in Subscribers, Write(s) \/ WriteFails(s)
  PROVE  TypeInv'
  <1> USE DEF publishVars, readVars, memberVars, topicVars
  <1> USE DEF TypeInv
  <1>1. CASE Write(s)
    <2> DEFINE q == queue[s]
    <2>1. q \in Seq(Entries) /\ q # <<>>
      BY <1>1 DEF Write, QueueType
    <2> HIDE DEF q
    <2>2. /\ Len(q) \in Nat /\ Len(q) >= 1 /\ Head(q) = q[1] /\ q[1] \in Entries
          /\ Tail(q) \in Seq(Entries) /\ Len(Tail(q)) = Len(q) - 1
          /\ \A i \in 1..Len(Tail(q)) : Tail(q)[i] = q[i + 1]
      BY <2>1, Sequence
    <2>3. Written(s, Head(q)) \subseteq Messages \cup {Torn}
      <3>1. CASE q[1] = Replayed
        <4>1. loopVar[s] \in Messages \cup {Torn}
          BY <2>2, <3>1 DEF q, QueueType
        <4> QED
          BY <2>2, <3>1, <4>1, EntriesDiffer DEF Written
      <3>2. CASE q[1] \in {Ack, Notice}
        <4>1. Head(q) \in {Ack, Notice} /\ Head(q) # Replayed
          BY <2>2, <3>2, EntriesDiffer
        <4>2. Written(s, Head(q)) = {}
          BY <4>1 DEF Written
        <4> QED
          BY <4>2
      <3>3. ASSUME NEW m \in Messages, q[1] = Live(m)
            PROVE  Written(s, Head(q)) \subseteq Messages \cup {Torn}
        BY <2>2, <3>3, EntriesDiffer DEF Written
      <3> QED
        BY <2>2, <3>1, <3>2, <3>3 DEF Entries
    <2>4. QueueType'
      <3>1. /\ queue' = [queue EXCEPT ![s] = Tail(q)]
            /\ UNCHANGED <<isClosed, loopVar>>
        BY <1>1 DEF Write, q
      <3>2. /\ queue' \in [Subscribers -> Seq(Entries)]
            /\ Len(queue'[s]) <= QueueSize
            /\ \A r \in Subscribers \ {s} : queue'[r] = queue[r]
        BY <2>2, <3>1, SizesAssumption DEF QueueType, q
      <3>3. ASSUME NEW i \in 1..Len(queue'[s]), queue'[s][i] = Replayed
            PROVE  loopVar[s] \in Messages \cup {Torn}
        <4>1. queue'[s] = Tail(q)
          BY <3>1 DEF QueueType
        <4>2. i + 1 \in 1..Len(q) /\ q[i + 1] = Replayed
          BY <2>2, <3>3, <4>1
        <4> QED
          BY <4>2 DEF QueueType, q
      <3> QED
        BY <3>1, <3>2, <3>3 DEF QueueType
    <2>5. received' \in [Subscribers -> SUBSET (Messages \cup {Torn})]
      <3>1. received' = [received EXCEPT ![s] = received[s] \cup Written(s, Head(q))]
        BY <1>1 DEF Write, q
      <3> QED
        BY <2>3, <3>1 DEF ReadType
    <2> QED
      BY <1>1, <2>4, <2>5
         DEF Write, AtType, ListType, PublishType, TopicType, ReadType, Current
  <1>2. CASE WriteFails(s)
    <2>1. QueueType'
      BY <1>2, SizesAssumption, EmptySeq DEF WriteFails, Shut, QueueType
    <2> QED
      BY <1>2, <2>1
         DEF WriteFails, AtType, ListType, PublishType, TopicType, ReadType, Current
  <1> QED
    BY <1>1, <1>2

\* A new topic, the end of one, and a new process.
LEMMA ServerType ==
  ASSUME TypeInv, CreateTopic \/ DeleteTopic \/ Restart
  PROVE  TypeInv'
  <1> USE DEF publishVars, readVars, memberVars, topicVars
  <1> USE DEF TypeInv
  <1>1. CASE CreateTopic
    BY <1>1, SizesAssumption
       DEF CreateTopic, AtType, ListType, PublishType, TopicType, QueueType,
           ReadType, Current
  <1>2. CASE DeleteTopic
    <2>1. Notice \in Entries /\ Notice # Replayed
      BY EntriesDiffer
    <2>2. <<>> \in Seq(Entries) /\ Len(<<>>) = 0
      BY EmptySeq
    <2>3. ASSUME NEW s \in Subscribers
          PROVE  /\ queue'[s] \in Seq(Entries)
                 /\ Len(queue'[s]) <= QueueSize
                 /\ \A i \in 1..Len(queue'[s]) :
                      queue'[s][i] = Replayed => loopVar[s] \in Messages \cup {Torn}
      <3>1. /\ queue[s] \in Seq(Entries) /\ Len(queue[s]) <= QueueSize
            /\ \A i \in 1..Len(queue[s]) :
                 queue[s][i] = Replayed => loopVar[s] \in Messages \cup {Torn}
        BY DEF QueueType
      <3>2. \/ queue'[s] = queue[s] \/ queue'[s] = <<>>
            \/ queue'[s] = Append(queue[s], Notice) /\ Len(queue[s]) # QueueSize
        BY <1>2 DEF DeleteTopic
      <3>3. CASE queue'[s] = Append(queue[s], Notice) /\ Len(queue[s]) # QueueSize
        <4>1. /\ queue'[s] \in Seq(Entries) /\ Len(queue'[s]) = Len(queue[s]) + 1
              /\ \A i \in 1..Len(queue[s]) : queue'[s][i] = queue[s][i]
              /\ queue'[s][Len(queue[s]) + 1] = Notice
              /\ Len(queue[s]) \in Nat
          BY <2>1, <3>1, <3>3, Sequence
        <4>2. Len(queue'[s]) <= QueueSize
          BY <3>1, <3>3, <4>1, SizesAssumption
        <4>3. ASSUME NEW i \in 1..Len(queue'[s]), queue'[s][i] = Replayed
              PROVE  loopVar[s] \in Messages \cup {Torn}
          <5>1. i \in 1..Len(queue[s]) \/ i = Len(queue[s]) + 1
            BY <4>1
          <5> QED
            BY <2>1, <3>1, <4>1, <4>3, <5>1
        <4> QED
          BY <4>1, <4>2, <4>3
      <3>4. CASE queue'[s] = <<>>
        BY <2>2, <3>4, SizesAssumption
      <3> QED
        BY <3>1, <3>2, <3>3, <3>4
    <2>4. QueueType'
      <3>1. /\ isClosed' \in [Subscribers -> BOOLEAN]
            /\ queue' \in [Subscribers -> Seq(Entries)]
        BY <1>2, <2>3 DEF DeleteTopic
      <3>2. loopVar' = loopVar
        BY <1>2 DEF DeleteTopic
      <3> QED
        BY <2>3, <3>1, <3>2 DEF QueueType
    <2> QED
      BY <1>2, <2>4, SizesAssumption
         DEF DeleteTopic, AtType, ListType, PublishType, TopicType, ReadType,
             Current
  <1>3. CASE Restart
    <2>1. /\ AtType'
          /\ \A p \in Publishers : at'[p] = "idle"
          /\ \A s \in Subscribers : at'[s] = "out"
      BY <1>3, SizesAssumption
         DEF Restart, AtStart, AtType, PublisherLabels, SubscriberLabels
    <2>2. <<>> \in Seq(Entries) /\ <<>> \in Seq(Messages) /\ Len(<<>>) = 0
      BY EmptySeq
    <2>3. QueueType'
      BY <1>3, <2>2, SizesAssumption DEF Restart, QueueType
    <2>4. TopicType' /\ PublishType'
      BY <1>3, <2>1, SizesAssumption DEF Restart, TopicType, PublishType, Work
    <2> QED
      BY <1>3, <2>1, <2>2, <2>3, <2>4 DEF Restart, ListType, ReadType
  <1> QED
    BY <1>1, <1>2, <1>3

\* Every step keeps the types.
LEMMA NextType == TypeInv /\ [Next]_vars => TypeInv'
  <1> SUFFICES ASSUME TypeInv, [Next]_vars PROVE TypeInv'
    OBVIOUS
  <1>1. CASE UNCHANGED vars
    BY <1>1 DEF vars, publishVars, readVars, memberVars, topicVars, TypeInv,
       AtType, ListType, PublishType, TopicType, QueueType, ReadType, Current
  <1> QED
    BY <1>1, PublishingType, SubscribingType, WritingType, ServerType DEF Next

\* At the beginning all is empty.
LEMMA InitType == Init => TypeInv
  <1> SUFFICES ASSUME Init PROVE TypeInv
    OBVIOUS
  <1>1. /\ <<>> \in Seq(Entries) /\ <<>> \in Seq(Messages) /\ Len(<<>>) = 0
    BY EmptySeq
  <1>2. /\ AtType
        /\ \A p \in Publishers : at[p] = "idle"
        /\ \A s \in Subscribers : at[s] = "out"
    BY SizesAssumption
       DEF Init, AtStart, AtType, PublisherLabels, SubscriberLabels
  <1>3. QueueType
    BY <1>1, SizesAssumption DEF Init, QueueType
  <1>4. TopicType /\ PublishType
    BY <1>2, SizesAssumption DEF Init, TopicType, PublishType, Work
  <1> QED
    BY <1>1, <1>2, <1>3, <1>4 DEF Init, TypeInv, ListType, ReadType

\* The types of Replay; in particular a queue stays within its capacity, and
\* writeLoop never follows a pointer to a variable nobody has assigned to.
THEOREM TypeCorrect == Spec => []TypeOK
  <1>1. TypeInv => TypeOK
    BY DEF TypeInv, AtType, ListType, PublishType, TopicType, QueueType,
       ReadType, TypeOK, PublisherLabels, SubscriberLabels
  <1> QED
    BY <1>1, InitType, NextType, PTL DEF Spec

-----------------------------------------------------------------------------
(* The list                                                                *)

\* The list is the log from its end on, as far as it goes.
ListInv ==
  /\ Len(list) <= Len(log)
  /\ Len(list) >= Smaller(Len(log), ReplaySize)
  /\ \A i \in 1..Len(list) : list[i] = log[Len(log) - i + 1]

\* LPUSH was executed for the message.
Pushed(m) == \E i \in 1..Len(log) : log[i] = m

\* LPUSH, of one copy or two.
LEMMA PushKeepsList ==
  ASSUME TypeInv, ListInv, NEW m \in Messages, NEW c \in Seq(Messages),
         Len(c) \in {1, 2}, \A i \in 1..Len(c) : c[i] = m,
         list' = c \o list, log' = log \o c
  PROVE  /\ ListInv'
         /\ Pushed(m)'
         /\ Len(log') >= Len(log)
         /\ \A i \in 1..Len(log) : log'[i] = log[i]
  <1> DEFINE k == Len(c)
             a == Len(list)
             b == Len(log)
  <1>1. a \in Nat /\ b \in Nat /\ k \in 1..2
    BY LenProperties DEF TypeInv, ListType
  <1>2. /\ Len(list') = k + a
        /\ \A i \in 1..k : list'[i] = m
        /\ \A i \in (k + 1)..(k + a) : list'[i] = list[i - k]
    BY <1>1, ConcatProperties DEF TypeInv, ListType
  <1>3. /\ Len(log') = b + k
        /\ \A i \in 1..b : log'[i] = log[i]
        /\ \A i \in (b + 1)..(b + k) : log'[i] = m
    <2>1. \A i \in 1..(b + k) :
            log'[i] = IF i <= b THEN log[i] ELSE c[i - b]
      BY ConcatProperties DEF TypeInv, ListType
    <2>2. \A i \in (b + 1)..(b + k) : i - b \in 1..k
      BY <1>1
    <2>3. Len(log') = b + k
      BY ConcatProperties DEF TypeInv, ListType
    <2> QED
      BY <1>1, <2>1, <2>2, <2>3
  <1>4. /\ a <= b /\ a >= Smaller(b, ReplaySize)
        /\ \A i \in 1..a : list[i] = log[b - i + 1]
    BY DEF ListInv
  <1> HIDE DEF k, a, b
  <1>5. ASSUME NEW i \in 1..(k + a)
        PROVE  list'[i] = log'[(b + k) - i + 1]
    <2>1. CASE i <= k
      <3>1. i \in 1..k /\ (b + k) - i + 1 \in (b + 1)..(b + k)
        BY <1>1, <2>1
      <3> QED
        BY <1>2, <1>3, <3>1
    <2>2. CASE i > k
      <3>1. i - k \in 1..a /\ i \in (k + 1)..(k + a) /\ b - (i - k) + 1 \in 1..b
        BY <1>1, <1>4, <2>2
      <3>2. list'[i] = log[b - (i - k) + 1]
        BY <1>2, <1>4, <3>1
      <3>3. b - (i - k) + 1 = (b + k) - i + 1
        BY <1>1
      <3>4. log'[(b + k) - i + 1] = log[(b + k) - i + 1]
        BY <1>3, <3>1, <3>3
      <3> QED
        BY <3>2, <3>3, <3>4
    <2>3. i <= k \/ i > k
      BY <1>1
    <2> QED
      BY <2>1, <2>2, <2>3
  <1>6. k + a <= b + k /\ k + a >= Smaller(b + k, ReplaySize)
    <2>1. ReplaySize \in Nat
      BY SizesAssumption
    <2> QED
      BY <1>1, <1>4, <2>1 DEF Smaller
  <1>7. ListInv'
    BY <1>2, <1>3, <1>5, <1>6 DEF ListInv
  <1>8. Pushed(m)'
    <2>1. b + k \in 1..(b + k) /\ log'[b + k] = m
      BY <1>1, <1>3
    <2> QED
      BY <1>3, <2>1 DEF Pushed
  <1> QED
    BY <1>1, <1>3, <1>7, <1>8 DEF b

\* LTRIM.
LEMMA TrimKeepsList ==
  ASSUME TypeInv, ListInv, log' = log,
         list' = SubSeq(list, 1, Smaller(ReplaySize, Len(list)))
  PROVE  ListInv'
  <1>1. /\ Len(list') = Smaller(ReplaySize, Len(list))
        /\ \A i \in 1..Len(list') : list'[i] = list[i]
    BY SizesAssumption, Beginning DEF TypeInv, ListType
  <1>2. Len(list) \in Nat /\ Len(log) \in Nat
    BY LenProperties DEF TypeInv, ListType
  <1>3. ReplaySize \in Nat
    BY SizesAssumption
  <1>4. Len(list') <= Len(list) /\ Len(list') >= Smaller(Len(log), ReplaySize)
    BY <1>1, <1>2, <1>3 DEF ListInv, Smaller
  <1>5. ASSUME NEW i \in 1..Len(list')
        PROVE  list'[i] = log'[Len(log') - i + 1]
    <2>1. i \in 1..Len(list)
      BY <1>1, <1>2, <1>3, <1>4 DEF Smaller
    <2>2. list'[i] = list[i] /\ list[i] = log[Len(log) - i + 1]
      BY <1>1, <2>1 DEF ListInv
    <2> QED
      BY <2>2
  <1>6. Len(list') <= Len(log')
    BY <1>1, <1>2, <1>3, <1>4 DEF ListInv, Smaller
  <1> QED
    BY <1>4, <1>5, <1>6 DEF ListInv

\* LPUSH, which may report an error, whether it was executed or not.
LEMMA PushStep ==
  ASSUME TypeInv, ListInv, NEW p \in Publishers, Push(p) \/ PushFails(p)
  PROVE  /\ ListInv'
         /\ Len(log') >= Len(log)
         /\ \A i \in 1..Len(log) : log'[i] = log[i]
         /\ Push(p) => Pushed(Current(p))'
  <1> DEFINE m == Current(p)
  <1>1. m \in Messages /\ Len(log) \in Nat /\ Current(p)' = m
    BY InHand, LenProperties
       DEF Push, PushFails, publishVars, Work, Current, TypeInv, ListType
  <1>2. ASSUME NEW c \in Seq(Messages), Len(c) \in {1, 2},
               \A i \in 1..Len(c) : c[i] = m,
               list' = c \o list, log' = log \o c
        PROVE  /\ ListInv' /\ Pushed(Current(p))' /\ Len(log') >= Len(log)
               /\ \A i \in 1..Len(log) : log'[i] = log[i]
    <2>1. /\ ListInv' /\ Pushed(m)' /\ Len(log') >= Len(log)
          /\ \A i \in 1..Len(log) : log'[i] = log[i]
      BY <1>1, <1>2, PushKeepsList
    <2> QED
      BY <1>1, <2>1 DEF Pushed
  <1> HIDE DEF m
  <1>3. ASSUME NEW copies \in {1, 2},
               list' = [i \in 1..copies |-> m] \o list,
               log' = log \o [i \in 1..copies |-> m]
        PROVE  /\ ListInv' /\ Pushed(Current(p))' /\ Len(log') >= Len(log)
               /\ \A i \in 1..Len(log) : log'[i] = log[i]
    <2> DEFINE c == [i \in 1..copies |-> m]
    <2>1. c \in Seq(Messages) /\ Len(c) = copies
      BY <1>1, Copies
    <2>2. \A i \in 1..copies : c[i] = m
      OBVIOUS
    <2>3. list' = c \o list /\ log' = log \o c
      BY <1>3
    <2> HIDE DEF c
    <2> QED
      BY <1>2, <2>1, <2>2, <2>3
  <1>4. ASSUME list' = <<m>> \o list, log' = Append(log, m)
        PROVE  /\ ListInv' /\ Len(log') >= Len(log)
               /\ \A i \in 1..Len(log) : log'[i] = log[i]
    <2>1. <<m>> \in Seq(Messages) /\ Len(<<m>>) = 1 /\ <<m>>[1] = m
      BY <1>1
    <2>2. log' = log \o <<m>>
      BY <1>1, <1>4, AppendIsConcat DEF TypeInv, ListType
    <2> DEFINE c == <<m>>
    <2>3. /\ c \in Seq(Messages) /\ Len(c) \in {1, 2}
          /\ \A i \in 1..Len(c) : c[i] = m
      BY <2>1
    <2>4. list' = c \o list /\ log' = log \o c
      BY <1>4, <2>2
    <2> HIDE DEF c
    <2> QED
      BY <1>2, <2>3, <2>4
  <1>5. CASE Push(p)
    BY <1>3, <1>5 DEF Push, m
  <1>6. CASE PushFails(p)
    <2>1. ~Push(p)
      BY <1>3, <1>5, <1>6, LenProperties DEF Push, PushFails, Goto, TypeInv, AtType
    <2>2. CASE UNCHANGED <<list, log>>
      BY <1>1, <2>1, <2>2 DEF ListInv
    <2>3. CASE list' = <<m>> \o list /\ log' = Append(log, m)
      BY <1>4, <2>1, <2>3
    <2> QED
      BY <1>6, <2>2, <2>3 DEF PushFails, m
  <1> QED
    BY <1>5, <1>6

\* Every step: the list stays the end of the log, and the log only grows.
LEMMA NextList ==
  ASSUME TypeInv, ListInv, [Next]_vars
  PROVE  /\ ListInv'
         /\ Len(log') >= Len(log)
         /\ \A i \in 1..Len(log) : log'[i] = log[i]
  <1>1. Len(log) \in Nat
    BY LenProperties DEF TypeInv, ListType
  <1>2. CASE UNCHANGED <<list, log>>
    BY <1>1, <1>2 DEF ListInv
  <1>3. ASSUME NEW p \in Publishers, Publishing(p)
        PROVE  \/ Push(p) \/ PushFails(p) \/ Trim(p) \/ TrimFails(p)
               \/ UNCHANGED <<list, log>>
    BY <1>3 DEF Publishing, Publish, Snapshot, PublishDone, Send, SendPanics
  <1>4. ASSUME NEW p \in Publishers, Trim(p) \/ TrimFails(p)
        PROVE  ListInv' /\ log' = log
    BY <1>4, TrimKeepsList DEF Trim, TrimFails, ListInv
  <1>5. ASSUME NEW s \in Subscribers, Subscribing(s) \/ Write(s) \/ WriteFails(s)
        PROVE  UNCHANGED <<list, log>>
    BY <1>5 DEF Subscribing, Lookup, Join, Read, ReadFails, ReplayAssign,
       ReplaySend, Acknowledge, Leave, Write, WriteFails
  <1>6. ASSUME CreateTopic \/ DeleteTopic \/ Restart
        PROVE  UNCHANGED <<list, log>>
    BY <1>6 DEF CreateTopic, DeleteTopic, Restart
  <1>7. CASE UNCHANGED vars
    BY <1>2, <1>7 DEF vars
  <1>8. ASSUME log' = log
        PROVE  /\ Len(log') >= Len(log)
               /\ \A i \in 1..Len(log) : log'[i] = log[i]
    BY <1>1, <1>8
  <1> QED
    BY <1>2, <1>3, <1>4, <1>5, <1>6, <1>7, <1>8, PushStep DEF Next

\* The list is the newest part of what was ever pushed, without a hole, and as
\* long as the replay size allows, however pushes and trims interleave.
THEOREM ListNewest == Spec => []ListHoldsNewest
  <1>1. Init => ListInv
    BY SizesAssumption, EmptySeq DEF Init, ListInv, Smaller
  <1>2. TypeInv /\ ListInv => ListHoldsNewest
    <2> SUFFICES ASSUME TypeInv, ListInv PROVE ListHoldsNewest
      OBVIOUS
    <2> DEFINE a == Len(list)
               b == Len(log)
               r == Reverse(list)
               t == SubSeq(log, b - a + 1, b)
    <2>1. /\ a \in Nat /\ b \in Nat /\ a <= b
          /\ \A i \in 1..a : list[i] = log[b - i + 1]
          /\ \A i \in 1..b : log[i] \in Messages
      BY LenProperties, ElementOfSeq DEF TypeInv, ListType, ListInv
    <2>2. /\ r \in Seq(Messages) /\ Len(r) = a
          /\ \A i \in 1..a : r[i] = list[a - i + 1]
      BY Turned DEF TypeInv, ListType
    <2> HIDE DEF a, b, r
    <2>3. /\ t \in Seq(Messages) /\ Len(t) = a
          /\ \A i \in 1..a : t[i] = log[(b - a + 1) + i - 1]
      <3>1. \A i \in (b - a + 1)..b : log[i] \in Messages
        BY <2>1
      <3>2. b - a + 1 \in Int /\ b \in Int
        BY <2>1
      <3>3. /\ t \in Seq(Messages)
            /\ Len(t) = IF b - a + 1 <= b THEN b - (b - a + 1) + 1 ELSE 0
            /\ \A i \in 1..(b - (b - a + 1) + 1) : t[i] = log[(b - a + 1) + i - 1]
        BY <3>1, <3>2, SubSeqProperties
      <3>4. b - (b - a + 1) + 1 = a
        BY <2>1
      <3> QED
        BY <2>1, <3>3, <3>4
    <2> HIDE DEF t
    <2>4. ASSUME NEW i \in 1..a PROVE r[i] = t[i]
      <3>1. a - i + 1 \in 1..a /\ b - (a - i + 1) + 1 = (b - a + 1) + i - 1
        BY <2>1
      <3> QED
        BY <2>1, <2>2, <2>3, <3>1
    <2>5. r = t
      BY <2>2, <2>3, <2>4, SeqEqual
    <2> QED
      BY <2>5 DEF ListInv, ListHoldsNewest, a, b, r, t
  <1> QED
    BY <1>1, <1>2, InitType, NextType, NextList, PTL DEF Spec

-----------------------------------------------------------------------------
(* What is acknowledged                                                    *)

\* A publisher's step is its own affair.
LEMMA PublishingAlone ==
  ASSUME TypeInv, NEW p \in Publishers, Publishing(p)
  PROVE  /\ UNCHANGED <<memberVars, readVars>>
         /\ \A s \in Subscribers : at'[s] = at[s]
         /\ \A q \in Publishers \ {p} :
              /\ at'[q] = at[q] /\ todo'[q] = todo[q]
              /\ Current(q)' = Current(q)
         /\ ~Publish(p) => serial' = serial /\ on' = on /\ Current(p)' = Current(p)
         /\ ~PublishDone(p) => published' = published
  <1> USE DEF publishVars, readVars, memberVars
  <1>1. \A label : Goto(p, label) =>
          /\ \A s \in Subscribers : at'[s] = at[s]
          /\ \A q \in Publishers \ {p} : at'[q] = at[q]
    BY SizesAssumption DEF TypeInv, AtType, Goto
  <1>2. CASE Publish(p)
    BY <1>1, <1>2 DEF Publish, PublishDone, TypeInv, PublishType, Current
  <1>3. CASE Push(p) \/ PushFails(p) \/ Trim(p) \/ TrimFails(p)
    BY <1>1, <1>3 DEF Push, PushFails, Trim, TrimFails, Current
  <1>4. CASE Snapshot(p)
    BY <1>1, <1>4 DEF Snapshot, Current, TypeInv, PublishType
  <1>5. CASE PublishDone(p)
    BY <1>1, <1>5 DEF PublishDone, Current
  <1>6. ASSUME NEW s \in Subscribers, Send(p, s)
        PROVE  /\ UNCHANGED <<at, memberVars, readVars, serial, on, published>>
               /\ \A q \in Publishers \ {p} : todo'[q] = todo[q]
    BY <1>6 DEF Send, TypeInv, PublishType
  <1>7. ASSUME NEW s \in Subscribers, SendPanics(p, s)
        PROVE  /\ UNCHANGED <<memberVars, readVars, serial, on, published>>
               /\ \A q \in Publishers \ {p} : todo'[q] = todo[q]
               /\ \A r \in Subscribers : at'[r] = at[r]
               /\ \A q \in Publishers \ {p} : at'[q] = at[q]
    BY <1>1, <1>7 DEF SendPanics, TypeInv, PublishType
  <1> QED
    BY <1>2, <1>3, <1>4, <1>5, <1>6, <1>7 DEF Publishing, Current

\* Nobody else touches a publish under way, but a restart cuts it off.
LEMMA PublishersUndisturbed ==
  ASSUME TypeInv, [Next]_vars, ~\E p \in Publishers : Publishing(p)
  PROVE  /\ UNCHANGED <<serial, on, published>>
         /\ \A p \in Publishers : Current(p)' = Current(p)
         /\ \/ todo' = todo /\ \A p \in Publishers : at'[p] = at[p]
            \/ /\ Restart
               /\ \A p \in Publishers : at'[p] = "idle" /\ todo'[p] = {}
               /\ \A s \in Subscribers : at'[s] = "out"
  <1> USE DEF publishVars, Current
  <1>1. ASSUME NEW s \in Subscribers, Subscribing(s)
        PROVE  /\ UNCHANGED publishVars
               /\ \A p \in Publishers : at'[p] = at[p]
    <2>1. \A label : Goto(s, label) => \A p \in Publishers : at'[p] = at[p]
      BY SizesAssumption DEF TypeInv, AtType, Goto
    <2> QED
      BY <1>1, <2>1 DEF Subscribing, Lookup, Join, Read, ReadFails,
         ReplayAssign, ReplaySend, Acknowledge, Leave
  <1>2. ASSUME NEW s \in Subscribers, Write(s) \/ WriteFails(s)
        PROVE  UNCHANGED <<publishVars, at>>
    BY <1>2 DEF Write, WriteFails
  <1>3. ASSUME CreateTopic \/ DeleteTopic PROVE UNCHANGED <<publishVars, at>>
    BY <1>3 DEF CreateTopic, DeleteTopic
  <1>4. CASE Restart
    BY <1>4, SizesAssumption DEF Restart, AtStart
  <1>5. CASE UNCHANGED vars
    BY <1>5 DEF vars
  <1> QED
    BY <1>1, <1>2, <1>3, <1>4, <1>5 DEF Next

\* Past LPUSH a message is in the log, and it is no later one of its publisher.
StoredInv ==
  /\ \A p \in Publishers :
       at[p] \in {"trim", "snapshot", "fanout"} => Pushed(Current(p))
  /\ \A m \in published : Pushed(m) /\ m[2] <= serial[m[1]]

\* Elements of the log stay, and a publish goes past LPUSH only when it is done.
LEMMA NextStored ==
  ASSUME TypeInv, ListInv, StoredInv, [Next]_vars
  PROVE  StoredInv'
  <1>1. \A m : Pushed(m) => Pushed(m)'
    <2>1. Len(log) \in Nat /\ Len(log') >= Len(log)
      BY NextList, LenProperties DEF TypeInv, ListType
    <2>2. Len(log') \in Nat
      BY NextType, LenProperties DEF TypeInv, ListType
    <2> QED
      BY <2>1, <2>2, NextList DEF Pushed
  <1>2. CASE ~\E p \in Publishers : Publishing(p)
    BY <1>1, <1>2, PublishersUndisturbed DEF StoredInv
  <1>3. ASSUME NEW p \in Publishers, Publishing(p) PROVE StoredInv'
    <2>1. \A q \in Publishers \ {p} :
            at'[q] \in {"trim", "snapshot", "fanout"} => Pushed(Current(q))'
      BY <1>1, <1>3, PublishingAlone DEF StoredInv
    <2>2. ASSUME at'[p] \in {"trim", "snapshot", "fanout"}
          PROVE  Pushed(Current(p))'
      <3>1. Push(p) \/ (~Publish(p) /\ at[p] \in {"trim", "snapshot", "fanout"})
        <4>1. \A label : Goto(p, label) => at'[p] = label
          BY DEF TypeInv, AtType, Goto
        <4> QED
          BY <1>3, <2>2, <4>1 DEF Publishing, Publish, PushFails, Trim,
             TrimFails, Snapshot, PublishDone, Send, SendPanics
      <3>2. CASE Push(p)
        BY <3>2, PushStep
      <3>3. CASE ~Publish(p) /\ at[p] \in {"trim", "snapshot", "fanout"}
        BY <1>1, <1>3, <3>3, PublishingAlone DEF StoredInv
      <3> QED
        BY <3>1, <3>2, <3>3
    <2>3. ASSUME NEW m \in published' PROVE Pushed(m)' /\ m[2] <= serial'[m[1]]
      <3>1. CASE m \in published
        <4>1. /\ m \in Messages /\ m[1] \in Publishers /\ m[2] \in Nat
              /\ serial[m[1]] \in Nat /\ m[2] <= serial[m[1]]
          BY <3>1, SizesAssumption DEF StoredInv, TypeInv, PublishType, Messages
        <4>2. serial'[m[1]] = serial[m[1]] \/ serial'[m[1]] = serial[m[1]] + 1
          <5>1. CASE Publish(p)
            BY <4>1, <5>1 DEF Publish, TypeInv, PublishType
          <5> QED
            BY <1>3, <5>1, PublishingAlone
        <4> QED
          BY <1>1, <3>1, <4>1, <4>2 DEF StoredInv
      <3>2. CASE m \notin published
        <4>1. PublishDone(p)
          BY <1>3, <3>2, PublishingAlone
        <4>2. m = Current(p) /\ at[p] = "fanout" /\ serial' = serial
          BY <3>2, <4>1 DEF PublishDone
        <4>3. m[1] = p /\ m[2] = serial[p] /\ serial[p] \in Nat
          BY <4>2, SizesAssumption DEF Current, TypeInv, PublishType
        <4> QED
          BY <1>1, <4>2, <4>3 DEF StoredInv
      <3> QED
        BY <3>1, <3>2
    <2> QED
      BY <2>1, <2>2, <2>3 DEF StoredInv
  <1> QED
    BY <1>2, <1>3

\* What was pushed is in the list until newer messages have pushed it out.
LEMMA PushedIsKept ==
  ASSUME TypeInv, ListInv, NEW m, NEW j \in 1..Len(log), log[j] = m
  PROVE  \/ j <= Len(log) - ReplaySize
         \/ /\ Len(log) - j + 1 \in 1..Len(list)
            /\ list[Len(log) - j + 1] = m
  <1> DEFINE a == Len(list)
             b == Len(log)
  <1>1. /\ a \in Nat /\ b \in Nat /\ ReplaySize \in Nat /\ j \in 1..b
        /\ a <= b /\ a >= Smaller(b, ReplaySize)
        /\ \A i \in 1..a : list[i] = log[b - i + 1]
    BY SizesAssumption, LenProperties DEF TypeInv, ListType, ListInv
  <1> HIDE DEF a, b
  <1>2. j <= b - ReplaySize \/ b - j + 1 \in 1..a
    BY <1>1 DEF Smaller
  <1>3. ASSUME b - j + 1 \in 1..a PROVE list[b - j + 1] = m
    <2>1. b - (b - j + 1) + 1 = j
      BY <1>1
    <2> QED
      BY <1>1, <1>3, <2>1
  <1> QED
    BY <1>2, <1>3 DEF a, b

\* A publish is acknowledged only when it can be replayed, whatever restarts
\* and deletions come between, and however the publishes of others fail.
THEOREM AcknowledgedStored == Spec => []AcknowledgedIsStored
  <1>1. Init => ListInv /\ StoredInv
    BY SizesAssumption, EmptySeq
       DEF Init, AtStart, ListInv, StoredInv, Smaller
  <1>2. TypeInv /\ ListInv /\ StoredInv => AcknowledgedIsStored
    <2> SUFFICES ASSUME TypeInv, ListInv, StoredInv, NEW m \in published
                 PROVE  \/ m \in ToSet(list)
                        \/ PushedBefore(m, Len(log) - ReplaySize)
      BY DEF AcknowledgedIsStored
    <2>1. PICK j \in 1..Len(log) : log[j] = m
      BY DEF StoredInv, Pushed
    <2>2. CASE j <= Len(log) - ReplaySize
      <3>1. Len(log) \in Nat /\ ReplaySize \in Nat
        BY SizesAssumption, LenProperties DEF TypeInv, ListType
      <3>2. j \in 1..(Len(log) - ReplaySize) /\ j <= Len(log)
        BY <2>1, <2>2, <3>1
      <3> QED
        BY <2>1, <3>2 DEF PushedBefore
    <2>3. CASE /\ Len(log) - j + 1 \in 1..Len(list)
               /\ list[Len(log) - j + 1] = m
      <3>1. list \in Seq(Messages)
        BY DEF TypeInv, ListType
      <3>2. \E i \in 1..Len(list) : list[i] = m
        BY <2>3
      <3> QED
        BY <3>1, <3>2, Turned
    <2> QED
      BY <2>1, <2>2, <2>3, PushedIsKept
  <1> QED
    BY <1>1, <1>2, InitType, NextType, NextList, NextStored, PTL DEF Spec

-----------------------------------------------------------------------------
(* Who is reached                                                          *)

\* A subscriber holds one object from its Lookup on, and is a member of that
\* one only; a fan-out goes to subscribers that hold the object of its message.
MemberInv ==
  /\ \A o \in Objects : \A s \in members[o] :
       joined[s] = o /\ at[s] \notin {"out", "found"}
  /\ \A p \in Publishers :
       /\ at[p] # "fanout" => todo[p] = {}
       /\ \A s \in todo[p] :
            joined[s] = on[Current(p)] /\ at[s] \notin {"out", "found"}
  /\ \A s \in Subscribers : \A m \in reached[s] :
       /\ on[m] = joined[s] /\ m[2] <= serial[m[1]]
       /\ at[s] \notin {"out", "found"}

\* A publish keeps to its object.
LEMMA PublishingMember ==
  ASSUME TypeInv, MemberInv, NEW p \in Publishers, Publishing(p)
  PROVE  MemberInv'
  <1>1. /\ UNCHANGED memberVars
        /\ \A s \in Subscribers : at'[s] = at[s]
        /\ \A q \in Publishers \ {p} :
             at'[q] = at[q] /\ todo'[q] = todo[q] /\ Current(q)' = Current(q)
    BY PublishingAlone
  <1>2. \A o \in Objects : \A s \in members'[o] :
          joined'[s] = o /\ at'[s] \notin {"out", "found"}
    BY <1>1 DEF MemberInv, memberVars, TypeInv, TopicType
  <1>g. \A label : Goto(p, label) => at'[p] = label
    BY DEF TypeInv, AtType, Goto
  <1>3. CASE Publish(p)
    <2>1. /\ on' = [on EXCEPT ![<<p, serial[p] + 1>>] = topic]
          /\ serial' = [serial EXCEPT ![p] = serial[p] + 1]
          /\ reached' = reached /\ todo' = todo /\ at[p] = "idle" /\ at'[p] = "push"
          /\ serial[p] \in Nat
      BY <1>3, <1>g, SizesAssumption DEF Publish, TypeInv, PublishType
    <2>2. \A m \in Messages : m[2] <= serial[m[1]] => on'[m] = on[m]
      BY <2>1 DEF TypeInv, PublishType, Messages
    <2>3. \A m \in Messages : m[2] <= serial[m[1]] => m[2] <= serial'[m[1]]
      <3>1. \A m \in Messages : m[1] \in Publishers /\ m[2] \in Nat
        BY SizesAssumption DEF Messages
      <3>2. \A q \in Publishers :
              serial[q] \in Nat /\ serial'[q] \in {serial[q], serial[q] + 1}
        BY <2>1, SizesAssumption DEF TypeInv, PublishType
      <3> QED
        BY <3>1, <3>2
    <2>4. \A s \in Subscribers : \A m \in reached'[s] :
            /\ on'[m] = joined'[s] /\ m[2] <= serial'[m[1]]
            /\ at'[s] \notin {"out", "found"}
      BY <1>1, <2>1, <2>2, <2>3 DEF MemberInv, memberVars, TypeInv, ReadType
    <2>5. ASSUME NEW q \in Publishers
          PROVE  /\ at'[q] # "fanout" => todo'[q] = {}
                 /\ \A s \in todo'[q] : /\ joined'[s] = on'[Current(q)']
                                        /\ at'[s] \notin {"out", "found"}
      <3>1. CASE q = p
        BY <2>1, <3>1 DEF MemberInv
      <3>2. CASE q # p /\ todo[q] # {}
        <4>1. at[q] = "fanout"
          BY <3>2 DEF MemberInv
        <4>2. Current(q) \in Messages
          BY <4>1, InHand DEF Work
        <4>3. Current(q)[1] = q /\ Current(q)[2] = serial[q] /\ serial[q] \in Nat
          BY SizesAssumption DEF Current, TypeInv, PublishType
        <4>4. on'[Current(q)] = on[Current(q)]
          BY <2>2, <4>2, <4>3
        <4> QED
          BY <1>1, <3>2, <4>4 DEF MemberInv, memberVars, TypeInv, PublishType
      <3>3. CASE q # p /\ todo[q] = {}
        BY <1>1, <3>3
      <3> QED
        BY <3>1, <3>2, <3>3
    <2> QED
      BY <1>2, <2>4, <2>5 DEF MemberInv
  <1>4. CASE ~Publish(p)
    <2>1. serial' = serial /\ on' = on /\ Current(p)' = Current(p)
      BY <1>4, PublishingAlone
    <2>2. \A q \in Publishers \ {p} :
            /\ at'[q] # "fanout" => todo'[q] = {}
            /\ \A s \in todo'[q] : /\ joined'[s] = on'[Current(q)']
                                   /\ at'[s] \notin {"out", "found"}
      BY <1>1, <2>1 DEF MemberInv, memberVars, TypeInv, PublishType
    <2>3. /\ at'[p] # "fanout" => todo'[p] = {}
          /\ \A s \in todo'[p] : /\ joined'[s] = on'[Current(p)']
                                 /\ at'[s] \notin {"out", "found"}
      <3>1. CASE Snapshot(p)
        <4>1. on[Current(p)] \in Objects /\ at'[p] = "fanout"
          BY <1>g, <3>1, InHand DEF Snapshot, Work
        <4>2. todo'[p] = members[on[Current(p)]]
          BY <3>1 DEF Snapshot, TypeInv, PublishType
        <4>3. members[on[Current(p)]] \subseteq Subscribers
          BY <4>1 DEF TypeInv, TopicType
        <4> QED
          BY <1>1, <2>1, <4>1, <4>2, <4>3 DEF MemberInv, memberVars
      <3>2. CASE ~Snapshot(p)
        <4>1. \/ todo'[p] = {}
              \/ todo'[p] \subseteq todo[p] /\ at'[p] = at[p] /\ at[p] = "fanout"
          <5>1. ASSUME NEW s \in Subscribers, Send(p, s)
                PROVE  todo'[p] \subseteq todo[p] /\ at' = at /\ at[p] = "fanout"
            BY <5>1 DEF Send, TypeInv, PublishType
          <5>2. ASSUME NEW s \in Subscribers, SendPanics(p, s)
                PROVE  todo'[p] = {}
            BY <5>2 DEF SendPanics, TypeInv, PublishType
          <5>3. CASE PublishDone(p)
            BY <5>3 DEF PublishDone
          <5>4. CASE Push(p) \/ PushFails(p) \/ Trim(p) \/ TrimFails(p)
            BY <5>4 DEF Push, PushFails, Trim, TrimFails, publishVars, MemberInv
          <5> QED
            BY <1>4, <3>2, <5>1, <5>2, <5>3, <5>4 DEF Publishing
        <4> QED
          BY <1>1, <2>1, <4>1 DEF MemberInv, memberVars, TypeInv, PublishType
      <3> QED
        BY <3>1, <3>2
    <2>4. ASSUME NEW s \in Subscribers, NEW m \in reached'[s]
          PROVE  /\ on'[m] = joined'[s] /\ m[2] <= serial'[m[1]]
                 /\ at'[s] \notin {"out", "found"}
      <3>1. CASE m \in reached[s]
        BY <1>1, <2>1, <3>1 DEF MemberInv, memberVars
      <3>2. CASE m \notin reached[s]
        <4>1. m = Current(p) /\ s \in todo[p]
          <5>1. reached \in [Subscribers -> SUBSET Messages] /\ reached' # reached
            BY <3>2 DEF TypeInv, ReadType
          <5>2. PICK r \in Subscribers : Send(p, r)
            BY <1>4, <5>1 DEF Publishing, Push, PushFails, Trim, TrimFails,
               Snapshot, PublishDone, SendPanics
          <5>3. /\ r \in todo[p]
                /\ reached' = [reached EXCEPT ![r] = reached[r] \cup {Current(p)}]
            BY <5>1, <5>2 DEF Send
          <5> QED
            BY <3>2, <5>1, <5>3
        <4>2. m[1] = p /\ m[2] = serial[p] /\ serial[p] \in Nat
          BY <4>1, SizesAssumption DEF Current, TypeInv, PublishType
        <4> QED
          BY <1>1, <2>1, <4>1, <4>2 DEF MemberInv, memberVars
      <3> QED
        BY <3>1, <3>2
    <2> QED
      BY <1>2, <2>2, <2>3, <2>4 DEF MemberInv
  <1> QED
    BY <1>3, <1>4

\* What the steps of others do to who is reached, and by what.
LEMMA NextMember ==
  ASSUME TypeInv, MemberInv, [Next]_vars
  PROVE  MemberInv'
  <1>1. ASSUME UNCHANGED <<publishVars, reached>>,
               \A p \in Publishers : at'[p] = at[p],
               \A s \in Subscribers : at[s] \notin {"out", "found"} =>
                 joined'[s] = joined[s] /\ at'[s] \notin {"out", "found"},
               \A o \in Objects : \A s \in members'[o] :
                 joined'[s] = o /\ at'[s] \notin {"out", "found"}
        PROVE  MemberInv'
    BY <1>1 DEF MemberInv, publishVars, Current, TypeInv, PublishType
  <1>2. ASSUME NEW s \in Subscribers, Subscribing(s) PROVE MemberInv'
    <2>1. \A label : Goto(s, label) =>
            /\ at'[s] = label
            /\ \A p \in Publishers : at'[p] = at[p]
            /\ \A r \in Subscribers \ {s} : at'[r] = at[r]
      BY SizesAssumption DEF TypeInv, AtType, Goto
    <2>2. CASE Lookup(s)
      BY <1>1, <2>1, <2>2 DEF Lookup, MemberInv, TypeInv, TopicType
    <2>3. CASE Join(s)
      <3>1. /\ joined[s] \in Objects /\ at'[s] = "joined" /\ joined' = joined
            /\ members' = [members EXCEPT ![joined[s]] = members[joined[s]] \cup {s}]
            /\ at[s] = "found"
        BY <2>1, <2>3, SizesAssumption DEF Join, TypeInv, TopicType, Objects
      <3> QED
        BY <1>1, <2>1, <2>3, <3>1 DEF Join, MemberInv, TypeInv, TopicType
    <2>4. CASE Read(s) \/ ReadFails(s) \/ ReplayAssign(s) \/ ReplaySend(s)
               \/ Acknowledge(s)
      BY <1>1, <2>1, <2>4 DEF Read, ReadFails, ReplayAssign, ReplaySend,
         Acknowledge, memberVars, MemberInv, TypeInv, TopicType
    <2>5. CASE Leave(s)
      BY <1>1, <2>1, <2>5 DEF Leave, MemberInv, TypeInv, TopicType
    <2> QED
      BY <1>2, <2>2, <2>3, <2>4, <2>5 DEF Subscribing
  <1>3. ASSUME NEW s \in Subscribers, Write(s) \/ WriteFails(s) PROVE MemberInv'
    BY <1>1, <1>3 DEF Write, WriteFails, memberVars, MemberInv
  <1>4. CASE CreateTopic \/ DeleteTopic
    BY <1>1, <1>4 DEF CreateTopic, DeleteTopic, memberVars, MemberInv, TypeInv,
       TopicType
  <1>5. CASE Restart
    BY <1>5, SizesAssumption DEF Restart, AtStart, MemberInv
  <1>6. CASE UNCHANGED vars
    BY <1>1, <1>6 DEF vars, memberVars, MemberInv
  <1> QED
    BY <1>2, <1>3, <1>4, <1>5, <1>6, PublishingMember DEF Next

\* A publish that outlives its topic does not reach the subscribers of the
\* topic created anew, nor they those of the old one.
THEOREM FanoutKeeps == Spec => []FanoutKeepsToItsTopic
  <1>1. Init => MemberInv
    BY SizesAssumption DEF Init, AtStart, MemberInv
  <1>2. MemberInv => FanoutKeepsToItsTopic
    BY DEF MemberInv, FanoutKeepsToItsTopic
  <1> QED
    BY <1>1, <1>2, InitType, NextType, NextMember, PTL DEF Spec

-----------------------------------------------------------------------------
(* No gap                                                                  *)

\* The subscriber is past its read of the list.
HasRead(s) == at[s] \in {"replaying", "assigning", "subscribed"}
\* A fan-out on its object will find it a member that takes messages.
Listening(s) == HasRead(s) /\ ~isClosed[s] /\ s \in members[joined[s]]
\* It was sent m, or was shown it by the list, or is too late for it.
Covered(s, m) ==
  m \in reached[s] \/ m \in window[s] \/ PushedBefore(m, floor[s])

\* A subscriber that has read the list has all of what was published on its
\* object before, or will get it from a fan-out that is under way.
CoverInv ==
  \A s \in Subscribers : Listening(s) =>
    /\ \A m \in published : on[m] = joined[s] => Covered(s, m)
    /\ \A p \in Publishers : at[p] = "fanout" /\ on[Current(p)] = joined[s]
         => s \in todo[p] \/ Covered(s, Current(p))

\* A read covers everything that is in the log.
LEMMA ReadCovers ==
  ASSUME TypeInv, ListInv, NEW s \in Subscribers, Read(s) \/ ReadFails(s),
         NEW m, Pushed(m)
  PROVE  Covered(s, m)'
  <1>1. PICK j \in 1..Len(log) : log[j] = m
    BY DEF Pushed
  <1>2. /\ Len(log) \in Nat /\ Len(list) \in Nat /\ log' = log
        /\ ReplaySize \in Nat /\ LastN \in Nat
    BY SizesAssumption, LenProperties DEF TypeInv, ListType, Read, ReadFails
  <1>3. CASE ReadFails(s)
    <2>1. floor'[s] = Len(log)
      BY <1>3 DEF ReadFails, TypeInv, ReadType
    <2> QED
      BY <1>1, <1>2, <2>1 DEF Covered, PushedBefore
  <1>4. CASE Read(s)
    <2> DEFINE got == SubSeq(list, 1, Smaller(LastN, Len(list)))
               i == Len(log) - j + 1
    <2>1. /\ got \in Seq(Messages)
          /\ Len(got) = Smaller(LastN, Len(list))
          /\ \A k \in 1..Len(got) : got[k] = list[k]
      BY <1>2, Beginning DEF TypeInv, ListType
    <2>2. /\ window'[s] = ToSet(got)
          /\ floor'[s] = Len(log) - Smaller(LastN, ReplaySize)
      BY <1>4 DEF Read, TypeInv, ReadType
    <2> HIDE DEF got
    <2>3. CASE i \in 1..Len(got)
      <3>1. i \in 1..Len(list)
        BY <1>2, <2>1, <2>3 DEF Smaller
      <3>2. Len(log) - i + 1 = j
        BY <1>2
      <3>3. got[i] = m
        <4>1. list[i] = log[Len(log) - i + 1]
          BY <3>1 DEF ListInv
        <4>2. got[i] = list[i]
          BY <2>1, <2>3
        <4> QED
          BY <1>1, <3>2, <4>1, <4>2
      <3> QED
        <4>1. m \in ToSet(got)
          BY <2>1, <2>3, <3>3, Turned
        <4> QED
          BY <2>2, <4>1 DEF Covered
    <2>4. CASE i \notin 1..Len(got)
      <3>1. j <= Len(log) - Smaller(LastN, ReplaySize)
        BY <1>2, <2>1, <2>4 DEF Smaller, ListInv
      <3>2. j \in 1..floor'[s] /\ j <= Len(log') /\ log'[j] = m
        BY <1>1, <1>2, <2>2, <3>1 DEF Smaller
      <3> QED
        BY <3>2 DEF Covered, PushedBefore
    <2> QED
      BY <2>3, <2>4
  <1> QED
    BY <1>3, <1>4

\* What covers a message goes on doing so.
LEMMA CoverStays ==
  ASSUME TypeInv, ListInv, [Next]_vars, NEW s \in Subscribers, NEW m,
         Covered(s, m), window'[s] = window[s], floor'[s] = floor[s],
         reached[s] \subseteq reached'[s]
  PROVE  Covered(s, m)'
  <1>1. /\ Len(log) \in Nat /\ Len(log') >= Len(log)
        /\ \A i \in 1..Len(log) : log'[i] = log[i]
    BY NextList, LenProperties DEF TypeInv, ListType
  <1>2. Len(log') \in Nat /\ floor[s] \in Int
    BY NextType, LenProperties DEF TypeInv, ListType, ReadType
  <1>3. PushedBefore(m, floor[s]) => PushedBefore(m, floor[s])'
    BY <1>1, <1>2 DEF PushedBefore
  <1> QED
    BY <1>3 DEF Covered

\* A message is acknowledged when its fan-out is through with all members.
LEMMA PublishingCover ==
  ASSUME TypeInv, ListInv, StoredInv, MemberInv, CoverInv,
         NEW p \in Publishers, Publishing(p)
  PROVE  CoverInv'
  <1>1. /\ UNCHANGED <<members, joined, window, floor>>
        /\ \A s \in Subscribers : at'[s] = at[s]
        /\ \A q \in Publishers \ {p} :
             at'[q] = at[q] /\ todo'[q] = todo[q] /\ Current(q)' = Current(q)
    BY PublishingAlone DEF memberVars, readVars
  <1>g. \A label : Goto(p, label) => at'[p] = label
    BY DEF TypeInv, AtType, Goto
  <1>n. [Next]_vars
    BY DEF Next
  <1>2. ASSUME NEW s \in Subscribers
        PROVE  /\ reached[s] \subseteq reached'[s]
               /\ isClosed[s] => isClosed'[s]
    <2>1. ASSUME NEW r \in Subscribers, Send(p, r)
          PROVE  /\ \/ reached' = reached
                    \/ reached' = [reached EXCEPT ![r] = reached[r] \cup {Current(p)}]
                 /\ \/ isClosed' = isClosed
                    \/ isClosed' = [isClosed EXCEPT ![r] = TRUE]
      BY <2>1 DEF Send, Queued, Rejected, Shut
    <2>2. \/ UNCHANGED <<reached, isClosed>>
          \/ \E r \in Subscribers : Send(p, r)
      BY DEF Publishing, Publish, Push, PushFails, Trim, TrimFails, Snapshot,
         PublishDone, SendPanics
    <2>3. /\ reached \in [Subscribers -> SUBSET Messages]
          /\ isClosed \in [Subscribers -> BOOLEAN]
      BY DEF TypeInv, ReadType, QueueType
    <2>4. ASSUME NEW r \in Subscribers, Send(p, r)
          PROVE  reached[s] \subseteq reached'[s]
      BY <2>1, <2>3, <2>4
    <2>5. ASSUME NEW r \in Subscribers, Send(p, r)
          PROVE  isClosed[s] => isClosed'[s]
      BY <2>1, <2>3, <2>5
    <2> QED
      BY <2>2, <2>4, <2>5
  <1> SUFFICES ASSUME NEW s \in Subscribers, Listening(s)'
               PROVE  /\ \A m \in published' : on'[m] = joined'[s] => Covered(s, m)'
                      /\ \A q \in Publishers :
                           at'[q] = "fanout" /\ on'[Current(q)'] = joined'[s]
                             => s \in todo'[q] \/ Covered(s, Current(q))'
    BY DEF CoverInv
  <1>3. Listening(s) /\ ~isClosed'[s]
    BY <1>1, <1>2 DEF Listening, HasRead
  <1>4. ASSUME NEW m, Covered(s, m) PROVE Covered(s, m)'
    BY <1>1, <1>2, <1>4, <1>n, CoverStays
  <1>5. ASSUME NEW m \in Messages, m[2] <= serial[m[1]]
        PROVE  on'[m] = on[m]
    <2>1. CASE Publish(p)
      <3>1. /\ on' = [on EXCEPT ![<<p, serial[p] + 1>>] = topic]
            /\ serial[p] \in Nat
        BY <2>1, SizesAssumption DEF Publish, TypeInv, PublishType
      <3>2. m # <<p, serial[p] + 1>>
        BY <1>5, <3>1
      <3> QED
        BY <3>1, <3>2 DEF TypeInv, PublishType
    <2> QED
      BY <2>1, PublishingAlone
  <1>6. ASSUME NEW m \in published, on'[m] = joined'[s]
        PROVE  Covered(s, m)'
    <2>1. m \in Messages /\ m[2] <= serial[m[1]]
      BY DEF StoredInv, TypeInv, PublishType
    <2> QED
      BY <1>1, <1>3, <1>4, <1>5, <1>6, <2>1 DEF CoverInv
  <1>7. ASSUME NEW q \in Publishers \ {p}, at'[q] = "fanout",
               on'[Current(q)'] = joined'[s]
        PROVE  s \in todo'[q] \/ Covered(s, Current(q))'
    <2>1. at[q] = "fanout" /\ Current(q)' = Current(q) /\ Current(q) \in Messages
      BY <1>1, <1>7, InHand DEF Work
    <2>2. Current(q)[2] <= serial[Current(q)[1]]
      BY SizesAssumption DEF Current, TypeInv, PublishType
    <2>3. on[Current(q)] = joined[s]
      BY <1>1, <1>5, <1>7, <2>1, <2>2
    <2>4. s \in todo[q] \/ Covered(s, Current(q))
      BY <1>3, <2>1, <2>3 DEF CoverInv
    <2> QED
      BY <1>1, <1>4, <2>1, <2>4
  <1>8. ASSUME NEW m \in published' \ published, on'[m] = joined'[s]
        PROVE  Covered(s, m)'
    <2>1. PublishDone(p)
      BY PublishingAlone
    <2>2. m = Current(p) /\ on' = on /\ at[p] = "fanout" /\ todo[p] = {}
      BY <2>1 DEF PublishDone
    <2>3. Covered(s, m)
      BY <1>1, <1>3, <1>8, <2>2 DEF CoverInv
    <2> QED
      BY <1>4, <2>3
  <1>9. ASSUME at'[p] = "fanout", on'[Current(p)'] = joined'[s]
        PROVE  s \in todo'[p] \/ Covered(s, Current(p))'
    <2>1. \/ Snapshot(p)
          \/ \E r \in Subscribers : Send(p, r)
      BY <1>9, <1>g DEF Publishing, Publish, Push, PushFails, Trim, TrimFails,
         PublishDone, SendPanics
    <2>2. on' = on /\ Current(p)' = Current(p)
      BY <2>1 DEF Snapshot, Send, Current
    <2>3. CASE Snapshot(p)
      <3>1. todo'[p] = members[on[Current(p)]]
        BY <2>3 DEF Snapshot, TypeInv, PublishType
      <3> QED
        BY <1>1, <1>3, <1>9, <2>2, <3>1 DEF Listening
    <2>4. ASSUME NEW r \in Subscribers, Send(p, r)
          PROVE  s \in todo'[p] \/ Covered(s, Current(p))'
      <3>1. s \in todo[p] \/ Covered(s, Current(p))
        BY <1>1, <1>3, <1>9, <2>2, <2>4 DEF Send, CoverInv
      <3>2. todo'[p] = todo[p] \ {r}
        BY <2>4 DEF Send, TypeInv, PublishType
      <3>3. CASE r # s
        BY <1>4, <2>2, <3>1, <3>2, <3>3
      <3>4. CASE r = s /\ Rejected(r)
        BY <1>3, <3>4 DEF Rejected, Shut, TypeInv, QueueType
      <3>5. CASE r = s /\ reached' = [reached EXCEPT ![r] = @ \cup {Current(p)}]
        <4>1. Current(p) \in reached'[s]
          BY <3>5 DEF TypeInv, ReadType
        <4> QED
          BY <2>2, <4>1 DEF Covered
      <3> QED
        BY <2>4, <3>3, <3>4, <3>5 DEF Send
    <2> QED
      BY <2>1, <2>2, <2>3, <2>4
  <1> QED
    BY <1>6, <1>7, <1>8, <1>9

\* The other steps: whoever starts to listen has just read the list.
LEMMA NextCover ==
  ASSUME TypeInv, ListInv, StoredInv, MemberInv, CoverInv, [Next]_vars
  PROVE  CoverInv'
  <1>1. CASE \E p \in Publishers : Publishing(p)
    BY <1>1, PublishingCover
  <1>2. CASE Restart
    BY <1>2, PublishersUndisturbed, SizesAssumption
       DEF Restart, AtStart, CoverInv, Listening, HasRead
  <1>3. CASE ~(\E p \in Publishers : Publishing(p)) /\ ~Restart
    <2>1. /\ UNCHANGED <<on, published, todo>>
          /\ \A p \in Publishers : Current(p)' = Current(p) /\ at'[p] = at[p]
      BY <1>3, PublishersUndisturbed
    <2>2. ASSUME NEW s \in Subscribers, Listening(s)',
                 Listening(s), joined'[s] = joined[s], window'[s] = window[s],
                 floor'[s] = floor[s], reached' = reached
          PROVE  /\ \A m \in published' : on'[m] = joined'[s] => Covered(s, m)'
                 /\ \A p \in Publishers :
                      at'[p] = "fanout" /\ on'[Current(p)'] = joined'[s]
                        => s \in todo'[p] \/ Covered(s, Current(p))'
      <3>1. ASSUME NEW m, Covered(s, m) PROVE Covered(s, m)'
        BY <2>2, <3>1, CoverStays
      <3> QED
        BY <2>1, <2>2, <3>1 DEF CoverInv
    <2>3. ASSUME NEW s \in Subscribers, Read(s) \/ ReadFails(s)
          PROVE  /\ \A m \in published' : Covered(s, m)'
                 /\ \A p \in Publishers :
                      at'[p] = "fanout" => Covered(s, Current(p))'
      <3>1. ASSUME NEW m, Pushed(m) PROVE Covered(s, m)'
        BY <2>3, <3>1, ReadCovers
      <3> QED
        BY <2>1, <3>1 DEF StoredInv
    <2>4. ASSUME NEW s \in Subscribers, Listening(s)'
          PROVE  \/ Read(s) \/ ReadFails(s)
                 \/ /\ Listening(s) /\ joined'[s] = joined[s]
                    /\ window'[s] = window[s] /\ floor'[s] = floor[s]
                    /\ reached' = reached
      <3>1. /\ HasRead(s)' /\ ~isClosed'[s] /\ s \in members'[joined'[s]]
            /\ isClosed \in [Subscribers -> BOOLEAN]
        BY <2>4 DEF Listening, TypeInv, QueueType
      <3>2. CASE CreateTopic \/ DeleteTopic
        <4>1. CASE CreateTopic
          BY <3>1, <4>1 DEF CreateTopic, memberVars, readVars, Listening, HasRead
        <4>2. CASE DeleteTopic
          <5>1. /\ at' = at /\ joined' = joined /\ window' = window /\ floor' = floor
                /\ reached' = reached
                /\ members' = [members EXCEPT ![topic] = {}]
            BY <4>2 DEF DeleteTopic, readVars
          <5>2. joined[s] \in Objects
            BY <3>1, <5>1, SizesAssumption DEF HasRead, TypeInv, TopicType, Objects
          <5>3. s \in members[joined[s]]
            BY <3>1, <5>1, <5>2 DEF TypeInv, TopicType
          <5>4. ~isClosed[s]
            BY <3>1, <4>2 DEF DeleteTopic
          <5> QED
            BY <3>1, <5>1, <5>3, <5>4 DEF Listening, HasRead
        <4> QED
          BY <3>2, <4>1, <4>2
      <3>3. ASSUME NEW r \in Subscribers, Subscribing(r)
            PROVE  \/ Read(s) \/ ReadFails(s)
                   \/ /\ Listening(s) /\ joined'[s] = joined[s]
                      /\ window'[s] = window[s] /\ floor'[s] = floor[s]
                      /\ reached' = reached
        <4>1. \A label : Goto(r, label) =>
                /\ at'[r] = label
                /\ r # s => at'[s] = at[s]
          BY DEF TypeInv, AtType, Goto
        <4>2. CASE Read(r) \/ ReadFails(r)
          BY <3>1, <4>1, <4>2 DEF Read, ReadFails, memberVars, Listening, HasRead,
             TypeInv, ReadType
        <4>3. CASE ReplayAssign(r) \/ ReplaySend(r) \/ Acknowledge(r)
          <5>1. /\ UNCHANGED <<members, joined, window, floor, reached>>
                /\ HasRead(r) /\ (r # s => at'[s] = at[s])
                /\ isClosed[s] => isClosed'[s]
            <6>1. \/ isClosed' = isClosed
                  \/ isClosed' = [isClosed EXCEPT ![r] = TRUE]
              BY <4>3 DEF ReplayAssign, ReplaySend, Acknowledge, Queued, Rejected,
                 Shut
            <6> QED
              BY <3>1, <4>1, <4>3, <6>1 DEF ReplayAssign, ReplaySend, Acknowledge,
                 memberVars, readVars, HasRead
          <5> QED
            BY <3>1, <5>1 DEF Listening, HasRead
        <4>4. CASE Lookup(r)
          <5>1. r # s
            BY <3>1, <4>1, <4>4 DEF Lookup, HasRead
          <5> QED
            BY <3>1, <4>1, <4>4, <5>1 DEF Lookup, readVars, Listening, HasRead,
               TypeInv, TopicType
        <4>5. CASE Join(r)
          <5>1. r # s
            BY <3>1, <4>1, <4>5 DEF Join, HasRead
          <5>2. s \in members[joined[s]]
            BY <3>1, <4>5, <5>1 DEF Join, TypeInv, TopicType
          <5> QED
            BY <3>1, <4>1, <4>5, <5>1, <5>2 DEF Join, readVars, Listening, HasRead
        <4>6. CASE Leave(r)
          <5>1. r # s
            BY <3>1, <4>1, <4>6 DEF Leave, HasRead
          <5>2. joined[s] \in Objects
            BY <3>1, <4>1, <4>6, <5>1, SizesAssumption
               DEF Leave, HasRead, TypeInv, TopicType, Objects
          <5>3. s \in members[joined[s]]
            BY <3>1, <4>6, <5>2 DEF Leave
          <5>4. ~isClosed[s]
            BY <3>1, <4>6, <5>1 DEF Leave, Shut
          <5> QED
            BY <3>1, <4>1, <4>6, <5>1, <5>3, <5>4 DEF Leave, Listening, HasRead
        <4> QED
          BY <3>3, <4>2, <4>3, <4>4, <4>5, <4>6 DEF Subscribing
      <3>4. ASSUME NEW r \in Subscribers, Write(r) \/ WriteFails(r)
            PROVE  /\ Listening(s) /\ joined'[s] = joined[s]
                   /\ window'[s] = window[s] /\ floor'[s] = floor[s]
                   /\ reached' = reached
        BY <3>1, <3>4 DEF Write, WriteFails, Shut, memberVars, readVars, Listening,
           HasRead
      <3>5. CASE UNCHANGED vars
        BY <3>1, <3>5 DEF vars, memberVars, readVars, Listening, HasRead
      <3> QED
        BY <1>3, <3>2, <3>3, <3>4, <3>5 DEF Next
    <2> QED
      BY <2>1, <2>2, <2>3, <2>4 DEF CoverInv
  <1> QED
    BY <1>1, <1>2, <1>3

\* A member that was acknowledged has no gap.
THEOREM NoGaps == Spec => []NoGap
  <1>1. Init => StoredInv /\ MemberInv /\ CoverInv
    BY SizesAssumption DEF Init, AtStart, StoredInv, MemberInv, CoverInv,
       Listening, HasRead
  <1>2. Init => ListInv
    BY SizesAssumption, EmptySeq DEF Init, ListInv, Smaller
  <1>3. CoverInv => NoGap
    BY DEF CoverInv, NoGap, Listening, HasRead, Covered
  <1> QED
    BY <1>1, <1>2, <1>3, InitType, NextType, NextList, NextStored, NextMember,
       NextCover, PTL DEF Spec
=============================================================================
