---------------------------- MODULE BrokerProofs ----------------------------
(***************************************************************************)
(* Theorems about module Broker, for any topics, clients, administrators,  *)
(* shards and limits.  Three inductive invariants, each on top of the one  *)
(* before: TypeInv (types, and what a goroutine holds where it uses it),   *)
(* MemberInv (the locks of deletions, and the memberships a client has     *)
(* still to leave) and ToldInv (what a client has been told of them).  The *)
(* parts that speak of one client are stated for one client, so that a     *)
(* step has to be looked at only for the goroutine that takes it; to the   *)
(* others it adds no membership.                                           *)
(***************************************************************************)
EXTENDS Broker, FiniteSetTheorems, TLAPS

\* Where the handler of a client can be, and where a REST handler.
ClientLabels == Labels \ {"lockTopic", "notify", "unmap"}
AdminLabels == {"ready", "lockTopic", "notify", "unmap"}

\* Where a goroutine uses the *Topic it has looked up, where it deletes one,
\* and where a client is on its way out.
Holding == {"add", "remove", "save", "snapshot", "fanout", "leaving",
            "lockTopic", "notify", "unmap"}
Deletion == {"lockTopic", "notify", "unmap"}
Departing == {"cleanup", "leave", "leaving", "done"}

\* What a goroutine holds where it uses it: clients do not delete,
\* administrators do nothing else, and an object in hand has been made.
JobsSound ==
  /\ \A c \in Clients : job[c].at \in ClientLabels
  /\ \A a \in Admins : job[a].at \in AdminLabels
  /\ \A g \in Goroutines :
       /\ job[g].at \in Holding =>
            /\ job[g].topic \in Topics
            /\ job[g].inc \in 1..created[job[g].topic]
       /\ At(g, "lookup") => job[g].topic \in Topics
       /\ job[g].answer = "subscribed" => job[g].topic \in Topics

\* A name leads to the object made last, or to none, and objects that are
\* still to be made have no members.
MapSound ==
  /\ \A t \in Topics : topicsMap[t] \in {0, created[t]}
  /\ \A o \in Objects : o[2] > created[o[1]] => subscribers[o] = {}

TypeInv == TypeOK /\ JobsSound /\ MapSound

\* The lock of a topic object is held across steps exactly by the deletion
\* that is notifying its members, and an object being deleted is in the map,
\* whose shard the deletion holds.
HoldsItsLocks(a) ==
  /\ \A o \in Objects :
       subscribersMutex[o] = a => At(a, "notify") /\ HeldObject(a) = o
  /\ At(a, "notify") => subscribersMutex[HeldObject(a)] = a
  /\ job[a].at \in Deletion =>
       Live(HeldObject(a)) /\ shardMutex[ShardOf[job[a].topic]] = a

LocksSound == \A a \in Admins : HoldsItsLocks(a)

\* A membership that counts: in an object one can find, and that no deletion
\* is working on or has left half done.
Member(c, o) ==
  c \in subscribers[o] /\ Live(o) /\ TopicFree(o) /\ o \notin aborted

\* A client that is about to leave an object has not joined a later one of
\* the same name, as it is looking this one up; it knows the topics it is a
\* member of; and once it departs, what cleanupSubscriber has still to visit
\* covers them all.
ClientSound(c) ==
  /\ job[c].at \in {"remove", "leaving"} =>
       \A o \in Objects : o[1] = job[c].topic /\ o[2] > job[c].inc
                            => c \notin subscribers[o]
  /\ \A o \in Objects : Member(c, o) => o[1] \in subscribedTopics[c]
  /\ job[c].at \in {"leave", "leaving", "done"} =>
       \A o \in Objects : Member(c, o) => o[1] \in job[c].left
  /\ At(c, "done") => job[c].left = {}

MemberInv == TypeInv /\ LocksSound /\ \A c \in Clients : ClientSound(c)

-----------------------------------------------------------------------------
(* Types                                                                   *)

\* The server starts with no topics, and every goroutine idle.
LEMMA InitTypeInv == Init => TypeInv
  <1> SUFFICES ASSUME Init PROVE TypeInv
    OBVIOUS
  <1> USE NamesAssumption, LimitsAssumption DEF Init
  <1>1. Idle \in Jobs
    BY DEF Idle, Jobs, Labels, Answers
  <1>2. TypeOK
    BY <1>1 DEF TypeOK, Goroutines
  <1>3. JobsSound
    BY DEF JobsSound, At, Idle, ClientLabels, AdminLabels, Labels, Holding,
           Goroutines
  <1>4. MapSound
    BY DEF MapSound
  <1> QED
    BY <1>2, <1>3, <1>4 DEF TypeInv

\* What a step that gives one goroutine another job has to show.
LEMMA NewJob ==
  ASSUME TypeInv, NEW g \in Goroutines, NEW j \in Jobs,
         job' = [job EXCEPT ![g] = j],
         created' = created,
         g \in Clients => j.at \in ClientLabels,
         g \in Admins => j.at \in AdminLabels,
         j.at \in Holding =>
           j.topic \in Topics /\ j.inc \in 1..created[j.topic],
         j.at = "lookup" => j.topic \in Topics,
         j.answer = "subscribed" => j.topic \in Topics
  PROVE  job' \in [Goroutines -> Jobs] /\ JobsSound'
  <1> USE DEF TypeInv, TypeOK
  <1>1. job' \in [Goroutines -> Jobs]
    OBVIOUS
  <1>2. \A h \in Goroutines : job'[h] = IF h = g THEN j ELSE job[h]
    OBVIOUS
  <1>3. JobsSound'
    BY <1>2 DEF JobsSound, At, Goroutines
  <1> QED
    BY <1>1, <1>3

\* sendAck and sendError.
LEMMA AnswerTyped ==
  ASSUME TypeInv, NEW c \in Clients, NEW t \in Topics \cup {NoTopic},
         NEW what \in Answers, what = "subscribed" => t \in Topics,
         Answer(c, t, what), created' = created
  PROVE  job' \in [Goroutines -> Jobs] /\ JobsSound'
  <1> DEFINE j == [Idle EXCEPT !.at = "reply", !.topic = t, !.todo = {c},
                               !.answer = what]
  <1>0. 0 \in 0..MaxIncarnations
    BY LimitsAssumption
  <1>1. j \in Jobs
    BY <1>0 DEF Idle, Jobs, Labels
  <1>2. c \in Goroutines /\ c \notin Admins
    BY NamesAssumption DEF Goroutines
  <1>3. j.at = "reply" /\ j.answer = what /\ j.topic = t
    BY DEF Idle
  <1>4. job' = [job EXCEPT ![c] = j]
    BY DEF Answer
  <1> HIDE DEF j
  <1> QED
    BY <1>1, <1>2, <1>3, <1>4, NewJob DEF ClientLabels, Labels, Holding

\* A goroutine that has found its topic, or is to look it up.
LEMMA BeginTyped ==
  ASSUME TypeInv, NEW g \in Goroutines, NEW label \in Labels,
         NEW t \in Topics, NEW n \in 0..MaxIncarnations,
         g \in Clients => label \in ClientLabels,
         g \in Admins => label \in AdminLabels,
         label \in Holding => n \in 1..created[t],
         Begin(g, label, t, n), created' = created
  PROVE  job' \in [Goroutines -> Jobs] /\ JobsSound'
  <1> DEFINE j == [Idle EXCEPT !.at = label, !.topic = t, !.inc = n]
  <1>1. j \in Jobs
    BY DEF Idle, Jobs, Labels, Answers
  <1>2. j.at = label /\ j.answer = "none" /\ j.topic = t /\ j.inc = n
    BY DEF Idle
  <1>3. job' = [job EXCEPT ![g] = j]
    BY DEF Begin
  <1> HIDE DEF j
  <1> QED
    BY <1>1, <1>2, <1>3, NewJob

\* A step that leaves the maps, the members and the locks alone.
LEMMA JobStepTyped ==
  ASSUME TypeInv, job' \in [Goroutines -> Jobs], JobsSound',
         UNCHANGED <<mapVars, subscribers, mutexVars>>,
         subscribedTopics' \in [Clients -> SUBSET Topics],
         isClosed' \in [Clients -> BOOLEAN],
         backlog' \in [Clients -> 0..QueueSize],
         requests' \in 0..MaxRequests,
         told' \in [Clients -> SUBSET Topics],
         aborted' \subseteq Objects
  PROVE  TypeInv'
  BY DEF TypeInv, TypeOK, MapSound, mapVars, mutexVars

\* A step that changes jobs only, and may count a request.
LEMMA JobOnlyTyped ==
  ASSUME TypeInv, job' \in [Goroutines -> Jobs], JobsSound',
         UNCHANGED <<mapVars, memberVars, mutexVars, clientVars, historyVars>>,
         requests' \in 0..MaxRequests
  PROVE  TypeInv'
  BY JobStepTyped DEF TypeInv, TypeOK, memberVars, clientVars, historyVars

\* Requests are counted up to the bound.
LEMMA RequestTyped ==
  ASSUME TypeInv, NEW c \in Clients, Request(c)
  PROVE  requests' \in 0..MaxRequests
  BY LimitsAssumption DEF TypeInv, TypeOK, Request

\* The object in hand of a goroutine that uses it.
LEMMA HeldTyped ==
  ASSUME TypeInv, NEW g \in Goroutines, job[g].at \in Holding
  PROVE  /\ HeldObject(g) \in Objects
         /\ HeldObject(g)[1] = job[g].topic /\ HeldObject(g)[2] = job[g].inc
         /\ job[g].topic \in Topics
         /\ job[g].inc \in 1..created[job[g].topic]
         /\ subscribers[HeldObject(g)] \subseteq Clients
  <1>1. job[g].topic \in Topics /\ job[g].inc \in 1..created[job[g].topic]
    BY DEF TypeInv, JobsSound
  <1>2. created[job[g].topic] \in 0..MaxIncarnations
    BY <1>1 DEF TypeInv, TypeOK
  <1>3. job[g].inc \in 1..MaxIncarnations
    BY <1>1, <1>2, LimitsAssumption
  <1> QED
    BY <1>1, <1>3 DEF HeldObject, Objects, TypeInv, TypeOK

\* Topic.RemoveSubscriber.
LEMMA RemoveTyped ==
  ASSUME TypeInv, NEW c \in Clients, NEW o \in Objects, RemoveFrom(c, o),
         UNCHANGED mapVars
  PROVE  /\ subscribers' \in [Objects -> SUBSET Clients]
         /\ subscribedTopics' \in [Clients -> SUBSET Topics]
         /\ MapSound'
  BY DEF TypeInv, TypeOK, MapSound, RemoveFrom, memberVars, mapVars

\* A goroutine goes on with what it holds: elsewhere, or with others to
\* send to.
LEMMA MoveTodoTyped ==
  ASSUME TypeInv, NEW g \in Goroutines, NEW label \in Labels,
         NEW todo \in SUBSET Clients,
         g \in Clients => label \in ClientLabels,
         g \in Admins => label \in AdminLabels,
         label \in Holding => job[g].at \in Holding,
         label # "lookup",
         job' = [job EXCEPT ![g].at = label, ![g].todo = todo],
         created' = created
  PROVE  job' \in [Goroutines -> Jobs] /\ JobsSound'
  <1> DEFINE j == [job[g] EXCEPT !.at = label, !.todo = todo]
  <1>1. job[g] \in Jobs
    BY DEF TypeInv, TypeOK
  <1>2. j \in Jobs
    BY <1>1 DEF Jobs
  <1>3. j.at = label /\ j.answer = job[g].answer /\ j.topic = job[g].topic
          /\ j.inc = job[g].inc
    BY <1>1 DEF Jobs
  <1>4. job' = [job EXCEPT ![g] = j]
    BY DEF TypeInv, TypeOK
  <1> HIDE DEF j
  <1>5. /\ job[g].at \in Holding => job[g].topic \in Topics
                                   /\ job[g].inc \in 1..created[job[g].topic]
        /\ job[g].answer = "subscribed" => job[g].topic \in Topics
    BY DEF TypeInv, JobsSound
  <1> QED
    BY <1>2, <1>3, <1>4, <1>5, NewJob

\* A goroutine goes on elsewhere with what it holds.
LEMMA MoveTyped ==
  ASSUME TypeInv, NEW g \in Goroutines, NEW label \in Labels,
         g \in Clients => label \in ClientLabels,
         g \in Admins => label \in AdminLabels,
         label \in Holding => job[g].at \in Holding,
         label # "lookup",
         Goto(g, label), created' = created
  PROVE  job' \in [Goroutines -> Jobs] /\ JobsSound'
  <1>1. job[g] \in Jobs /\ job \in [Goroutines -> Jobs]
    BY DEF TypeInv, TypeOK
  <1>2. job' = [job EXCEPT ![g].at = label, ![g].todo = job[g].todo]
    BY <1>1 DEF Goto, Jobs
  <1>3. job[g].todo \in SUBSET Clients
    BY <1>1 DEF Jobs
  <1> QED
    BY <1>2, <1>3, MoveTodoTyped

\* The requests of a client.
LEMMA ServingTypeInv ==
  ASSUME TypeInv, NEW c \in Clients, Asking(c) \/ Serving(c)
  PROVE  TypeInv'
  <1> USE DEF At
  <1>c. c \in Goroutines /\ c \notin Admins
    BY NamesAssumption DEF Goroutines
  <1>j. job[c] \in Jobs /\ job \in [Goroutines -> Jobs]
    BY <1>c DEF TypeInv, TypeOK
  <1>r. requests \in 0..MaxRequests
    BY DEF TypeInv, TypeOK
  <1>l. /\ {"lookup", "add", "remove", "save", "snapshot", "fanout"}
              \subseteq ClientLabels \cap Labels
        /\ {"subscribed", "unsubscribed", "other"} \subseteq Answers
    BY DEF ClientLabels, Labels, Answers
  <1>h. job[c].at \in Holding => job[c].topic \in Topics
                               /\ job[c].inc \in 1..created[job[c].topic]
    BY <1>c DEF TypeInv, JobsSound
  <1>m. ASSUME NEW t \in Topics, topicsMap[t] # 0
        PROVE  topicsMap[t] \in 0..MaxIncarnations
               /\ topicsMap[t] \in 1..created[t]
    BY <1>m DEF TypeInv, TypeOK, MapSound
  <1>z. 0 \in 0..MaxIncarnations
    BY LimitsAssumption
  <1>1. CASE Ping(c)
    BY <1>1, <1>l, AnswerTyped, RequestTyped, JobOnlyTyped DEF Ping, mapVars
  <1>2. ASSUME NEW t \in Topics, Subscribe(c, t) PROVE TypeInv'
    <2>1. CASE topicsMap[t] = 0
      BY <1>2, <2>1, <1>l, AnswerTyped, RequestTyped, JobOnlyTyped
         DEF Subscribe, mapVars
    <2>2. CASE topicsMap[t] # 0
      BY <1>2, <2>2, <1>z, <1>l, <1>c, BeginTyped, RequestTyped, JobOnlyTyped
         DEF Subscribe, mapVars, Holding
    <2> QED
      BY <2>1, <2>2
  <1>3. ASSUME NEW t \in Topics, Unsubscribe(c, t) PROVE TypeInv'
    <2>1. CASE topicsMap[t] = 0
      BY <1>3, <2>1, <1>l, AnswerTyped, RequestTyped, JobOnlyTyped
         DEF Unsubscribe, mapVars
    <2>2. CASE topicsMap[t] # 0
      BY <1>3, <2>2, <1>m, <1>l, <1>c, BeginTyped, RequestTyped, JobOnlyTyped
         DEF Unsubscribe, mapVars
    <2> QED
      BY <2>1, <2>2
  <1>4. ASSUME NEW t \in Topics, Publish(c, t) PROVE TypeInv'
    <2>1. CASE topicsMap[t] = 0
      BY <1>4, <2>1, <1>l, AnswerTyped, RequestTyped, JobOnlyTyped
         DEF Publish, mapVars
    <2>2. CASE topicsMap[t] # 0
      BY <1>4, <2>2, <1>m, <1>l, <1>c, BeginTyped, RequestTyped, JobOnlyTyped
         DEF Publish, mapVars
    <2> QED
      BY <2>1, <2>2
  <1>5. CASE SubscribeLookup(c)
    <2> DEFINE t == job[c].topic
    <2>0. t \in Topics
      BY <1>5, <1>c DEF SubscribeLookup, TypeInv, JobsSound
    <2>1. CASE topicsMap[t] = 0
      BY <1>5, <2>0, <2>1, <1>l, <1>r, AnswerTyped, JobOnlyTyped
         DEF SubscribeLookup, mapVars
    <2>2. CASE topicsMap[t] # 0
      BY <1>5, <2>0, <2>2, <1>m, <1>l, <1>c, <1>r, BeginTyped, JobOnlyTyped
         DEF SubscribeLookup, mapVars
    <2> QED
      BY <2>1, <2>2
  <1>6. CASE AddSubscriber(c)
    <2> DEFINE o == HeldObject(c)
    <2>0. /\ o \in Objects /\ o[1] \in Topics
          /\ o[2] \in 1..created[o[1]] /\ created[o[1]] \in Nat
      BY <1>6, <1>c, HeldTyped DEF AddSubscriber, Holding, TypeInv, TypeOK
    <2>1. job' \in [Goroutines -> Jobs] /\ JobsSound'
      BY <1>6, <2>0, <1>l, AnswerTyped DEF AddSubscriber, mapVars
    <2>2. subscribers' \in [Objects -> SUBSET Clients]
            /\ subscribedTopics' \in [Clients -> SUBSET Topics]
      BY <1>6, <2>0 DEF AddSubscriber, memberVars, TypeInv, TypeOK
    <2>3. MapSound'
      BY <1>6, <2>0 DEF AddSubscriber, memberVars, mapVars, TypeInv, TypeOK,
                        MapSound
    <2> QED
      BY <1>6, <2>1, <2>2, <2>3 DEF AddSubscriber, mapVars, mutexVars,
         clientVars, historyVars, TypeInv, TypeOK
  <1>7. CASE Remove(c)
    <2> DEFINE o == HeldObject(c)
    <2>0. o \in Objects /\ o[1] \in Topics
      BY <1>7, <1>c, HeldTyped DEF Remove, Holding
    <2>1. job' \in [Goroutines -> Jobs] /\ JobsSound'
      BY <1>7, <2>0, <1>l, AnswerTyped DEF Remove, mapVars
    <2>2. /\ subscribers' \in [Objects -> SUBSET Clients]
          /\ subscribedTopics' \in [Clients -> SUBSET Topics]
          /\ MapSound'
      BY <1>7, <2>0, RemoveTyped DEF Remove, mapVars
    <2> QED
      BY <1>7, <2>1, <2>2 DEF Remove, mapVars, mutexVars, clientVars,
         historyVars, TypeInv, TypeOK
  <1>8. CASE Save(c)
    <2>1. CASE Goto(c, "snapshot")
      BY <1>8, <2>1, <1>c, <1>l, <1>r, MoveTyped, JobOnlyTyped
         DEF Save, mapVars, Holding
    <2>2. CASE Answer(c, job[c].topic, "other")
      BY <1>8, <2>2, <1>j, <1>l, <1>r, AnswerTyped, JobOnlyTyped
         DEF Save, mapVars, Jobs
    <2> QED
      BY <1>8, <2>1, <2>2 DEF Save
  <1>9. CASE Snapshot(c)
    <2> DEFINE todo == subscribers[HeldObject(c)]
    <2>1. todo \in SUBSET Clients
      BY <1>9, <1>c, HeldTyped DEF Snapshot, Holding
    <2>2. job' = [job EXCEPT ![c].at = "fanout", ![c].todo = todo]
      BY <1>9 DEF Snapshot
    <2> HIDE DEF todo
    <2> QED
      BY <1>9, <2>1, <2>2, <1>c, <1>l, <1>r, MoveTodoTyped, JobOnlyTyped
         DEF Snapshot, mapVars, Holding
  <1>10. CASE FanoutDone(c)
    BY <1>10, <1>j, <1>l, <1>r, AnswerTyped, JobOnlyTyped
       DEF FanoutDone, mapVars, Jobs
  <1> QED
    BY <1>1, <1>2, <1>3, <1>4, <1>5, <1>6, <1>7, <1>8, <1>9, <1>10
       DEF Asking, Serving

\* The parts of TypeInv that speak of one job.
LEMMA JobTyped ==
  ASSUME TypeInv, NEW g \in Goroutines
  PROVE  /\ job \in [Goroutines -> Jobs]
         /\ job[g] \in Jobs
         /\ g \in Clients => job[g].at \in ClientLabels
         /\ g \in Admins => job[g].at \in AdminLabels
         /\ job[g].at \in Holding => job[g].topic \in Topics
                                  /\ job[g].inc \in 1..created[job[g].topic]
         /\ At(g, "lookup") => job[g].topic \in Topics
         /\ job[g].answer = "subscribed" => job[g].topic \in Topics
  BY DEF TypeInv, TypeOK, JobsSound

\* A goroutine with nothing in hand.
LEMMA IdleTyped ==
  /\ Idle \in Jobs /\ Idle.at = "ready" /\ Idle.answer = "none"
  /\ Idle.left = {} /\ Idle.todo = {} /\ Idle.target = NoOne
  /\ \A label \in Labels :
       /\ [Idle EXCEPT !.at = label] \in Jobs
       /\ [Idle EXCEPT !.at = label].at = label
       /\ [Idle EXCEPT !.at = label].answer = "none"
       /\ [Idle EXCEPT !.at = label].left = {}
  <1>1. 0 \in 0..MaxIncarnations
    BY LimitsAssumption
  <1> QED
    BY <1>1 DEF Idle, Jobs, Labels, Answers

\* SendMessage returns to its caller.
LEMMA ReturnedTyped ==
  ASSUME TypeInv, NEW g \in Goroutines, NEW c \in Clients, Returned(g, c),
         created' = created
  PROVE  /\ job' \in [Goroutines -> Jobs] /\ JobsSound'
         /\ subscribedTopics' \in [Clients -> SUBSET Topics]
  <1>1. subscribedTopics' \in [Clients -> SUBSET Topics]
    BY DEF Returned, TypeInv, TypeOK
  <1>2. CASE At(g, "reply")
    <2>1. job' = [job EXCEPT ![g] = Idle]
      BY <1>2 DEF Returned
    <2> QED
      BY <1>1, <2>1, IdleTyped, NewJob
         DEF ClientLabels, AdminLabels, Labels, Holding
  <1>3. CASE ~At(g, "reply")
    <2> DEFINE j == [job[g] EXCEPT !.todo = job[g].todo \ {c},
                                   !.target = NoOne]
    <2>1. job' = [job EXCEPT ![g] = j]
      BY <1>3 DEF Returned
    <2>2. /\ j \in Jobs /\ j.at = job[g].at /\ j.answer = job[g].answer
          /\ j.topic = job[g].topic /\ j.inc = job[g].inc
      BY JobTyped DEF Jobs
    <2> HIDE DEF j
    <2> QED
      BY <1>1, <2>1, <2>2, JobTyped, NewJob DEF At
  <1> QED
    BY <1>2, <1>3

\* What a queued message tells its client.
LEMMA TellTyped ==
  ASSUME TypeInv, NEW g \in Goroutines, NEW c \in Clients, Tell(g, c)
  PROVE  told' \in [Clients -> SUBSET Topics]
  <1>1. job[g].answer = "subscribed" => job[g].topic \in Topics
    BY JobTyped
  <1> QED
    BY <1>1 DEF Tell, TypeInv, TypeOK

\* A closed queue is empty.
LEMMA ShutTyped ==
  ASSUME TypeInv, NEW c \in Clients, Shut(c)
  PROVE  /\ isClosed' \in [Clients -> BOOLEAN]
         /\ backlog' \in [Clients -> 0..QueueSize]
  BY LimitsAssumption DEF Shut, TypeInv, TypeOK

\* What a panic of SendMessage leaves.
LEMMA PanicTyped ==
  ASSUME TypeInv, NEW g \in Goroutines, Panic(g), UNCHANGED requests,
         UNCHANGED clientVars
  PROVE  TypeInv'
  <1>1. job' \in [Goroutines -> Jobs] /\ JobsSound'
    <2> DEFINE label == IF g \in Clients THEN "cleanup" ELSE "ready"
    <2>1. label \in Labels /\ Unwound(g) = [Idle EXCEPT !.at = label]
            /\ label \notin Holding /\ label # "lookup"
      BY DEF Unwound, Labels, Holding
    <2>2. /\ g \in Clients => label \in ClientLabels
          /\ g \in Admins => label \in AdminLabels
      BY NamesAssumption DEF Labels, ClientLabels, AdminLabels
    <2>3. job' = [job EXCEPT ![g] = Unwound(g)] /\ created' = created
      BY DEF Panic, mapVars
    <2> HIDE DEF label
    <2>4. /\ Unwound(g) \in Jobs
          /\ Unwound(g).at = label /\ Unwound(g).answer = "none"
      BY <2>1, IdleTyped
    <2> QED
      BY <2>1, <2>2, <2>3, <2>4, NewJob
  <1>2. aborted' \subseteq Objects
    <2>1. At(g, "notify") => HeldObject(g) \in Objects
      BY HeldTyped DEF At, Holding
    <2> QED
      BY <2>1 DEF Panic, TypeInv, TypeOK
  <1>3. /\ shardMutex' \in [Shards -> Admins \cup {NoOne}]
        /\ subscribersMutex' \in [Objects -> Admins \cup {NoOne}]
    BY DEF Panic, TypeInv, TypeOK
  <1>4. MapSound' /\ UNCHANGED <<mapVars, memberVars, told>>
    BY DEF Panic, TypeInv, MapSound, mapVars, memberVars
  <1> QED
    BY <1>1, <1>2, <1>3, <1>4
       DEF TypeInv, TypeOK, mapVars, memberVars, clientVars

\* SendMessage, for every caller.
LEMMA SendingTypeInv ==
  ASSUME TypeInv, NEW g \in Goroutines, Sending(g)
  PROVE  TypeInv'
  <1>r. requests \in 0..MaxRequests /\ told \in [Clients -> SUBSET Topics]
          /\ aborted \subseteq Objects
    BY DEF TypeInv, TypeOK
  <1>k. /\ isClosed \in [Clients -> BOOLEAN]
        /\ backlog \in [Clients -> 0..QueueSize]
        /\ subscribedTopics \in [Clients -> SUBSET Topics]
    BY DEF TypeInv, TypeOK
  <1>1. ASSUME NEW c \in Clients, SendCheck(g, c) PROVE TypeInv'
    <2>1. CASE isClosed[c]
      <3>1. Returned(g, c) /\ created' = created
        BY <1>1, <2>1 DEF SendCheck, mapVars
      <3> QED
        BY <1>1, <3>1, <1>r, <1>k, ReturnedTyped, JobStepTyped
           DEF SendCheck, clientVars, historyVars
    <2>2. CASE ~isClosed[c]
      <3> DEFINE j == [job[g] EXCEPT !.target = c]
      <3>1. job' = [job EXCEPT ![g] = j]
        BY <1>1, <2>2, JobTyped DEF SendCheck
      <3>2. /\ j \in Jobs /\ j.at = job[g].at /\ j.answer = job[g].answer
            /\ j.topic = job[g].topic /\ j.inc = job[g].inc
        BY JobTyped DEF Jobs
      <3> HIDE DEF j
      <3>3. job' \in [Goroutines -> Jobs] /\ JobsSound'
        BY <1>1, <3>1, <3>2, JobTyped, NewJob DEF At, SendCheck, mapVars
      <3> QED
        BY <1>1, <2>2, <3>3, <1>r, <1>k, JobStepTyped
           DEF SendCheck, clientVars, historyVars
    <2> QED
      BY <2>1, <2>2
  <1>2. ASSUME NEW c \in Clients, SendQueued(g, c) PROVE TypeInv'
    <2>1. backlog' \in [Clients -> 0..QueueSize]
      <3>1. backlog[c] \in 0..QueueSize /\ QueueSize \in Nat
        BY <1>k, LimitsAssumption
      <3>2. backlog[c] + 1 \in 0..QueueSize
        BY <1>2, <3>1 DEF SendQueued
      <3> QED
        BY <1>2, <1>k, <3>2 DEF SendQueued
    <2>2. job' \in [Goroutines -> Jobs] /\ JobsSound'
            /\ subscribedTopics' \in [Clients -> SUBSET Topics]
      BY <1>2, ReturnedTyped DEF SendQueued, mapVars
    <2>3. told' \in [Clients -> SUBSET Topics]
      BY <1>2, TellTyped DEF SendQueued
    <2> QED
      BY <1>2, <2>1, <2>2, <2>3, <1>r, <1>k, JobStepTyped DEF SendQueued
  <1>3. ASSUME NEW c \in Clients, SendFull(g, c) PROVE TypeInv'
    <2>1. job' \in [Goroutines -> Jobs] /\ JobsSound'
            /\ subscribedTopics' \in [Clients -> SUBSET Topics]
      BY <1>3, ReturnedTyped DEF SendFull, mapVars
    <2> QED
      BY <1>3, <2>1, <1>r, ShutTyped, JobStepTyped DEF SendFull, historyVars
  <1>4. ASSUME NEW c \in Clients, SendPanics(g, c) PROVE TypeInv'
    BY <1>4, PanicTyped DEF SendPanics
  <1> QED
    BY <1>1, <1>2, <1>3, <1>4 DEF Sending

\* writeLoop, the end of the connection and cleanupSubscriber.
LEMMA ConnectionTypeInv ==
  ASSUME TypeInv, NEW c \in Clients, Connection(c) \/ CleaningUp(c)
  PROVE  TypeInv'
  <1> USE DEF At
  <1>c. c \in Goroutines /\ c \notin Admins
    BY NamesAssumption DEF Goroutines
  <1>r. requests \in 0..MaxRequests /\ told \in [Clients -> SUBSET Topics]
          /\ aborted \subseteq Objects
          /\ subscribedTopics \in [Clients -> SUBSET Topics]
          /\ isClosed \in [Clients -> BOOLEAN]
          /\ backlog \in [Clients -> 0..QueueSize]
    BY DEF TypeInv, TypeOK
  <1>l. {"cleanup", "leave", "leaving", "done"} \subseteq ClientLabels \cap Labels
    BY DEF ClientLabels, Labels
  <1>s. JobsSound /\ MapSound
    BY DEF TypeInv
  <1>1. CASE Drain(c)
    <2>1. backlog' \in [Clients -> 0..QueueSize]
      <3>1. backlog[c] \in 0..QueueSize /\ QueueSize \in Nat
        BY <1>r, LimitsAssumption
      <3>2. backlog[c] - 1 \in 0..QueueSize
        BY <1>1, <3>1 DEF Drain
      <3> QED
        BY <1>1, <1>r, <3>2 DEF Drain
    <2>2. job' \in [Goroutines -> Jobs] /\ JobsSound'
      BY <1>1, <1>c, <1>s, JobTyped DEF Drain, JobsSound, mapVars
    <2> QED
      BY <1>1, <2>1, <2>2, <1>r, JobStepTyped DEF Drain, memberVars, historyVars
  <1>2. CASE WriteFails(c)
    <2>1. job' \in [Goroutines -> Jobs] /\ JobsSound'
      BY <1>2, <1>c, <1>s, JobTyped DEF WriteFails, JobsSound, mapVars
    <2> QED
      BY <1>2, <2>1, <1>r, ShutTyped, JobStepTyped
         DEF WriteFails, memberVars, historyVars
  <1>3. CASE Disconnect(c)
    BY <1>3, <1>c, <1>l, <1>r, MoveTyped, JobOnlyTyped
       DEF Disconnect, mapVars, Holding
  <1>4. CASE Cleanup(c)
    <2> DEFINE j == [job[c] EXCEPT !.at = "leave", !.left = subscribedTopics[c]]
    <2>1. job' = [job EXCEPT ![c] = j]
      BY <1>4, <1>c, JobTyped DEF Cleanup
    <2>2. /\ j \in Jobs /\ j.at = "leave" /\ j.answer = job[c].answer
          /\ j.topic = job[c].topic
      BY <1>c, <1>r, <1>l, JobTyped DEF Jobs
    <2> HIDE DEF j
    <2>3. job' \in [Goroutines -> Jobs] /\ JobsSound'
      <3>1. created' = created
        BY <1>4 DEF Cleanup, mapVars
      <3>2. j.at \in ClientLabels /\ j.at \notin Holding /\ j.at # "lookup"
        BY <2>2, <1>l DEF Holding
      <3>3. j.answer = "subscribed" => j.topic \in Topics
        BY <2>2, <1>c, JobTyped
      <3> QED
        BY <1>c, <2>1, <2>2, <3>1, <3>2, <3>3, NewJob
    <2> QED
      BY <1>4, <2>3, <1>r, JobOnlyTyped DEF Cleanup
  <1>5. ASSUME NEW t \in Topics, LeaveLookup(c, t) PROVE TypeInv'
    <2>1. CASE topicsMap[t] = 0
      <3> DEFINE j == [job[c] EXCEPT !.left = job[c].left \ {t}]
      <3>1. job' = [job EXCEPT ![c] = j]
        BY <1>5, <2>1, <1>c, JobTyped DEF LeaveLookup
      <3>2. /\ j \in Jobs /\ j.at = "leave" /\ j.answer = job[c].answer
            /\ j.topic = job[c].topic
        BY <1>5, <1>c, JobTyped DEF Jobs, LeaveLookup
      <3> HIDE DEF j
      <3>3. job' \in [Goroutines -> Jobs] /\ JobsSound'
        <4>1. created' = created
          BY <1>5 DEF LeaveLookup, mapVars
        <4>2. j.at \in ClientLabels /\ j.at \notin Holding /\ j.at # "lookup"
          BY <3>2, <1>l DEF Holding
        <4>3. j.answer = "subscribed" => j.topic \in Topics
          BY <3>2, <1>c, JobTyped
        <4> QED
          BY <1>c, <3>1, <3>2, <4>1, <4>2, <4>3, NewJob
      <3> QED
        BY <1>5, <3>3, <1>r, JobOnlyTyped DEF LeaveLookup
    <2>2. CASE topicsMap[t] # 0
      <3> DEFINE j == [job[c] EXCEPT !.at = "leaving", !.topic = t,
                                     !.inc = topicsMap[t]]
      <3>0. topicsMap[t] \in 0..MaxIncarnations
              /\ topicsMap[t] \in 1..created[t]
        BY <2>2 DEF TypeInv, TypeOK, MapSound
      <3>1. job' = [job EXCEPT ![c] = j]
        BY <1>5, <2>2, <1>c, JobTyped DEF LeaveLookup
      <3>2. /\ j \in Jobs /\ j.at = "leaving" /\ j.answer = job[c].answer
            /\ j.topic = t /\ j.inc = topicsMap[t]
        BY <1>c, <1>l, <3>0, JobTyped DEF Jobs
      <3> HIDE DEF j
      <3>3. job' \in [Goroutines -> Jobs] /\ JobsSound'
        <4>1. created' = created
          BY <1>5 DEF LeaveLookup, mapVars
        <4>2. j.at \in ClientLabels /\ j.at # "lookup"
          BY <3>2, <1>l
        <4>3. j.topic \in Topics /\ j.inc \in 1..created[j.topic]
          BY <3>0, <3>2
        <4> QED
          BY <1>c, <3>1, <3>2, <4>1, <4>2, <4>3, NewJob
      <3> QED
        BY <1>5, <3>3, <1>r, JobOnlyTyped DEF LeaveLookup
    <2> QED
      BY <2>1, <2>2
  <1>6. CASE Leave(c)
    <2> DEFINE o == HeldObject(c)
               rest == job[c].left \ {o[1]}
               j == [Idle EXCEPT !.at = "leave", !.left = rest]
    <2>0. o \in Objects
      BY <1>6, <1>c, HeldTyped DEF Leave, Holding
    <2>1. rest \in SUBSET Topics
      BY <1>c, JobTyped DEF Jobs
    <2>2. job' = [job EXCEPT ![c] = j]
      BY <1>6 DEF Leave
    <2>3. /\ subscribers' \in [Objects -> SUBSET Clients]
          /\ subscribedTopics' \in [Clients -> SUBSET Topics]
          /\ MapSound'
      BY <1>6, <2>0, RemoveTyped DEF Leave, mapVars
    <2> HIDE DEF o, rest
    <2>4. /\ j \in Jobs /\ j.at = "leave" /\ j.answer = "none"
      <3>1. 0 \in 0..MaxIncarnations
        BY LimitsAssumption
      <3> QED
        BY <2>1, <3>1 DEF Idle, Jobs, Labels, Answers
    <2> HIDE DEF j
    <2>5. job' \in [Goroutines -> Jobs] /\ JobsSound'
      BY <1>6, <1>c, <1>l, <2>2, <2>4, NewJob DEF Leave, mapVars, Holding
    <2> QED
      BY <1>6, <2>3, <2>5 DEF Leave, TypeInv, TypeOK, mapVars, mutexVars,
         clientVars, historyVars
  <1>7. CASE CleanupClose(c)
    <2>1. job' \in [Goroutines -> Jobs] /\ JobsSound'
      BY <1>7, <1>c, <1>l, MoveTyped DEF CleanupClose, mapVars, Holding
    <2> QED
      BY <1>7, <2>1, <1>r, ShutTyped, JobStepTyped
         DEF CleanupClose, memberVars, historyVars
  <1> QED
    BY <1>1, <1>2, <1>3, <1>4, <1>5, <1>6, <1>7 DEF Connection, CleaningUp

\* Creation and deletion of topics.
LEMMA AdminTypeInv ==
  ASSUME TypeInv, NEW a \in Admins, Administering(a) \/ Deleting(a)
  PROVE  TypeInv'
  <1> USE DEF At
  <1>c. a \in Goroutines /\ a \notin Clients
    BY NamesAssumption DEF Goroutines
  <1>l. {"ready", "lockTopic", "notify", "unmap"} \subseteq AdminLabels \cap Labels
    BY DEF AdminLabels, Labels
  <1>1. ASSUME NEW t \in Topics, CreateTopic(a, t) PROVE TypeInv'
    <2>1. /\ created[t] + 1 \in 1..MaxIncarnations
          /\ created[t] \in Nat
      BY <1>1, LimitsAssumption DEF CreateTopic, TypeInv, TypeOK
    <2>2. /\ topicsMap' \in [Topics -> 0..MaxIncarnations]
          /\ created' \in [Topics -> 0..MaxIncarnations]
          /\ \A u \in Topics : created[u] \in Nat /\ created'[u] >= created[u]
      BY <1>1, <2>1 DEF CreateTopic, TypeInv, TypeOK
    <2>3. JobsSound'
      <3> SUFFICES ASSUME NEW g \in Goroutines, job[g].at \in Holding
                   PROVE  /\ job[g].topic \in Topics
                          /\ job[g].inc \in 1..created'[job[g].topic]
        BY <1>1 DEF CreateTopic, TypeInv, JobsSound
      <3>1. job[g].topic \in Topics /\ job[g].inc \in 1..created[job[g].topic]
        BY JobTyped
      <3>2. created'[job[g].topic] >= created[job[g].topic]
              /\ created'[job[g].topic] \in Nat
        BY <2>2, <3>1, LimitsAssumption
      <3> QED
        BY <3>1, <3>2, <2>2
    <2>4. MapSound'
      BY <1>1, <2>1, <2>2 DEF CreateTopic, memberVars, TypeInv, TypeOK,
         MapSound, Objects
    <2> QED
      BY <1>1, <2>2, <2>3, <2>4 DEF CreateTopic, TypeInv, TypeOK, memberVars,
         mutexVars, clientVars, historyVars
  <1>2. ASSUME NEW t \in Topics, DeleteTopic(a, t) PROVE TypeInv'
    <2>1. topicsMap[t] \in 0..MaxIncarnations
            /\ topicsMap[t] \in 1..created[t]
      BY <1>2 DEF DeleteTopic, TypeInv, TypeOK, MapSound
    <2>2. job' \in [Goroutines -> Jobs] /\ JobsSound'
      BY <1>2, <2>1, <1>c, <1>l, BeginTyped DEF DeleteTopic, mapVars
    <2>3. shardMutex' \in [Shards -> Admins \cup {NoOne}] /\ MapSound'
      BY <1>2 DEF DeleteTopic, TypeInv, TypeOK, MapSound, mapVars, memberVars
    <2> QED
      BY <1>2, <2>2, <2>3 DEF DeleteTopic, TypeInv, TypeOK, mapVars,
         memberVars, clientVars, historyVars
  <1>3. CASE DeleteLockTopic(a)
    <2> DEFINE todo == subscribers[HeldObject(a)]
    <2>1. todo \in SUBSET Clients
      BY <1>3, <1>c, HeldTyped DEF DeleteLockTopic, Holding
    <2>2. job' = [job EXCEPT ![a].at = "notify", ![a].todo = todo]
      BY <1>3 DEF DeleteLockTopic
    <2> HIDE DEF todo
    <2>3. job' \in [Goroutines -> Jobs] /\ JobsSound'
      BY <1>3, <2>1, <2>2, <1>c, <1>l, MoveTodoTyped
         DEF DeleteLockTopic, mapVars, Holding
    <2>4. subscribersMutex' \in [Objects -> Admins \cup {NoOne}] /\ MapSound'
      BY <1>3 DEF DeleteLockTopic, TypeInv, TypeOK, MapSound, mapVars, memberVars
    <2> QED
      BY <1>3, <2>3, <2>4 DEF DeleteLockTopic, TypeInv, TypeOK, mapVars,
         memberVars, clientVars, historyVars
  <1>4. CASE DeleteNotified(a)
    <2>1. job' \in [Goroutines -> Jobs] /\ JobsSound'
      BY <1>4, <1>c, <1>l, MoveTyped DEF DeleteNotified, mapVars, Holding
    <2>2. /\ subscribers' \in [Objects -> SUBSET Clients]
          /\ subscribersMutex' \in [Objects -> Admins \cup {NoOne}]
          /\ MapSound'
      BY <1>4 DEF DeleteNotified, TypeInv, TypeOK, MapSound, mapVars
    <2> QED
      BY <1>4, <2>1, <2>2 DEF DeleteNotified, TypeInv, TypeOK, mapVars,
         clientVars, historyVars
  <1>5. CASE DeleteUnmap(a)
    <2>1. job' \in [Goroutines -> Jobs] /\ JobsSound'
      BY <1>5, <1>c, <1>l, IdleTyped, NewJob DEF DeleteUnmap, Holding
    <2>2. topicsMap' \in [Topics -> 0..MaxIncarnations]
      <3>1. 0 \in 0..MaxIncarnations
        BY LimitsAssumption
      <3>2. topicsMap' = [topicsMap EXCEPT ![job[a].topic] = 0]
        BY <1>5 DEF DeleteUnmap
      <3>3. topicsMap \in [Topics -> 0..MaxIncarnations]
        BY DEF TypeInv, TypeOK
      <3> QED
        BY <3>1, <3>2, <3>3
    <2>3. shardMutex' \in [Shards -> Admins \cup {NoOne}]
      BY <1>5 DEF DeleteUnmap, TypeInv, TypeOK
    <2>4. MapSound'
      BY <1>5 DEF DeleteUnmap, TypeInv, TypeOK, MapSound, memberVars
    <2> QED
      BY <1>5, <2>1, <2>2, <2>3, <2>4 DEF DeleteUnmap, TypeInv, TypeOK,
         memberVars, clientVars, historyVars
  <1> QED
    BY <1>1, <1>2, <1>3, <1>4, <1>5 DEF Administering, Deleting

\* TypeInv is inductive.
LEMMA NextTypeInv == TypeInv /\ [Next]_vars => TypeInv'
  <1> SUFFICES ASSUME TypeInv, [Next]_vars PROVE TypeInv'
    OBVIOUS
  <1>1. CASE UNCHANGED vars
    BY <1>1 DEF TypeInv, TypeOK, JobsSound, MapSound, At, vars, mapVars,
       memberVars, mutexVars, clientVars, historyVars
  <1>2. CASE \E c \in Clients : Asking(c) \/ Serving(c)
    BY <1>2, ServingTypeInv
  <1>3. CASE \E c \in Clients : Connection(c) \/ CleaningUp(c)
    BY <1>3, ConnectionTypeInv
  <1>4. CASE \E a \in Admins : Administering(a) \/ Deleting(a)
    BY <1>4, AdminTypeInv
  <1>5. CASE \E g \in Goroutines : Sending(g)
    BY <1>5, SendingTypeInv
  <1> QED
    BY <1>1, <1>2, <1>3, <1>4, <1>5 DEF Next, Quiet

\* Type correctness of the broker: in particular no queue exceeds its
\* capacity, and only an administrator holds a lock across steps.
THEOREM TypeCorrect == Safety => []TypeOK
  <1>1. TypeInv => TypeOK
    BY DEF TypeInv
  <1> QED
    BY <1>1, InitTypeInv, NextTypeInv, PTL DEF Safety

-----------------------------------------------------------------------------
(* Members                                                                 *)

\* A step that makes client c a member of nothing, and takes from it no topic
\* it is still a member of.
NoNewMembership(c) ==
  \A o \in Objects :
    /\ c \in subscribers'[o] => c \in subscribers[o]
    /\ c \in subscribers'[o] /\ Live(o)' => Live(o)
    /\ Member(c, o)' => /\ Member(c, o)
                        /\ o[1] \in subscribedTopics[c]
                             => o[1] \in subscribedTopics'[c]

\* A client whose own work goes on as before, while memberships may end.
LEMMA Undisturbed ==
  ASSUME NEW c \in Clients, ClientSound(c), NoNewMembership(c),
         job'[c].at = job[c].at, job'[c].topic = job[c].topic,
         job'[c].inc = job[c].inc, job'[c].left = job[c].left
  PROVE  ClientSound(c)'
  BY DEF ClientSound, NoNewMembership, At

\* A client that goes on to something that is neither a departure nor the
\* leaving of a topic.
LEMMA MovesOn ==
  ASSUME NEW c \in Clients, ClientSound(c), NoNewMembership(c),
         job'[c].at \notin {"remove", "leave", "leaving", "done"}
  PROVE  ClientSound(c)'
  BY DEF ClientSound, NoNewMembership, At

\* A step that leaves topics, members and locks alone.
LEMMA SameMembers ==
  ASSUME NEW c \in Clients,
         UNCHANGED <<mapVars, memberVars, mutexVars, aborted>>
  PROVE  NoNewMembership(c)
  BY DEF NoNewMembership, Member, Live, TopicFree, mapVars, memberVars,
         mutexVars

\* What a client does on its own account touches nobody else.
LEMMA OwnStep ==
  ASSUME TypeInv, NEW c \in Clients,
         Asking(c) \/ Serving(c) \/ CleaningUp(c) \/ Connection(c)
  PROVE  /\ UNCHANGED <<mapVars, mutexVars, aborted>>
         /\ \A g \in Goroutines \ {c} : job'[g] = job[g]
         /\ \A d \in Clients \ {c} :
              /\ subscribedTopics'[d] = subscribedTopics[d]
              /\ \A o \in Objects :
                   d \in subscribers'[o] => d \in subscribers[o]
         /\ told' = told
         /\ \A d \in Clients : isClosed[d] => isClosed'[d]
  <1> USE DEF memberVars, clientVars, historyVars
  <1>t. /\ job \in [Goroutines -> Jobs] /\ c \in Goroutines
        /\ subscribers \in [Objects -> SUBSET Clients]
        /\ subscribedTopics \in [Clients -> SUBSET Topics]
        /\ isClosed \in [Clients -> BOOLEAN]
    BY DEF TypeInv, TypeOK, Goroutines
  <1>1. CASE Asking(c)
    BY <1>1, <1>t DEF Asking, Ping, Subscribe, Unsubscribe, Publish, Answer, Begin
  <1>2. CASE Serving(c)
    BY <1>2, <1>t DEF Serving, SubscribeLookup, AddSubscriber, Remove, RemoveFrom,
       Save, Snapshot, FanoutDone, Answer, Begin, Goto
  <1>3. CASE CleaningUp(c)
    <2>1. CASE Cleanup(c)
      BY <2>1, <1>t DEF Cleanup
    <2>2. ASSUME NEW t \in Topics, LeaveLookup(c, t)
          PROVE  /\ UNCHANGED <<mapVars, mutexVars, memberVars, historyVars,
                                isClosed>>
                 /\ \A g \in Goroutines \ {c} : job'[g] = job[g]
      BY <2>2, <1>t DEF LeaveLookup
    <2>3. CASE Leave(c)
      BY <2>3, <1>t DEF Leave, RemoveFrom
    <2>4. CASE CleanupClose(c)
      BY <2>4, <1>t DEF CleanupClose, Goto, Shut
    <2> QED
      BY <1>3, <2>1, <2>2, <2>3, <2>4 DEF CleaningUp
  <1>4. CASE Connection(c)
    BY <1>4, <1>t DEF Connection, Drain, WriteFails, Disconnect, Goto, Shut
  <1> QED
    BY <1>1, <1>2, <1>3, <1>4

\* A step in which no deletion moves.
LEMMA LocksKept ==
  ASSUME LocksSound, UNCHANGED <<mapVars, mutexVars>>,
         \A a \in Admins : /\ job'[a].at = job[a].at
                           /\ job'[a].topic = job[a].topic
                           /\ job'[a].inc = job[a].inc
  PROVE  LocksSound'
  <1>1. /\ topicsMap' = topicsMap /\ shardMutex' = shardMutex
        /\ subscribersMutex' = subscribersMutex
    BY DEF mapVars, mutexVars
  <1>2. \A a \in Admins : HeldObject(a)' = HeldObject(a)
    BY DEF HeldObject
  <1> QED
    BY <1>1, <1>2 DEF LocksSound, HoldsItsLocks, At, Live

\* A name leads to the object made last.
LEMMA LiveIsLast ==
  ASSUME TypeInv, NEW o \in Objects
  PROVE  /\ Live(o) => o[2] = created[o[1]] /\ topicsMap[o[1]] # 0
         /\ o[2] > topicsMap[o[1]] /\ topicsMap[o[1]] # 0 => subscribers[o] = {}
  <1>1. o[1] \in Topics /\ o[2] \in 1..MaxIncarnations
    BY DEF Objects
  <1> QED
    BY <1>1, LimitsAssumption DEF TypeInv, TypeOK, MapSound, Live

\* A client that leaves the object it looked up is in none of that name that
\* counts.
LEMMA Forgets ==
  ASSUME TypeInv, NEW c \in Clients, ClientSound(c),
         job[c].at \in {"remove", "leaving"}, RemoveFrom(c, HeldObject(c)),
         UNCHANGED <<mapVars, mutexVars, aborted>>
  PROVE  /\ NoNewMembership(c)
         /\ \A o \in Objects : Live(o) /\ c \in subscribers'[o]
                               => o[1] # job[c].topic
  <1> DEFINE held == HeldObject(c)
  <1>1. /\ held \in Objects /\ held = <<job[c].topic, job[c].inc>>
        /\ job[c].topic \in Topics /\ job[c].inc \in 1..created[job[c].topic]
        /\ created[job[c].topic] \in Nat
    <2>1. c \in Goroutines /\ job[c].at \in Holding
      BY DEF Goroutines, Holding
    <2> QED
      BY <2>1, HeldTyped DEF HeldObject, TypeInv, TypeOK
  <1> HIDE DEF held
  <1>2. /\ subscribers \in [Objects -> SUBSET Clients]
        /\ subscribedTopics \in [Clients -> SUBSET Topics]
    BY DEF TypeInv, TypeOK
  <1>3. RemoveFrom(c, held)
    BY DEF held
  <1>4. c \notin subscribers'[held]
    BY <1>1, <1>2, <1>3 DEF RemoveFrom, memberVars
  <1>5. ASSUME NEW o \in Objects
        PROVE  /\ c \in subscribers'[o] => c \in subscribers[o]
               /\ Member(c, o)' => Member(c, o)
    <2>1. c \in subscribers'[o] => c \in subscribers[o]
      BY <1>1, <1>2, <1>3 DEF RemoveFrom, memberVars
    <2> QED
      BY <2>1 DEF Member, Live, TopicFree, mapVars, mutexVars
  <1>6. ASSUME NEW o \in Objects, Live(o), c \in subscribers'[o]
        PROVE  o[1] # job[c].topic
    <2>1. SUFFICES ASSUME o[1] = job[c].topic PROVE FALSE
      OBVIOUS
    <2>2. c \in subscribers[o] /\ c \in subscribers'[o]
      BY <1>5, <1>6
    <2>3. o[2] = created[job[c].topic]
      BY <1>6, <2>1, LiveIsLast
    <2>4. o[2] > job[c].inc \/ o[2] = job[c].inc
      BY <1>1, <2>3
    <2>5. o = <<o[1], o[2]>>
      BY DEF Objects
    <2>6. o # held
      BY <1>4, <2>2
    <2>7. o[2] > job[c].inc
      BY <1>1, <2>1, <2>4, <2>5, <2>6
    <2> QED
      BY <2>1, <2>2, <2>7 DEF ClientSound
  <1>7. ASSUME NEW t \in subscribedTopics[c], t # job[c].topic
        PROVE  t \in subscribedTopics'[c]
    BY <1>1, <1>2, <1>3, <1>7 DEF RemoveFrom, memberVars
  <1> QED
    BY <1>5, <1>6, <1>7 DEF NoNewMembership, Member, Live, mapVars

\* The requests of a client keep its own memberships in order:
\* AddSubscriber writes both maps, RemoveSubscriber is called for the object
\* looked up last.
LEMMA RequestSound ==
  ASSUME TypeInv, NEW c \in Clients, ClientSound(c),
         Asking(c) \/ Serving(c)
  PROVE  ClientSound(c)'
  <1>t. /\ job \in [Goroutines -> Jobs] /\ c \in Goroutines /\ job[c] \in Jobs
        /\ subscribers \in [Objects -> SUBSET Clients]
        /\ subscribedTopics \in [Clients -> SUBSET Topics]
    BY DEF TypeInv, TypeOK, Goroutines
  <1>k. UNCHANGED <<mapVars, mutexVars, aborted>>
    BY OwnStep
  <1>1. CASE \/ Ping(c) \/ SubscribeLookup(c) \/ Save(c) \/ Snapshot(c)
             \/ FanoutDone(c)
             \/ \E t \in Topics : Subscribe(c, t) \/ Publish(c, t)
    <2>1. UNCHANGED memberVars
      BY <1>1 DEF Ping, SubscribeLookup, Save, Snapshot, FanoutDone, Subscribe,
         Publish
    <2>2. job'[c].at \in {"reply", "lookup", "add", "snapshot", "fanout", "save"}
      <3>1. CASE Ping(c) \/ SubscribeLookup(c)
        BY <3>1, <1>t DEF Ping, SubscribeLookup, Answer, Begin, Idle
      <3>2. CASE Save(c) \/ FanoutDone(c)
        BY <3>2, <1>t DEF Save, FanoutDone, Answer, Goto, Idle, Jobs
      <3>3. CASE Snapshot(c)
        BY <3>3, <1>t DEF Snapshot, Jobs
      <3>4. ASSUME NEW t \in Topics, Subscribe(c, t) \/ Publish(c, t)
            PROVE  job'[c].at \in {"reply", "lookup", "save"}
        BY <3>4, <1>t DEF Subscribe, Publish, Answer, Begin, Idle
      <3> QED
        BY <1>1, <3>1, <3>2, <3>3, <3>4
    <2> QED
      BY <1>k, <2>1, <2>2, SameMembers, MovesOn
  <1>2. ASSUME NEW t \in Topics, Unsubscribe(c, t) PROVE ClientSound(c)'
    <2>0. UNCHANGED memberVars
      BY <1>2 DEF Unsubscribe
    <2>1. CASE topicsMap[t] = 0
      <3>1. job'[c].at = "reply"
        BY <1>2, <2>1, <1>t DEF Unsubscribe, Answer, Idle
      <3> QED
        BY <1>k, <2>0, <3>1, SameMembers, MovesOn
    <2>2. CASE topicsMap[t] # 0
      <3>1. job'[c].at = "remove" /\ job'[c].topic = t
              /\ job'[c].inc = topicsMap[t]
        BY <1>2, <2>2, <1>t DEF Unsubscribe, Begin, Idle
      <3>2. \A o \in Objects : o[1] = t /\ o[2] > topicsMap[t]
                               => c \notin subscribers'[o]
        BY <2>0, <2>2, LiveIsLast DEF memberVars
      <3>3. NoNewMembership(c)
        BY <1>k, <2>0, SameMembers
      <3> QED
        BY <3>1, <3>2, <3>3 DEF ClientSound, NoNewMembership, At
    <2> QED
      BY <2>1, <2>2
  <1>3. CASE AddSubscriber(c)
    <2> DEFINE held == HeldObject(c)
    <2>1. held \in Objects /\ held[1] \in Topics
      <3>1. job[c].at \in Holding
        BY <1>3 DEF AddSubscriber, At, Holding
      <3> QED
        BY <1>t, <3>1, HeldTyped
    <2>2. job'[c].at = "reply"
      BY <1>3, <1>t DEF AddSubscriber, Answer, Idle
    <2>3. \/ UNCHANGED memberVars
          \/ /\ subscribers' = [subscribers EXCEPT ![held] = @ \cup {c}]
             /\ subscribedTopics' = [subscribedTopics EXCEPT
                                       ![c] = @ \cup {held[1]}]
      BY <1>3 DEF AddSubscriber
    <2> HIDE DEF held
    <2>4. CASE UNCHANGED memberVars
      BY <1>k, <2>2, <2>4, SameMembers, MovesOn
    <2>5. CASE /\ subscribers' = [subscribers EXCEPT ![held] = @ \cup {c}]
               /\ subscribedTopics' = [subscribedTopics EXCEPT
                                         ![c] = @ \cup {held[1]}]
      <3>1. ASSUME NEW o \in Objects, Member(c, o)'
            PROVE  o[1] \in subscribedTopics'[c]
        <4>1. CASE o = held
          BY <4>1, <1>t, <2>5
        <4>2. CASE o # held
          <5>1. Member(c, o)
            BY <1>k, <1>t, <2>5, <3>1, <4>2
               DEF Member, Live, TopicFree, mapVars, mutexVars
          <5> QED
            BY <5>1, <1>t, <2>5 DEF ClientSound
        <4> QED
          BY <4>1, <4>2
      <3> QED
        BY <2>2, <3>1 DEF ClientSound, At
    <2> QED
      BY <2>3, <2>4, <2>5
  <1>4. CASE Remove(c)
    <2>1. job'[c].at = "reply"
      BY <1>4, <1>t DEF Remove, Answer, Idle
    <2>2. NoNewMembership(c)
      BY <1>4, <1>k, Forgets DEF Remove, At
    <2> QED
      BY <2>1, <2>2, MovesOn
  <1> QED
    BY <1>1, <1>2, <1>3, <1>4 DEF Asking, Serving

\* So does its departure: the copy of its topics covers its memberships, and
\* a topic is dropped from the copy only when it is left or gone.
LEMMA DepartureSound ==
  ASSUME TypeInv, NEW c \in Clients, ClientSound(c),
         Connection(c) \/ CleaningUp(c)
  PROVE  ClientSound(c)'
  <1>t. /\ job \in [Goroutines -> Jobs] /\ c \in Goroutines /\ job[c] \in Jobs
        /\ subscribers \in [Objects -> SUBSET Clients]
        /\ subscribedTopics \in [Clients -> SUBSET Topics]
    BY DEF TypeInv, TypeOK, Goroutines
  <1>k. UNCHANGED <<mapVars, mutexVars, aborted>>
    BY OwnStep
  <1>1. CASE Drain(c) \/ WriteFails(c)
    <2>1. UNCHANGED <<memberVars, job>>
      BY <1>1 DEF Drain, WriteFails
    <2> QED
      BY <1>k, <2>1, SameMembers, Undisturbed
  <1>2. CASE Disconnect(c)
    <2>1. job'[c].at = "cleanup" /\ UNCHANGED memberVars
      BY <1>2, <1>t DEF Disconnect, Goto, Jobs
    <2> QED
      BY <1>k, <2>1, SameMembers, MovesOn
  <1>3. CASE Cleanup(c)
    <2>1. /\ job'[c].at = "leave" /\ job'[c].left = subscribedTopics[c]
          /\ UNCHANGED memberVars
      BY <1>3, <1>t DEF Cleanup, Jobs
    <2>2. NoNewMembership(c)
      BY <1>k, <2>1, SameMembers
    <2> QED
      BY <2>1, <2>2 DEF ClientSound, NoNewMembership, At
  <1>4. ASSUME NEW t \in Topics, LeaveLookup(c, t) PROVE ClientSound(c)'
    <2>0. UNCHANGED memberVars /\ job[c].at = "leave"
      BY <1>4 DEF LeaveLookup, At
    <2>n. NoNewMembership(c)
      BY <1>k, <2>0, SameMembers
    <2>1. CASE topicsMap[t] = 0
      <3>1. job'[c].at = "leave" /\ job'[c].left = job[c].left \ {t}
        BY <1>4, <2>1, <1>t DEF LeaveLookup, Jobs, At
      <3>2. \A o \in Objects : Member(c, o) => o[1] # t
        BY <2>1, LiveIsLast DEF Member
      <3> QED
        BY <2>0, <2>n, <3>1, <3>2 DEF ClientSound, NoNewMembership, At
    <2>2. CASE topicsMap[t] # 0
      <3>1. /\ job'[c].at = "leaving" /\ job'[c].topic = t
            /\ job'[c].inc = topicsMap[t] /\ job'[c].left = job[c].left
        BY <1>4, <2>2, <1>t DEF LeaveLookup, Jobs
      <3>2. \A o \in Objects : o[1] = t /\ o[2] > topicsMap[t]
                               => c \notin subscribers'[o]
        BY <2>0, <2>2, LiveIsLast DEF memberVars
      <3> QED
        BY <2>0, <2>n, <3>1, <3>2 DEF ClientSound, NoNewMembership, At
    <2> QED
      BY <2>1, <2>2
  <1>5. CASE Leave(c)
    <2>1. /\ job'[c].at = "leave" /\ job'[c].left = job[c].left \ {job[c].topic}
          /\ RemoveFrom(c, HeldObject(c)) /\ job[c].at = "leaving"
      BY <1>5, <1>t DEF Leave, Idle, HeldObject, At
    <2>2. /\ NoNewMembership(c)
          /\ \A o \in Objects : Live(o) /\ c \in subscribers'[o]
                                => o[1] # job[c].topic
      BY <2>1, <1>k, Forgets
    <2> QED
      BY <2>1, <2>2 DEF Member, ClientSound, NoNewMembership, At
  <1>6. CASE CleanupClose(c)
    <2>1. /\ job'[c].at = "done" /\ job'[c].left = {} /\ job[c].left = {}
          /\ job[c].at = "leave" /\ UNCHANGED memberVars
      BY <1>6, <1>t DEF CleanupClose, Goto, Jobs, At
    <2>2. NoNewMembership(c)
      BY <1>k, <2>1, SameMembers
    <2> QED
      BY <2>1, <2>2 DEF ClientSound, NoNewMembership, At
  <1> QED
    BY <1>1, <1>2, <1>3, <1>4, <1>5, <1>6 DEF Connection, CleaningUp

\* A step of a client on its own account.
LEMMA ClientKeepsMembers ==
  ASSUME MemberInv, TypeInv', NEW c \in Clients,
         Asking(c) \/ Serving(c) \/ CleaningUp(c) \/ Connection(c)
  PROVE  MemberInv'
  <1>1. TypeInv /\ LocksSound /\ TypeOK
    BY DEF MemberInv, TypeInv
  <1>2. /\ UNCHANGED <<mapVars, mutexVars, aborted>>
        /\ \A g \in Goroutines \ {c} : job'[g] = job[g]
        /\ \A d \in Clients \ {c} :
             /\ subscribedTopics'[d] = subscribedTopics[d]
             /\ \A o \in Objects :
                  d \in subscribers'[o] => d \in subscribers[o]
    BY <1>1, OwnStep
  <1>3. LocksSound'
    <2>1. \A a \in Admins : job'[a] = job[a]
      BY <1>2, NamesAssumption DEF Goroutines
    <2> QED
      BY <1>1, <1>2, <2>1, LocksKept
  <1>4. ClientSound(c)'
    BY <1>1, RequestSound, DepartureSound DEF MemberInv
  <1>5. ASSUME NEW d \in Clients \ {c} PROVE ClientSound(d)'
    <2>1. NoNewMembership(d)
      BY <1>2 DEF NoNewMembership, Member, Live, TopicFree, mapVars, mutexVars
    <2> QED
      BY <1>2, <2>1, Undisturbed DEF MemberInv, Goroutines
  <1> QED
    BY <1>3, <1>4, <1>5 DEF MemberInv

\* A panic frees only the locks of the deletion it cuts short, and marks the
\* object it leaves half done.
LEMMA PanicKeepsMembers ==
  ASSUME MemberInv, TypeInv', NEW g \in Goroutines, Panic(g)
  PROVE  MemberInv' /\ \A c \in Clients : NoNewMembership(c)
  <1>t. /\ TypeOK /\ LocksSound /\ job \in [Goroutines -> Jobs]
        /\ g # NoOne
    BY NamesAssumption DEF MemberInv, TypeInv, TypeOK
  <1>j. /\ job'[g].at \in {"cleanup", "ready"}
        /\ \A h \in Goroutines \ {g} : job'[h] = job[h]
    BY <1>t DEF Panic, Unwound, Idle
  <1>m. /\ topicsMap' = topicsMap /\ subscribers' = subscribers
        /\ subscribedTopics' = subscribedTopics
        /\ shardMutex' = [s \in Shards |->
                            IF shardMutex[s] = g THEN NoOne ELSE shardMutex[s]]
        /\ subscribersMutex' = [o \in Objects |->
                                  IF subscribersMutex[o] = g
                                  THEN NoOne ELSE subscribersMutex[o]]
        /\ aborted' = IF At(g, "notify") THEN aborted \cup {HeldObject(g)}
                                         ELSE aborted
    BY DEF Panic, mapVars, memberVars
  <1>1. ASSUME NEW a \in Admins, NEW o \in Objects, subscribersMutex'[o] = a
        PROVE  At(a, "notify")' /\ HeldObject(a)' = o
    <2>1. a # NoOne /\ a \in Goroutines
      BY NamesAssumption DEF Goroutines
    <2>2. subscribersMutex[o] = a /\ a # g
      BY <1>1, <1>m, <2>1
    <2>3. job'[a] = job[a]
      BY <1>j, <2>1, <2>2
    <2>4. At(a, "notify") /\ HeldObject(a) = o
      BY <1>t, <2>2 DEF LocksSound, HoldsItsLocks
    <2> QED
      BY <2>3, <2>4 DEF At, HeldObject
  <1>2. ASSUME NEW a \in Admins, job'[a].at \in Deletion
        PROVE  /\ At(a, "notify")' => subscribersMutex'[HeldObject(a)'] = a
               /\ Live(HeldObject(a))' /\ shardMutex'[ShardOf[job'[a].topic]] = a
    <2>1. a \in Goroutines /\ a # g
      BY <1>2, <1>j DEF Deletion, Goroutines
    <2>2. job'[a] = job[a]
      BY <1>j, <2>1
    <2>3. HeldObject(a) \in Objects /\ job[a].topic \in Topics
      <3>1. job[a].at \in Holding
        BY <1>2, <2>2 DEF Deletion, Holding
      <3> QED
        BY <2>1, <3>1, HeldTyped DEF MemberInv
    <2>4. /\ At(a, "notify") => subscribersMutex[HeldObject(a)] = a
          /\ Live(HeldObject(a)) /\ shardMutex[ShardOf[job[a].topic]] = a
      BY <1>2, <1>t, <2>2 DEF LocksSound, HoldsItsLocks
    <2>5. ShardOf[job[a].topic] \in Shards
      BY <2>3, NamesAssumption
    <2>6. HeldObject(a)' = HeldObject(a) /\ (At(a, "notify")' <=> At(a, "notify"))
      BY <2>2 DEF HeldObject, At
    <2>7. Live(HeldObject(a))'
      BY <1>m, <2>4, <2>6 DEF Live
    <2>8. shardMutex'[ShardOf[job'[a].topic]] = a
      BY <1>m, <2>1, <2>2, <2>4, <2>5
    <2>9. At(a, "notify") => subscribersMutex'[HeldObject(a)] = a
      BY <1>m, <2>1, <2>3, <2>4
    <2> QED
      BY <2>6, <2>7, <2>8, <2>9
  <1>3. ASSUME NEW c \in Clients PROVE ClientSound(c)' /\ NoNewMembership(c)
    <2>1. NoNewMembership(c)
      <3>1. ASSUME NEW o \in Objects, Member(c, o)' PROVE TopicFree(o)
        <4>1. SUFFICES ASSUME subscribersMutex[o] = g PROVE FALSE
          BY <1>m, <3>1 DEF Member, TopicFree
        <4>2. At(g, "notify") /\ HeldObject(g) = o
          BY <1>t, <4>1 DEF LocksSound, HoldsItsLocks, TypeOK
        <4> QED
          BY <1>m, <3>1, <4>2 DEF Member
      <3> QED
        BY <1>m, <3>1 DEF NoNewMembership, Member, Live
    <2>2. CASE c = g
      BY <1>j, <2>1, <2>2, MovesOn DEF MemberInv
    <2>3. CASE c # g
      BY <1>j, <2>1, <2>3, Undisturbed DEF MemberInv, Goroutines
    <2> QED
      BY <2>1, <2>2, <2>3
  <1>4. LocksSound'
    BY <1>1, <1>2 DEF LocksSound, HoldsItsLocks, Deletion, At
  <1> QED
    BY <1>3, <1>4 DEF MemberInv

\* A deletion holds the object whose members it notifies, the only one its
\* name leads to.
LEMMA NotifierHolds ==
  ASSUME MemberInv, NEW g \in Goroutines, At(g, "notify"),
         NEW c \in Clients, NEW o \in Objects, Member(c, o)
  PROVE  o[1] # job[g].topic
  <1>1. g \in Admins /\ g # NoOne
    BY NamesAssumption
       DEF MemberInv, TypeInv, JobsSound, ClientLabels, At, Goroutines
  <1>2. subscribersMutex[HeldObject(g)] = g /\ Live(HeldObject(g))
    BY <1>1 DEF MemberInv, LocksSound, HoldsItsLocks, At, Deletion
  <1>3. o # HeldObject(g)
    BY <1>1, <1>2 DEF Member, TopicFree
  <1> QED
    BY <1>2, <1>3 DEF Member, Live, HeldObject, Objects

\* A step of SendMessage that does not panic.  The deletion of an object,
\* which is the one its name leads to, takes the topic from a member while
\* it holds the object.
LEMMA SendKeepsMembers ==
  ASSUME MemberInv, TypeInv', NEW g \in Goroutines, NEW c \in Clients,
         SendCheck(g, c) \/ SendQueued(g, c) \/ SendFull(g, c)
  PROVE  MemberInv' /\ \A d \in Clients : NoNewMembership(d)
  <1>t. /\ TypeOK /\ LocksSound /\ job \in [Goroutines -> Jobs] /\ job[g] \in Jobs
        /\ subscribedTopics \in [Clients -> SUBSET Topics]
    BY DEF MemberInv, TypeInv, TypeOK
  <1>1. /\ UNCHANGED <<mapVars, subscribers, mutexVars, aborted>>
        /\ \A h \in Goroutines \ {g} : job'[h] = job[h]
        /\ subscribedTopics' \in {subscribedTopics,
             [subscribedTopics EXCEPT ![c] = @ \ {job[g].topic}]}
        /\ ~At(g, "notify") => subscribedTopics' = subscribedTopics
    <2>1. CASE Returned(g, c)
      BY <1>t, <2>1 DEF SendCheck, SendQueued, SendFull, Returned, Tell,
         historyVars
    <2>2. CASE SendCheck(g, c) /\ ~Returned(g, c)
      BY <1>t, <2>2 DEF SendCheck, historyVars
    <2> QED
      BY <2>1, <2>2 DEF SendQueued, SendFull
  <1>2. \/ /\ job'[g].at = job[g].at /\ job'[g].topic = job[g].topic
           /\ job'[g].inc = job[g].inc /\ job'[g].left = job[g].left
        \/ job'[g].at = "ready" /\ At(g, "reply")
    <2>1. CASE Returned(g, c)
      BY <1>t, <2>1 DEF Returned, Idle, Jobs
    <2>2. CASE SendCheck(g, c) /\ ~Returned(g, c)
      BY <1>t, <2>2 DEF SendCheck, Jobs
    <2> QED
      BY <2>1, <2>2 DEF SendQueued, SendFull
  <1>3. At(g, "reply") => g \in Clients /\ g \notin Admins
    BY NamesAssumption DEF MemberInv, TypeInv, JobsSound, AdminLabels, At,
       Goroutines
  <1>4. LocksSound'
    <2>1. \A a \in Admins : /\ job'[a].at = job[a].at
                            /\ job'[a].topic = job[a].topic
                            /\ job'[a].inc = job[a].inc
      BY <1>1, <1>2, <1>3 DEF Goroutines
    <2> QED
      BY <1>1, <1>t, <2>1, LocksKept
  <1>5. ASSUME NEW d \in Clients, NEW o \in Objects, Member(d, o),
               o[1] \in subscribedTopics[d]
        PROVE  o[1] \in subscribedTopics'[d]
    <2>1. CASE At(g, "notify")
      <3>1. o[1] # job[g].topic
        BY <1>5, <2>1, NotifierHolds
      <3> QED
        BY <1>1, <1>5, <1>t, <3>1
    <2>2. CASE ~At(g, "notify")
      BY <1>1, <1>5, <2>2
    <2> QED
      BY <2>1, <2>2
  <1>6. ASSUME NEW d \in Clients PROVE ClientSound(d)' /\ NoNewMembership(d)
    <2>1. NoNewMembership(d)
      <3> SUFFICES ASSUME NEW o \in Objects
                   PROVE  /\ d \in subscribers'[o] => d \in subscribers[o]
                          /\ d \in subscribers'[o] /\ Live(o)' => Live(o)
                          /\ Member(d, o)' =>
                               /\ Member(d, o)
                               /\ o[1] \in subscribedTopics[d]
                                    => o[1] \in subscribedTopics'[d]
        BY DEF NoNewMembership
      <3>1. subscribers' = subscribers
        BY <1>1
      <3>2. (Member(d, o)' => Member(d, o)) /\ (Live(o)' => Live(o))
        BY <1>1 DEF Member, Live, TopicFree, mapVars, mutexVars
      <3> QED
        BY <1>5, <3>1, <3>2
    <2>2. CASE d # g \/ job'[g].at # "ready"
      BY <1>1, <1>2, <2>1, <2>2, Undisturbed DEF MemberInv, Goroutines
    <2>3. CASE d = g /\ job'[g].at = "ready"
      BY <2>1, <2>3, MovesOn DEF MemberInv
    <2> QED
      BY <2>1, <2>2, <2>3
  <1> QED
    BY <1>4, <1>6 DEF MemberInv

\* A step of an administrator that changes no client and adds no member.
LEMMA SameClients ==
  ASSUME MemberInv, UNCHANGED subscribedTopics,
         \A c \in Clients : job'[c] = job[c],
         \A c \in Clients, o \in Objects :
           /\ c \in subscribers'[o] => c \in subscribers[o]
           /\ c \in subscribers'[o] /\ Live(o)' => Live(o)
           /\ Member(c, o)' => Member(c, o)
  PROVE  \A c \in Clients : ClientSound(c)' /\ NoNewMembership(c)
  BY Undisturbed DEF MemberInv, NoNewMembership

\* A new object has no members, and a deletion takes the members of the
\* object it holds before the name is gone.
LEMMA AdminKeepsMembers ==
  ASSUME MemberInv, TypeInv', NEW a \in Admins,
         Administering(a) \/ Deleting(a)
  PROVE  MemberInv' /\ \A c \in Clients : NoNewMembership(c)
  <1> USE DEF At
  <1>t. /\ TypeInv /\ TypeOK /\ LocksSound /\ job \in [Goroutines -> Jobs]
        /\ job[a] \in Jobs
        /\ subscribers \in [Objects -> SUBSET Clients]
        /\ a \in Goroutines /\ a # NoOne
    BY NamesAssumption DEF MemberInv, TypeInv, TypeOK, Goroutines
  <1>j. (\A h \in Goroutines \ {a} : job'[h] = job[h])
          => \A c \in Clients : job'[c] = job[c]
    BY NamesAssumption DEF Goroutines
  <1>o. \A b \in Admins : job[b].at \in Deletion =>
          /\ HeldObject(b) \in Objects
          /\ HeldObject(b) = <<job[b].topic, job[b].inc>>
          /\ job[b].topic \in Topics /\ job[b].inc # 0
          /\ ShardOf[job[b].topic] \in Shards
    <2> SUFFICES ASSUME NEW b \in Admins, job[b].at \in Deletion
                 PROVE  /\ HeldObject(b) \in Objects
                        /\ HeldObject(b) = <<job[b].topic, job[b].inc>>
                        /\ job[b].topic \in Topics /\ job[b].inc # 0
                        /\ ShardOf[job[b].topic] \in Shards
      OBVIOUS
    <2>1. b \in Goroutines /\ job[b].at \in Holding
      BY DEF Goroutines, Deletion, Holding
    <2> QED
      BY <1>t, <2>1, HeldTyped, NamesAssumption DEF HeldObject
  <1>1. ASSUME NEW t \in Topics, CreateTopic(a, t)
        PROVE  MemberInv' /\ \A c \in Clients : NoNewMembership(c)
    <2>1. /\ topicsMap[t] = 0 /\ created[t] \in Nat
          /\ topicsMap' = [topicsMap EXCEPT ![t] = created[t] + 1]
          /\ subscribers' = subscribers /\ subscribedTopics' = subscribedTopics
          /\ shardMutex' = shardMutex /\ subscribersMutex' = subscribersMutex
          /\ job' = job /\ aborted' = aborted
          /\ topicsMap \in [Topics -> 0..MaxIncarnations]
      BY <1>1, <1>t, LimitsAssumption
         DEF CreateTopic, memberVars, mutexVars, historyVars, TypeOK
    <2>2. LocksSound'
      BY <2>1, <1>t, <1>o DEF LocksSound, HoldsItsLocks, HeldObject, Live
    <2>3. ASSUME NEW c \in Clients, NEW o \in Objects, c \in subscribers'[o],
                 Live(o)'
          PROVE  Live(o)
      <3>1. o[1] \in Topics
        BY DEF Objects
      <3>2. o[1] = t => o[2] = created[t] + 1
        BY <2>1, <2>3 DEF Live
      <3>3. o[1] = t => subscribers[o] = {}
        BY <1>t, <2>1, <3>2 DEF TypeInv, MapSound
      <3> QED
        BY <2>1, <2>3, <3>1, <3>3 DEF Live
    <2>4. \A c \in Clients, o \in Objects : Member(c, o)' => Member(c, o)
      BY <2>1, <2>3 DEF Member, TopicFree
    <2> QED
      BY <2>1, <2>2, <2>3, <2>4, SameClients DEF MemberInv
  <1>2. ASSUME NEW t \in Topics, DeleteTopic(a, t)
        PROVE  MemberInv' /\ \A c \in Clients : NoNewMembership(c)
    <2>1. /\ job[a].at = "ready" /\ shardMutex[ShardOf[t]] = NoOne
          /\ topicsMap' = topicsMap /\ subscribers' = subscribers
          /\ subscribedTopics' = subscribedTopics
          /\ shardMutex' = [shardMutex EXCEPT ![ShardOf[t]] = a]
          /\ subscribersMutex' = subscribersMutex /\ aborted' = aborted
      BY <1>2 DEF DeleteTopic, ShardFree, mapVars, memberVars, historyVars
    <2>2. /\ job'[a].at = "lockTopic" /\ job'[a].topic = t
          /\ job'[a].inc = topicsMap[t]
          /\ \A h \in Goroutines \ {a} : job'[h] = job[h]
      BY <1>2, <1>t DEF DeleteTopic, Begin, Idle
    <2>3. /\ ShardOf[t] \in Shards
          /\ shardMutex \in [Shards -> Admins \cup {NoOne}]
      BY <1>t, NamesAssumption DEF TypeOK
    <2>4. LocksSound'
      <3> SUFFICES ASSUME NEW b \in Admins PROVE HoldsItsLocks(b)'
        BY DEF LocksSound
      <3>1. CASE b = a
        BY <1>t, <2>1, <2>2, <2>3, <3>1 DEF LocksSound, HoldsItsLocks, HeldObject, Live
      <3>2. CASE b # a
        <4>1. job'[b] = job[b] /\ b # NoOne
          BY <2>2, <3>2, NamesAssumption DEF Goroutines
        <4> QED
          BY <1>t, <1>o, <2>1, <2>3, <4>1 DEF LocksSound, HoldsItsLocks, HeldObject, Live
      <3> QED
        BY <3>1, <3>2
    <2>5. \A c \in Clients, o \in Objects :
            /\ Member(c, o)' => Member(c, o)
            /\ Live(o)' => Live(o)
      BY <2>1 DEF Member, Live, TopicFree
    <2> QED
      BY <1>j, <2>1, <2>2, <2>4, <2>5, SameClients DEF MemberInv
  <1>d. job[a].at \in Deletion =>
          /\ topicsMap[job[a].topic] = job[a].inc
          /\ shardMutex[ShardOf[job[a].topic]] = a
    BY <1>t DEF LocksSound, HoldsItsLocks, Live, HeldObject
  <1>3. CASE DeleteLockTopic(a)
    <2> DEFINE held == HeldObject(a)
    <2>1. /\ job[a].at = "lockTopic" /\ subscribersMutex[held] = NoOne
          /\ topicsMap' = topicsMap /\ subscribers' = subscribers
          /\ subscribedTopics' = subscribedTopics
          /\ subscribersMutex' = [subscribersMutex EXCEPT ![held] = a]
          /\ shardMutex' = shardMutex /\ aborted' = aborted
      BY <1>3 DEF DeleteLockTopic, TopicFree, mapVars, memberVars, historyVars
    <2>2. /\ job'[a].at = "notify" /\ job'[a].topic = job[a].topic
          /\ job'[a].inc = job[a].inc
          /\ \A h \in Goroutines \ {a} : job'[h] = job[h]
      BY <1>3, <1>t DEF DeleteLockTopic, Jobs
    <2>3. /\ held \in Objects /\ held = <<job[a].topic, job[a].inc>>
          /\ subscribersMutex \in [Objects -> Admins \cup {NoOne}]
      BY <1>o, <1>t, <2>1 DEF TypeOK, Deletion
    <2> HIDE DEF held
    <2>4. LocksSound'
      <3> SUFFICES ASSUME NEW b \in Admins PROVE HoldsItsLocks(b)'
        BY DEF LocksSound
      <3>1. CASE b = a
        <4>1. HeldObject(a)' = held
          BY <2>2, <2>3 DEF HeldObject
        <4>2. \A o \in Objects : subscribersMutex'[o] = a => o = held
          BY <1>t, <2>1, <2>3 DEF LocksSound, HoldsItsLocks
        <4>3. topicsMap'[held[1]] = held[2]
          BY <1>d, <2>1, <2>3 DEF Deletion
        <4> QED
          BY <1>d, <2>1, <2>2, <2>3, <3>1, <4>1, <4>2, <4>3
             DEF HoldsItsLocks, Deletion, Live
      <3>2. CASE b # a
        <4>1. job'[b] = job[b] /\ b # NoOne
          BY <2>2, <3>2, NamesAssumption DEF Goroutines
        <4> QED
          BY <1>t, <1>o, <2>1, <2>3, <3>2, <4>1
             DEF LocksSound, HoldsItsLocks, HeldObject, Live, Deletion
      <3> QED
        BY <3>1, <3>2
    <2>5. \A c \in Clients, o \in Objects :
            /\ Member(c, o)' => Member(c, o)
            /\ Live(o)' => Live(o)
      BY <1>t, <2>1, <2>3 DEF Member, Live, TopicFree
    <2> QED
      BY <1>j, <2>1, <2>2, <2>4, <2>5, SameClients DEF MemberInv
  <1>4. CASE DeleteNotified(a)
    <2> DEFINE held == HeldObject(a)
    <2>1. /\ job[a].at = "notify"
          /\ topicsMap' = topicsMap /\ subscribedTopics' = subscribedTopics
          /\ subscribers' = [subscribers EXCEPT ![held] = {}]
          /\ subscribersMutex' = [subscribersMutex EXCEPT ![held] = NoOne]
          /\ shardMutex' = shardMutex /\ aborted' = aborted
      BY <1>4 DEF DeleteNotified, mapVars, historyVars
    <2>2. /\ job'[a].at = "unmap" /\ job'[a].topic = job[a].topic
          /\ job'[a].inc = job[a].inc
          /\ \A h \in Goroutines \ {a} : job'[h] = job[h]
      BY <1>4, <1>t DEF DeleteNotified, Goto, Jobs
    <2>3. /\ held \in Objects /\ held = <<job[a].topic, job[a].inc>>
          /\ subscribersMutex \in [Objects -> Admins \cup {NoOne}]
          /\ subscribersMutex[held] = a
      BY <1>o, <1>t, <2>1 DEF TypeOK, Deletion, LocksSound, HoldsItsLocks
    <2> HIDE DEF held
    <2>4. LocksSound'
      <3> SUFFICES ASSUME NEW b \in Admins PROVE HoldsItsLocks(b)'
        BY DEF LocksSound
      <3>1. CASE b = a
        <4>1. HeldObject(a)' = held
          BY <2>2, <2>3 DEF HeldObject
        <4>2. \A o \in Objects : subscribersMutex'[o] # a
          <5>1. \A o \in Objects : subscribersMutex[o] = a => o = held
            BY <1>t, <2>3 DEF LocksSound, HoldsItsLocks, HeldObject
          <5> QED
            BY <1>t, <2>1, <2>3, <5>1
        <4>3. topicsMap'[held[1]] = held[2]
          BY <1>d, <2>1, <2>3 DEF Deletion
        <4> QED
          BY <1>d, <2>1, <2>2, <2>3, <3>1, <4>1, <4>2, <4>3
             DEF HoldsItsLocks, Deletion, Live
      <3>2. CASE b # a
        <4>1. job'[b] = job[b] /\ b # NoOne
          BY <2>2, <3>2, NamesAssumption DEF Goroutines
        <4> QED
          BY <1>t, <1>o, <2>1, <2>3, <3>2, <4>1
             DEF LocksSound, HoldsItsLocks, HeldObject, Live, Deletion
      <3> QED
        BY <3>1, <3>2
    <2>5. ASSUME NEW c \in Clients, NEW o \in Objects
          PROVE  /\ c \in subscribers'[o] => c \in subscribers[o]
                 /\ Member(c, o)' => Member(c, o)
                 /\ Live(o)' => Live(o)
      BY <1>t, <2>1, <2>3 DEF Member, Live, TopicFree
    <2> QED
      BY <1>j, <2>1, <2>2, <2>4, <2>5, SameClients DEF MemberInv
  <1>5. CASE DeleteUnmap(a)
    <2> DEFINE t == job[a].topic
    <2>1. /\ job[a].at = "unmap"
          /\ topicsMap' = [topicsMap EXCEPT ![t] = 0]
          /\ subscribers' = subscribers /\ subscribedTopics' = subscribedTopics
          /\ shardMutex' = [shardMutex EXCEPT ![ShardOf[t]] = NoOne]
          /\ subscribersMutex' = subscribersMutex /\ aborted' = aborted
      BY <1>5 DEF DeleteUnmap, memberVars, historyVars
    <2>2. /\ job'[a].at = "ready"
          /\ \A h \in Goroutines \ {a} : job'[h] = job[h]
      BY <1>5, <1>t DEF DeleteUnmap, Idle
    <2>3. /\ t \in Topics /\ ShardOf[t] \in Shards /\ shardMutex[ShardOf[t]] = a
          /\ shardMutex \in [Shards -> Admins \cup {NoOne}]
          /\ topicsMap \in [Topics -> 0..MaxIncarnations]
      BY <1>o, <1>d, <1>t, <2>1 DEF TypeOK, Deletion
    <2> HIDE DEF t
    <2>4. LocksSound'
      <3> SUFFICES ASSUME NEW b \in Admins PROVE HoldsItsLocks(b)'
        BY DEF LocksSound
      <3>1. CASE b = a
        BY <1>t, <2>1, <2>2, <3>1 DEF LocksSound, HoldsItsLocks, Deletion
      <3>2. CASE b # a
        <4>1. job'[b] = job[b] /\ HeldObject(b)' = HeldObject(b)
          BY <2>2, <3>2 DEF Goroutines, HeldObject
        <4>2. HoldsItsLocks(b)
          BY <1>t DEF LocksSound
        <4>3. job[b].at \in Deletion =>
                Live(HeldObject(b))' /\ shardMutex'[ShardOf[job[b].topic]] = b
          <5> SUFFICES ASSUME job[b].at \in Deletion
                       PROVE  /\ Live(HeldObject(b))'
                              /\ shardMutex'[ShardOf[job[b].topic]] = b
            OBVIOUS
          <5>1. shardMutex[ShardOf[job[b].topic]] = b /\ Live(HeldObject(b))
            BY <4>2 DEF HoldsItsLocks
          <5>2. ShardOf[job[b].topic] # ShardOf[t] /\ job[b].topic # t
            BY <2>3, <3>2, <5>1
          <5>3. /\ job[b].topic \in Topics /\ ShardOf[job[b].topic] \in Shards
                /\ HeldObject(b) = <<job[b].topic, job[b].inc>>
            BY <1>o
          <5> QED
            BY <2>1, <2>3, <4>1, <5>1, <5>2, <5>3 DEF Live
        <4> QED
          BY <2>1, <4>1, <4>2, <4>3 DEF HoldsItsLocks
      <3> QED
        BY <3>1, <3>2
    <2>5. ASSUME NEW o \in Objects, Live(o)' PROVE Live(o)
      <3>1. o[1] \in Topics /\ o[2] # 0
        BY LimitsAssumption DEF Objects
      <3> QED
        BY <2>1, <2>3, <2>5, <3>1 DEF Live
    <2>6. \A c \in Clients, o \in Objects : Member(c, o)' => Member(c, o)
      BY <2>1, <2>5 DEF Member, TopicFree
    <2> QED
      BY <1>j, <2>1, <2>2, <2>4, <2>5, <2>6, SameClients DEF MemberInv
  <1> QED
    BY <1>1, <1>2, <1>3, <1>4, <1>5 DEF Administering, Deleting

\* At the start nobody is a member and no lock is held.
LEMMA InitMemberInv == Init => MemberInv
  <1> SUFFICES ASSUME Init PROVE MemberInv
    OBVIOUS
  <1>1. TypeInv
    BY InitTypeInv
  <1>2. LocksSound
    BY NamesAssumption DEF Init, LocksSound, HoldsItsLocks, Idle, Goroutines,
       Deletion, At
  <1>3. \A c \in Clients : ClientSound(c)
    BY DEF Init, ClientSound, Member, Idle, Goroutines, At
  <1> QED
    BY <1>1, <1>2, <1>3 DEF MemberInv

\* MemberInv is inductive.
LEMMA NextMemberInv == MemberInv /\ [Next]_vars => MemberInv'
  <1> SUFFICES ASSUME MemberInv, [Next]_vars PROVE MemberInv'
    OBVIOUS
  <1>t. TypeInv /\ TypeInv' /\ LocksSound
    BY NextTypeInv DEF MemberInv
  <1>1. CASE UNCHANGED vars
    <2>1. UNCHANGED <<mapVars, memberVars, mutexVars, aborted, job>>
      BY <1>1 DEF vars, historyVars
    <2>2. LocksSound'
      BY <1>t, <2>1, LocksKept
    <2>3. \A c \in Clients : ClientSound(c)'
      BY <2>1, SameMembers, Undisturbed DEF MemberInv
    <2> QED
      BY <1>t, <2>2, <2>3 DEF MemberInv
  <1>2. CASE \E c \in Clients : \/ Asking(c) \/ Serving(c)
                               \/ CleaningUp(c) \/ Connection(c)
    BY <1>t, <1>2, ClientKeepsMembers
  <1>3. CASE \E a \in Admins : Administering(a) \/ Deleting(a)
    BY <1>t, <1>3, AdminKeepsMembers
  <1>4. CASE \E g \in Goroutines : Sending(g)
    BY <1>t, <1>4, SendKeepsMembers, PanicKeepsMembers DEF Sending, SendPanics
  <1> QED
    BY <1>1, <1>2, <1>3, <1>4 DEF Next, Quiet

\* What cleanupSubscriber goes through, the topics the Subscriber knows,
\* covers every membership that counts: two maps under two locks agree where
\* it matters, on objects that may have been deleted and replaced meanwhile.
THEOREM MembersKnown == Safety => []MembersKnowTheirTopics
  <1>1. MemberInv => MembersKnowTheirTopics
    BY DEF MemberInv, ClientSound, Member, MembersKnowTheirTopics, TypeInv,
       TypeOK
  <1> QED
    BY <1>1, InitMemberInv, NextMemberInv, PTL DEF Safety

\* Once handleConnection has returned, by a panic of SendMessage or by
\* itself, the client is in no topic a publish can reach, unless a panic cut
\* that topic's deletion short.
THEOREM NoGhosts == Safety => []NoGhost
  <1>1. MemberInv => NoGhost
    BY DEF MemberInv, ClientSound, Member, NoGhost, At
  <1> QED
    BY <1>1, InitMemberInv, NextMemberInv, PTL DEF Safety

-----------------------------------------------------------------------------
(* The limit on subscribers                                                *)

Counted ==
  \A o \in Objects : /\ IsFiniteSet(subscribers[o])
                     /\ Cardinality(subscribers[o]) <= MaxSubscribersPerTopic

\* Only AddSubscriber lets an object have a member more.
LEMMA OnlyAddSubscriberAdds ==
  ASSUME TypeInv, [Next]_vars,
         ~ \E c \in Clients : AddSubscriber(c)
  PROVE  \A o \in Objects : subscribers'[o] \subseteq subscribers[o]
  <1>t. subscribers \in [Objects -> SUBSET Clients]
    BY DEF TypeInv, TypeOK
  <1>1. CASE UNCHANGED vars
    BY <1>1 DEF vars, memberVars
  <1>2. ASSUME NEW c \in Clients, Asking(c) \/ Serving(c)
        PROVE  \A o \in Objects : subscribers'[o] \subseteq subscribers[o]
    <2>1. CASE Remove(c)
      BY <2>1, <1>t DEF Remove, RemoveFrom, memberVars
    <2>2. CASE ~Remove(c)
      BY <1>2, <2>2 DEF Asking, Ping, Subscribe, Unsubscribe, Publish, Serving,
         SubscribeLookup, Save, Snapshot, FanoutDone, memberVars
    <2> QED
      BY <2>1, <2>2
  <1>3. ASSUME NEW c \in Clients, CleaningUp(c) \/ Connection(c)
        PROVE  \A o \in Objects : subscribers'[o] \subseteq subscribers[o]
    <2>1. CASE Leave(c)
      BY <2>1, <1>t DEF Leave, RemoveFrom, memberVars
    <2>2. CASE ~Leave(c)
      BY <1>3, <2>2 DEF CleaningUp, Cleanup, LeaveLookup, CleanupClose,
         Connection, Drain, WriteFails, Disconnect, memberVars
    <2> QED
      BY <2>1, <2>2
  <1>4. ASSUME NEW a \in Admins, Administering(a) \/ Deleting(a)
        PROVE  \A o \in Objects : subscribers'[o] \subseteq subscribers[o]
    <2>1. CASE DeleteNotified(a)
      BY <2>1, <1>t DEF DeleteNotified
    <2>2. CASE ~DeleteNotified(a)
      BY <1>4, <2>2 DEF Administering, CreateTopic, DeleteTopic, Deleting,
         DeleteLockTopic, DeleteUnmap, memberVars
    <2> QED
      BY <2>1, <2>2
  <1>5. ASSUME NEW g \in Goroutines, Sending(g)
        PROVE  \A o \in Objects : subscribers'[o] \subseteq subscribers[o]
    BY <1>5 DEF Sending, SendCheck, SendQueued, SendFull, SendPanics, Panic,
       memberVars
  <1> QED
    BY <1>1, <1>2, <1>3, <1>4, <1>5 DEF Next, Quiet

\* The limit holds after a step if it did before: AddSubscriber looks at the
\* number of members in the step that adds one.
LEMMA NextCounted == TypeInv /\ Counted /\ [Next]_vars => Counted'
  <1> SUFFICES ASSUME TypeInv, Counted, [Next]_vars, NEW o \in Objects
               PROVE  /\ IsFiniteSet(subscribers'[o])
                      /\ Cardinality(subscribers'[o]) <= MaxSubscribersPerTopic
    BY DEF Counted
  <1>t. /\ subscribers \in [Objects -> SUBSET Clients]
        /\ MaxSubscribersPerTopic \in Nat
        /\ IsFiniteSet(subscribers[o])
        /\ Cardinality(subscribers[o]) <= MaxSubscribersPerTopic
        /\ Cardinality(subscribers[o]) \in Nat
    BY FS_CardinalityType, LimitsAssumption DEF TypeInv, TypeOK, Counted
  <1>1. CASE subscribers'[o] \subseteq subscribers[o]
    <2>1. /\ IsFiniteSet(subscribers'[o])
          /\ Cardinality(subscribers'[o]) <= Cardinality(subscribers[o])
      BY <1>1, <1>t, FS_Subset
    <2>2. Cardinality(subscribers'[o]) \in Nat
      BY <2>1, FS_CardinalityType
    <2> QED
      BY <1>t, <2>1, <2>2
  <1>2. ASSUME NEW c \in Clients, AddSubscriber(c),
               ~ subscribers'[o] \subseteq subscribers[o]
        PROVE  /\ IsFiniteSet(subscribers'[o])
               /\ Cardinality(subscribers'[o]) <= MaxSubscribersPerTopic
    <2>1. /\ c \notin subscribers[o]
          /\ subscribers'[o] = subscribers[o] \cup {c}
          /\ Cardinality(subscribers[o]) < MaxSubscribersPerTopic
      BY <1>2, <1>t DEF AddSubscriber, memberVars
    <2>2. /\ IsFiniteSet(subscribers'[o])
          /\ Cardinality(subscribers'[o]) = Cardinality(subscribers[o]) + 1
      BY <1>t, <2>1, FS_AddElement
    <2> QED
      BY <1>t, <2>1, <2>2
  <1> QED
    BY <1>1, <1>2, OnlyAddSubscriberAdds

\* AddSubscriber counts and inserts under one lock, so that no object ever
\* has more members than the limit, whoever holds it and however long it was
\* looked up before.
THEOREM LimitKept == Safety => []SubscriberLimit
  <1>1. Init => Counted
    BY FS_EmptySet, LimitsAssumption DEF Init, Counted
  <1>2. Counted => SubscriberLimit
    BY DEF Counted, SubscriberLimit
  <1> QED
    BY <1>1, <1>2, InitTypeInv, NextTypeInv, NextCounted, PTL DEF Safety

-----------------------------------------------------------------------------
(* What clients are told                                                   *)

\* An acknowledgement under way is that of the goroutine it is for.
AnswersItself(g) ==
  /\ job[g].answer \in {"subscribed", "unsubscribed"} => At(g, "reply")
  /\ At(g, "reply") => job[g].todo = {g} /\ job[g].target \in {g, NoOne}

\* Until it departs, a client has been told of its memberships, or is about
\* to be; and it is about to be told that it left only what it did leave.
ToldSound(c) ==
  /\ job[c].at \notin Departing /\ ~isClosed[c] =>
       \A o \in Objects : Member(c, o) =>
         \/ o[1] \in told[c]
         \/ job[c].answer = "subscribed" /\ o[1] = job[c].topic
  /\ job[c].answer = "unsubscribed" =>
       \A o \in Objects : Live(o) /\ c \in subscribers[o]
                            => o[1] # job[c].topic

ToldInv ==
  /\ MemberInv
  /\ \A g \in Goroutines : AnswersItself(g)
  /\ \A c \in Clients : ToldSound(c)

\* A client whose own work goes on as before.
LEMMA ToldStill ==
  ASSUME NEW c \in Clients, ToldSound(c), NoNewMembership(c),
         job'[c].at = job[c].at, job'[c].topic = job[c].topic,
         job'[c].answer = job[c].answer,
         isClosed[c] => isClosed'[c],
         \A o \in Objects : Member(c, o) /\ o[1] \in told[c] => o[1] \in told'[c]
  PROVE  ToldSound(c)'
  BY DEF ToldSound, NoNewMembership

\* A client that does nothing about its subscriptions, between two answers.
LEMMA ToldElse ==
  ASSUME NEW c \in Clients, ToldSound(c), NoNewMembership(c),
         job[c].answer # "subscribed", job[c].at \notin Departing,
         job'[c].answer # "unsubscribed",
         isClosed[c] => isClosed'[c], told' = told
  PROVE  ToldSound(c)'
  BY DEF ToldSound, NoNewMembership

\* A client that departs is told nothing more.
LEMMA ToldDeparting ==
  ASSUME NEW c \in Clients, job'[c].at \in Departing,
         job'[c].answer # "unsubscribed"
  PROVE  ToldSound(c)'
  BY DEF ToldSound

\* The answers of a client's own steps.
LEMMA OwnAnswers ==
  ASSUME TypeInv, NEW c \in Clients, AnswersItself(c),
         Asking(c) \/ Serving(c) \/ CleaningUp(c) \/ Connection(c)
  PROVE  /\ AnswersItself(c)'
         /\ job'[c].answer = "unsubscribed" /\ job'[c] # job[c] => Remove(c)
         /\ job'[c].answer = "subscribed" /\ job'[c] # job[c] => AddSubscriber(c)
         /\ job'[c] # job[c] =>
              /\ job[c].answer \notin {"subscribed", "unsubscribed"}
              /\ job[c].at \in Departing => job'[c].at \in Departing
  <1> USE DEF At
  <1>t. /\ job \in [Goroutines -> Jobs] /\ c \in Goroutines /\ job[c] \in Jobs
    BY DEF TypeInv, TypeOK, Goroutines
  <1>a. \A t, what : Answer(c, t, what) =>
          /\ job'[c].at = "reply" /\ job'[c].todo = {c}
          /\ job'[c].target = NoOne /\ job'[c].answer = what
    BY <1>t DEF Answer, Idle
  <1>b. \A label, t, n : Begin(c, label, t, n) =>
          job'[c].at = label /\ job'[c].answer = "none"
    BY <1>t DEF Begin, Idle
  <1>1. CASE Ping(c) \/ \E t \in Topics : Subscribe(c, t) \/ Unsubscribe(c, t)
                                         \/ Publish(c, t)
    <2>1. /\ job[c].at = "ready"
          /\ \/ job'[c].at = "reply" /\ job'[c].todo = {c} /\ job'[c].target = NoOne
                /\ job'[c].answer = "other"
             \/ job'[c].at \in {"lookup", "remove", "save"} /\ job'[c].answer = "none"
      <3>1. CASE Ping(c)
        BY <3>1, <1>a DEF Ping, Request
      <3>2. ASSUME NEW t \in Topics, Subscribe(c, t)
            PROVE  job[c].at = "ready"
                   /\ (Answer(c, t, "other") \/ Begin(c, "lookup", t, 0))
        BY <3>2 DEF Subscribe, Request
      <3>3. ASSUME NEW t \in Topics, Unsubscribe(c, t)
            PROVE  job[c].at = "ready"
                   /\ (Answer(c, t, "other") \/ Begin(c, "remove", t, topicsMap[t]))
        BY <3>3 DEF Unsubscribe, Request
      <3>4. ASSUME NEW t \in Topics, Publish(c, t)
            PROVE  job[c].at = "ready"
                   /\ (Answer(c, t, "other") \/ Begin(c, "save", t, topicsMap[t]))
        BY <3>4 DEF Publish, Request
      <3> QED
        BY <1>1, <1>a, <1>b, <3>1, <3>2, <3>3, <3>4
    <2> QED
      BY <2>1 DEF AnswersItself, Departing
  <1>2. CASE SubscribeLookup(c) \/ FanoutDone(c)
    <2>1. /\ job[c].at \in {"lookup", "fanout"}
          /\ \/ job'[c].at = "reply" /\ job'[c].todo = {c} /\ job'[c].target = NoOne
                /\ job'[c].answer = "other"
             \/ job'[c].at = "add" /\ job'[c].answer = "none"
      BY <1>2, <1>a, <1>b DEF SubscribeLookup, FanoutDone
    <2> QED
      BY <2>1 DEF AnswersItself, Departing
  <1>3. CASE AddSubscriber(c)
    <2>1. /\ job[c].at = "add" /\ job'[c].at = "reply" /\ job'[c].todo = {c}
          /\ job'[c].target = NoOne /\ job'[c].answer \in {"subscribed", "other"}
      BY <1>3, <1>a DEF AddSubscriber
    <2> QED
      BY <1>3, <2>1 DEF AnswersItself, Departing
  <1>4. CASE Remove(c)
    <2>1. /\ job[c].at = "remove" /\ job'[c].at = "reply" /\ job'[c].todo = {c}
          /\ job'[c].target = NoOne /\ job'[c].answer = "unsubscribed"
      BY <1>4, <1>a DEF Remove
    <2> QED
      BY <1>4, <2>1 DEF AnswersItself, Departing
  <1>5. CASE Save(c) \/ Snapshot(c)
    <2>1. /\ job[c].at \in {"save", "snapshot"}
          /\ \/ job'[c].at = "reply" /\ job'[c].todo = {c} /\ job'[c].target = NoOne
                /\ job'[c].answer = "other"
             \/ job'[c].at \in {"snapshot", "fanout"}
                /\ job'[c].answer = job[c].answer
      <3>1. CASE Save(c)
        BY <3>1, <1>t, <1>a DEF Save, Goto, Jobs
      <3>2. CASE Snapshot(c)
        BY <3>2, <1>t DEF Snapshot, Jobs
      <3> QED
        BY <1>5, <3>1, <3>2
    <2> QED
      BY <2>1 DEF AnswersItself, Departing
  <1>6. CASE CleaningUp(c)
    <2>1. /\ job[c].at \in Departing /\ job'[c].at \in Departing
          /\ job'[c].answer \in {job[c].answer, "none"}
      <3>1. CASE Cleanup(c) \/ CleanupClose(c)
        BY <3>1, <1>t DEF Cleanup, CleanupClose, Goto, Departing, Jobs
      <3>2. ASSUME NEW t \in Topics, LeaveLookup(c, t)
            PROVE  /\ job[c].at \in Departing /\ job'[c].at \in Departing
                   /\ job'[c].answer = job[c].answer
        BY <3>2, <1>t DEF LeaveLookup, Departing, Jobs
      <3>3. CASE Leave(c)
        BY <3>3, <1>t DEF Leave, Departing, Idle
      <3> QED
        BY <1>6, <3>1, <3>2, <3>3 DEF CleaningUp
    <2> QED
      BY <2>1 DEF AnswersItself, Departing
  <1>7. CASE Connection(c)
    <2>1. CASE Drain(c) \/ WriteFails(c)
      BY <2>1 DEF Drain, WriteFails, AnswersItself
    <2>2. CASE Disconnect(c)
      <3>1. /\ job[c].at = "ready" /\ job'[c].at = "cleanup"
            /\ job'[c].answer = job[c].answer
        BY <2>2, <1>t DEF Disconnect, Goto, Jobs
      <3> QED
        BY <3>1 DEF AnswersItself, Departing
    <2> QED
      BY <1>7, <2>1, <2>2 DEF Connection
  <1> QED
    BY <1>1, <1>2, <1>3, <1>4, <1>5, <1>6, <1>7 DEF Asking, Serving

\* Only AddSubscriber makes a client a member.
LEMMA OnlyAddingJoins ==
  ASSUME TypeInv, NEW c \in Clients, ClientSound(c), ~AddSubscriber(c),
         Asking(c) \/ Serving(c) \/ CleaningUp(c) \/ Connection(c)
  PROVE  NoNewMembership(c)
  <1>1. UNCHANGED <<mapVars, mutexVars, aborted>>
    BY OwnStep
  <1>2. CASE Remove(c) \/ Leave(c)
    <2>1. RemoveFrom(c, HeldObject(c)) /\ job[c].at \in {"remove", "leaving"}
      BY <1>2 DEF Remove, Leave, At
    <2> QED
      BY <1>1, <2>1, Forgets
  <1>3. CASE ~(Remove(c) \/ Leave(c))
    <2>1. UNCHANGED memberVars
      BY <1>3 DEF Asking, Ping, Subscribe, Unsubscribe, Publish, Serving,
         SubscribeLookup, Save, Snapshot, FanoutDone, CleaningUp, Cleanup,
         LeaveLookup, CleanupClose, Connection, Drain, WriteFails, Disconnect
    <2> QED
      BY <1>1, <2>1, SameMembers
  <1> QED
    BY <1>2, <1>3

\* A step of a client on its own account: memberships and answers change
\* together.
LEMMA ClientIsTold ==
  ASSUME ToldInv, TypeInv', NEW c \in Clients,
         Asking(c) \/ Serving(c) \/ CleaningUp(c) \/ Connection(c)
  PROVE  ToldInv'
  <1>t. /\ TypeInv /\ MemberInv /\ ToldSound(c) /\ ClientSound(c)
        /\ AnswersItself(c) /\ c \in Goroutines /\ job \in [Goroutines -> Jobs]
        /\ subscribers \in [Objects -> SUBSET Clients]
    BY DEF ToldInv, MemberInv, Goroutines, TypeInv, TypeOK
  <1>m. MemberInv'
    BY <1>t, ClientKeepsMembers
  <1>k. /\ UNCHANGED <<mapVars, mutexVars, aborted>>
        /\ \A g \in Goroutines \ {c} : job'[g] = job[g]
        /\ \A d \in Clients \ {c} :
             /\ subscribedTopics'[d] = subscribedTopics[d]
             /\ \A o \in Objects :
                  d \in subscribers'[o] => d \in subscribers[o]
        /\ told' = told
        /\ \A d \in Clients : isClosed[d] => isClosed'[d]
    BY <1>t, OwnStep
  <1>a. /\ AnswersItself(c)'
        /\ job'[c].answer = "unsubscribed" /\ job'[c] # job[c] => Remove(c)
        /\ job'[c].answer = "subscribed" /\ job'[c] # job[c] => AddSubscriber(c)
        /\ job'[c] # job[c] =>
             /\ job[c].answer \notin {"subscribed", "unsubscribed"}
             /\ job[c].at \in Departing => job'[c].at \in Departing
    BY <1>t, OwnAnswers
  <1>1. \A g \in Goroutines : AnswersItself(g)'
    BY <1>a, <1>k DEF ToldInv, AnswersItself, At
  <1>2. ASSUME NEW d \in Clients \ {c} PROVE ToldSound(d)'
    <2>1. NoNewMembership(d)
      BY <1>k DEF NoNewMembership, Member, Live, TopicFree, mapVars, mutexVars
    <2>2. job'[d] = job[d]
      BY <1>k DEF Goroutines
    <2> QED
      BY <1>k, <2>1, <2>2, ToldStill DEF ToldInv
  <1>3. ASSUME AddSubscriber(c) PROVE ToldSound(c)'
    <2> DEFINE held == HeldObject(c)
    <2>1. /\ job[c].at = "add" /\ job[c].at \notin Departing
          /\ job[c].answer \notin {"subscribed", "unsubscribed"}
      BY <1>3, <1>t DEF AddSubscriber, AnswersItself, At, Departing
    <2>2. \/ UNCHANGED memberVars
          \/ /\ subscribers' = [subscribers EXCEPT ![held] = @ \cup {c}]
             /\ Answer(c, held[1], "subscribed")
      BY <1>3 DEF AddSubscriber
    <2>3. job'[c].answer # "unsubscribed"
      BY <1>3, <1>t DEF AddSubscriber, Answer, Idle
    <2> HIDE DEF held
    <2>4. CASE UNCHANGED memberVars
      BY <1>t, <1>k, <2>1, <2>3, <2>4, SameMembers, ToldElse
    <2>5. CASE /\ subscribers' = [subscribers EXCEPT ![held] = @ \cup {c}]
               /\ Answer(c, held[1], "subscribed")
      <3>1. job'[c].answer = "subscribed" /\ job'[c].topic = held[1]
        BY <1>t, <2>5 DEF Answer, Idle
      <3>2. ASSUME NEW o \in Objects, Member(c, o)', o # held, ~isClosed'[c]
            PROVE  o[1] \in told'[c]
        <4>1. Member(c, o) /\ ~isClosed[c]
          BY <1>t, <1>k, <2>5, <3>2 DEF Member, Live, TopicFree, mapVars, mutexVars
        <4> QED
          BY <1>t, <1>k, <2>1, <4>1 DEF ToldSound
      <3> QED
        BY <3>1, <3>2 DEF ToldSound
    <2> QED
      BY <2>2, <2>4, <2>5
  <1>4. ASSUME Remove(c) PROVE ToldSound(c)'
    <2>1. /\ job[c].at = "remove" /\ job[c].at \notin Departing
          /\ job[c].answer \notin {"subscribed", "unsubscribed"}
          /\ RemoveFrom(c, HeldObject(c))
      BY <1>4, <1>t DEF Remove, AnswersItself, At, Departing
    <2>2. /\ NoNewMembership(c)
          /\ \A o \in Objects : Live(o) /\ c \in subscribers'[o]
                                => o[1] # job[c].topic
      BY <1>t, <1>k, <2>1, Forgets
    <2>3. job'[c].topic = job[c].topic
      BY <1>4, <1>t DEF Remove, Answer, Idle, HeldObject
    <2> QED
      BY <1>t, <1>k, <2>1, <2>2, <2>3 DEF ToldSound, NoNewMembership
  <1>5. ASSUME ~AddSubscriber(c), ~Remove(c) PROVE ToldSound(c)'
    <2>1. NoNewMembership(c)
      BY <1>t, <1>5, OnlyAddingJoins
    <2>2. CASE job'[c] = job[c]
      BY <1>t, <1>k, <2>1, <2>2, ToldStill
    <2>3. CASE job'[c] # job[c] /\ job[c].at \notin Departing
      BY <1>t, <1>k, <1>a, <1>5, <2>1, <2>3, ToldElse
    <2>4. CASE job'[c] # job[c] /\ job[c].at \in Departing
      BY <1>a, <1>5, <2>4, ToldDeparting
    <2> QED
      BY <2>2, <2>3, <2>4
  <1> QED
    BY <1>m, <1>1, <1>2, <1>3, <1>4, <1>5 DEF ToldInv

\* Creation and deletion tell nobody but through SendMessage.
LEMMA AdminIsTold ==
  ASSUME ToldInv, TypeInv', NEW a \in Admins,
         Administering(a) \/ Deleting(a)
  PROVE  ToldInv'
  <1>t. /\ MemberInv /\ job \in [Goroutines -> Jobs] /\ job[a] \in Jobs
        /\ job[a].at # "reply" /\ AnswersItself(a)
        /\ a \in Goroutines /\ a \notin Clients
    BY NamesAssumption DEF ToldInv, MemberInv, Goroutines, TypeInv, TypeOK,
       JobsSound, AdminLabels
  <1>m. MemberInv' /\ \A c \in Clients : NoNewMembership(c)
    BY <1>t, AdminKeepsMembers
  <1>k. /\ told' = told /\ isClosed' = isClosed
        /\ \A g \in Goroutines \ {a} : job'[g] = job[g]
        /\ job'[a].at # "reply"
        /\ job'[a].answer \in {job[a].answer, "none"}
    <2>1. ASSUME NEW t \in Topics, CreateTopic(a, t) \/ DeleteTopic(a, t)
          PROVE  /\ told' = told /\ isClosed' = isClosed
                 /\ \A g \in Goroutines \ {a} : job'[g] = job[g]
                 /\ job'[a].at # "reply"
                 /\ job'[a].answer \in {job[a].answer, "none"}
      BY <1>t, <2>1 DEF CreateTopic, DeleteTopic, Begin, Idle, clientVars,
         historyVars
    <2>2. CASE DeleteLockTopic(a)
      BY <1>t, <2>2 DEF DeleteLockTopic, Jobs, clientVars, historyVars
    <2>3. CASE DeleteNotified(a)
      BY <1>t, <2>3 DEF DeleteNotified, Goto, Jobs, clientVars, historyVars
    <2>4. CASE DeleteUnmap(a)
      BY <1>t, <2>4 DEF DeleteUnmap, Idle, clientVars, historyVars
    <2> QED
      BY <2>1, <2>2, <2>3, <2>4 DEF Administering, Deleting
  <1>1. \A g \in Goroutines : AnswersItself(g)'
    BY <1>t, <1>k DEF ToldInv, AnswersItself, At
  <1>2. ASSUME NEW c \in Clients PROVE ToldSound(c)'
    <2>1. job'[c] = job[c]
      BY <1>t, <1>k DEF Goroutines
    <2> QED
      BY <1>m, <1>k, <2>1, ToldStill DEF ToldInv
  <1> QED
    BY <1>m, <1>1, <1>2 DEF ToldInv

\* A panic ends the conversation of the client it hits.
LEMMA PanicIsTold ==
  ASSUME ToldInv, TypeInv', NEW g \in Goroutines, Panic(g), UNCHANGED clientVars
  PROVE  ToldInv'
  <1>t. /\ MemberInv /\ job \in [Goroutines -> Jobs]
    BY DEF ToldInv, MemberInv, TypeInv, TypeOK
  <1>m. MemberInv' /\ \A c \in Clients : NoNewMembership(c)
    BY <1>t, PanicKeepsMembers
  <1>k. /\ told' = told /\ isClosed' = isClosed
        /\ \A h \in Goroutines \ {g} : job'[h] = job[h]
        /\ job'[g].answer = "none" /\ job'[g].at # "reply"
        /\ g \in Clients => job'[g].at \in Departing
    BY <1>t DEF Panic, Unwound, Idle, Departing, clientVars
  <1>1. \A h \in Goroutines : AnswersItself(h)'
    BY <1>t, <1>k DEF ToldInv, AnswersItself, At
  <1>2. ASSUME NEW c \in Clients PROVE ToldSound(c)'
    <2>1. CASE c = g
      BY <1>k, <2>1, ToldDeparting
    <2>2. CASE c # g
      <3>1. job'[c] = job[c]
        BY <1>k, <2>2 DEF Goroutines
      <3> QED
        BY <1>m, <1>k, <3>1, ToldStill DEF ToldInv
    <2> QED
      BY <2>1, <2>2
  <1> QED
    BY <1>m, <1>1, <1>2 DEF ToldInv

\* The message that is queued says what has just become true.
LEMMA SendIsTold ==
  ASSUME ToldInv, TypeInv', NEW g \in Goroutines, NEW c \in Clients,
         SendCheck(g, c) \/ SendQueued(g, c) \/ SendFull(g, c)
  PROVE  ToldInv'
  <1>t. /\ MemberInv /\ LocksSound /\ job \in [Goroutines -> Jobs] /\ job[g] \in Jobs
        /\ told \in [Clients -> SUBSET Topics] /\ isClosed \in [Clients -> BOOLEAN]
        /\ AnswersItself(g) /\ c # NoOne
    BY NamesAssumption DEF ToldInv, MemberInv, TypeInv, TypeOK, Goroutines
  <1>m. MemberInv' /\ \A d \in Clients : NoNewMembership(d)
    BY <1>t, SendKeepsMembers
  <1>j. /\ \A h \in Goroutines \ {g} : job'[h] = job[h]
        /\ \/ /\ At(g, "reply") /\ job'[g] = Idle
           \/ /\ ~At(g, "reply")
              /\ job'[g].at = job[g].at /\ job'[g].topic = job[g].topic
              /\ job'[g].answer = job[g].answer
           \/ /\ SendCheck(g, c) /\ At(g, "reply") /\ ~isClosed[c]
              /\ job' = [job EXCEPT ![g].target = c]
    <2>1. CASE Returned(g, c)
      BY <1>t, <2>1 DEF Returned, Jobs
    <2>2. CASE SendCheck(g, c) /\ ~Returned(g, c)
      BY <1>t, <2>2 DEF SendCheck, Jobs
    <2> QED
      BY <2>1, <2>2 DEF SendQueued, SendFull
  <1>c. /\ \A d \in Clients : isClosed[d] => isClosed'[d]
        /\ \/ told' = told
           \/ SendQueued(g, c) /\ Tell(g, c) /\ \A d \in Clients \ {c} : told'[d] = told[d]
    BY <1>t DEF SendCheck, SendQueued, SendFull, Shut, Tell, clientVars, historyVars
  <1>r. At(g, "reply") => c = g
    BY <1>t DEF SendCheck, SendQueued, SendFull, AnswersItself
  <1>1. \A h \in Goroutines : AnswersItself(h)'
    <2>1. AnswersItself(g)'
      <3>1. CASE At(g, "reply") /\ job'[g] = Idle
        BY <3>1 DEF AnswersItself, At, Idle
      <3>2. CASE /\ ~At(g, "reply")
                 /\ job'[g].at = job[g].at /\ job'[g].answer = job[g].answer
        BY <1>t, <3>2 DEF AnswersItself, At
      <3>3. CASE /\ At(g, "reply") /\ job' = [job EXCEPT ![g].target = c]
        <4>1. /\ job'[g].at = job[g].at /\ job'[g].todo = job[g].todo
              /\ job'[g].target = c
          BY <1>t, <3>3 DEF Jobs
        <4> QED
          BY <1>t, <1>r, <3>3, <4>1 DEF AnswersItself, At
      <3> QED
        BY <1>j, <3>1, <3>2, <3>3
    <2> QED
      BY <1>j, <2>1 DEF ToldInv, AnswersItself, At
  <1>2. ASSUME NEW d \in Clients PROVE ToldSound(d)'
    <2>1. CASE d = g /\ At(g, "reply") /\ job'[g] = Idle
      <3>1. d = c /\ job'[c].answer = "none" /\ job[c].at \notin Departing
        BY <1>r, <2>1 DEF Idle, At, Departing
      <3>2. CASE isClosed'[c]
        BY <3>1, <3>2 DEF ToldSound
      <3>3. CASE ~isClosed'[c]
        <4>1. SendQueued(g, c) /\ ~isClosed[c]
          <5>1. ~isClosed[c]
            BY <1>c, <3>3
          <5>2. ~SendFull(g, c)
            BY <1>t, <3>3 DEF SendFull, Shut
          <5>3. ~SendCheck(g, c)
            <6>1. SUFFICES ASSUME SendCheck(g, c) PROVE FALSE
              OBVIOUS
            <6>2. job'[g].at = job[g].at
              BY <1>t, <5>1, <6>1 DEF SendCheck, Jobs
            <6> QED
              BY <2>1, <6>2 DEF Idle, At
          <5> QED
            BY <5>1, <5>2, <5>3
        <4>2. ASSUME NEW o \in Objects, Member(c, o)' PROVE o[1] \in told'[c]
          <5>1. Member(c, o) /\ Live(o) /\ c \in subscribers[o]
            BY <1>m, <4>2 DEF NoNewMembership, Member
          <5>2. /\ \/ o[1] \in told[c]
                   \/ job[c].answer = "subscribed" /\ o[1] = job[c].topic
                /\ job[c].answer = "unsubscribed" => o[1] # job[c].topic
            BY <3>1, <4>1, <5>1 DEF ToldInv, ToldSound
          <5>3. Tell(g, c) /\ c = g /\ ~At(g, "notify")
            BY <2>1, <3>1, <4>1 DEF SendQueued, At
          <5> QED
            BY <1>t, <5>2, <5>3 DEF Tell
        <4> QED
          BY <3>1, <4>2 DEF ToldSound
      <3> QED
        BY <3>2, <3>3
    <2>2. CASE d # g \/ ~At(g, "reply") \/ job'[g] # Idle
      <3>1. /\ job'[d].at = job[d].at /\ job'[d].topic = job[d].topic
            /\ job'[d].answer = job[d].answer
        BY <1>t, <1>j, <2>2 DEF Goroutines, Jobs
      <3>2. ASSUME NEW o \in Objects, Member(d, o), o[1] \in told[d]
            PROVE  o[1] \in told'[d]
        <4>1. CASE told' = told \/ d # c
          BY <1>c, <3>2, <4>1
        <4>2. CASE told' # told /\ d = c
          <5>1. SendQueued(g, c) /\ Tell(g, c)
            BY <1>c, <4>2
          <5>2. ~At(g, "reply")
            BY <1>t, <1>r, <2>2, <4>2, <5>1 DEF SendQueued, Returned
          <5>3. job[g].answer \notin {"subscribed", "unsubscribed"}
            BY <1>t, <5>2 DEF AnswersItself
          <5>4. At(g, "notify") => o[1] # job[g].topic
            BY <1>t, <3>2, NotifierHolds
          <5> QED
            BY <1>t, <3>2, <4>2, <5>1, <5>3, <5>4 DEF Tell
        <4> QED
          BY <4>1, <4>2
      <3> QED
        BY <1>m, <1>c, <3>1, <3>2, ToldStill DEF ToldInv
    <2> QED
      BY <2>1, <2>2
  <1> QED
    BY <1>m, <1>1, <1>2 DEF ToldInv

\* ToldInv is inductive.
LEMMA NextToldInv == ToldInv /\ [Next]_vars => ToldInv'
  <1> SUFFICES ASSUME ToldInv, [Next]_vars PROVE ToldInv'
    OBVIOUS
  <1>t. MemberInv /\ TypeInv' /\ MemberInv'
    BY NextMemberInv DEF ToldInv, MemberInv
  <1>1. CASE UNCHANGED vars
    <2>1. UNCHANGED <<mapVars, memberVars, mutexVars, aborted, job, told, isClosed>>
      BY <1>1 DEF vars, clientVars, historyVars
    <2>2. \A c \in Clients : ToldSound(c)'
      BY <2>1, SameMembers, ToldStill DEF ToldInv
    <2>3. \A g \in Goroutines : AnswersItself(g)'
      BY <2>1 DEF ToldInv, AnswersItself, At
    <2> QED
      BY <1>t, <2>2, <2>3 DEF ToldInv
  <1>2. CASE \E c \in Clients : \/ Asking(c) \/ Serving(c)
                               \/ CleaningUp(c) \/ Connection(c)
    BY <1>t, <1>2, ClientIsTold
  <1>3. CASE \E a \in Admins : Administering(a) \/ Deleting(a)
    BY <1>t, <1>3, AdminIsTold
  <1>4. CASE \E g \in Goroutines : Sending(g)
    BY <1>t, <1>4, SendIsTold, PanicIsTold DEF Sending, SendPanics
  <1> QED
    BY <1>1, <1>2, <1>3, <1>4 DEF Next, Quiet

\* A connected client between two requests is sent the messages of no topic
\* that its last answer or notice did not say it is on: the acknowledgement
\* of an unsubscribe is sent after Topic.RemoveSubscriber, the notice of a
\* deletion while CloseAllSubscribers holds the topic, and the one of a
\* subscribe before the handler reads on.
THEOREM TopicsTold == Safety => []ClientKnowsItsTopics
  <1>1. Init => ToldInv
    <2> SUFFICES ASSUME Init PROVE ToldInv
      OBVIOUS
    <2>1. \A c \in Clients : ToldSound(c)
      BY DEF Init, ToldSound, Member, Idle, Goroutines
    <2>2. \A g \in Goroutines : AnswersItself(g)
      BY DEF Init, AnswersItself, At, Idle
    <2> QED
      BY <2>1, <2>2, InitMemberInv DEF ToldInv
  <1>2. ToldInv => ClientKnowsItsTopics
    <2> SUFFICES ASSUME ToldInv, NEW o \in Objects, NEW c \in subscribers[o],
                        At(c, "ready"), ~isClosed[c], Member(c, o)
                 PROVE  o[1] \in told[c]
      BY DEF ClientKnowsItsTopics, Member
    <2>1. c \in Clients /\ c \in Goroutines
      BY DEF ToldInv, MemberInv, TypeInv, TypeOK, Goroutines
    <2>2. job[c].answer # "subscribed" /\ job[c].at \notin Departing
      BY <2>1 DEF ToldInv, AnswersItself, At, Departing
    <2> QED
      BY <2>1, <2>2 DEF ToldInv, ToldSound
  <1> QED
    BY <1>1, <1>2, NextToldInv, PTL DEF Safety
=============================================================================
