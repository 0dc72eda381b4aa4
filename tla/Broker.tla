------------------------------- MODULE Broker -------------------------------
(***************************************************************************)
(* Topics and their subscribers: internal/broker/{broker,shard,topic}.go,  *)
(* the connection handlers of internal/ws/handler.go and the creation and  *)
(* deletion of topics that internal/api/topics.go asks for.                *)
(*                                                                         *)
(* Every client has one goroutine, handleConnection, which serves its      *)
(* requests one at a time and cleans up after it; every administrator is a *)
(* REST handler.  A goroutine finds a *Topic in a shard's map, lets the    *)
(* shard go, and uses the pointer later: the n-th topic made under a name  *)
(* is the object <<name, n>>, and a goroutine may still hold an object     *)
(* that is no longer in the map.  A lock that protects a single step       *)
(* appears only as the guard that nobody else holds it.  DeleteTopic keeps *)
(* the lock of the shard, and of the topic, while it sends.                *)
(*                                                                         *)
(* SendMessage, Close and writeLoop are those of Subscriber, reduced to    *)
(* what is seen from here: a count of queued messages, a closed flag, and  *)
(* the panics they may raise in the goroutine that sends.  The replay of a *)
(* subscribe is in Replay, the limit on topics in Registry, and the death  *)
(* of the whole process by a panic of writeLoop in Subscriber.             *)
(***************************************************************************)
EXTENDS Integers, FiniteSets

CONSTANTS
  Topics,           \* topic names
  Clients,          \* connected clients, each one its handler goroutine too
  Admins,           \* REST handler goroutines
  Shards,
  ShardOf,          \* selectShardForTopic
  QueueSize,        \* SubscriberQueueSize
  MaxSubscribersPerTopic,
  MaxIncarnations,  \* bound: topics ever created under one name
  MaxRequests,      \* bound: requests of all clients together
  NoTopic,
  NoOne

Goroutines == Clients \cup Admins
Objects == Topics \X (1..MaxIncarnations)

ASSUME NamesAssumption ==
  /\ ShardOf \in [Topics -> Shards]
  /\ Clients \cap Admins = {}
  /\ NoOne \notin Goroutines
  /\ NoTopic \notin Topics

ASSUME LimitsAssumption ==
  /\ {QueueSize, MaxSubscribersPerTopic, MaxIncarnations} \subseteq Nat \ {0}
  /\ MaxRequests \in Nat

VARIABLES
  topicsMap,        \* which object a name leads to, 0 for none
  created,          \* objects made so far under each name
  subscribers,      \* the subscriber map of each object
  shardMutex,       \* who holds a shard across steps, or NoOne
  subscribersMutex, \* who holds a topic object across steps, or NoOne
  subscribedTopics, \* of each client's Subscriber
  isClosed,         \* isClosedFlag of each client's Subscriber
  backlog,          \* messages in each client's queue, 0 once it is closed
  job,              \* what each goroutine is doing
  requests,         \* requests received so far
  told,             \* history: topics a client was last told it is on
  aborted           \* history: objects whose deletion was cut by a panic

mapVars == <<topicsMap, created>>
memberVars == <<subscribers, subscribedTopics>>
mutexVars == <<shardMutex, subscribersMutex>>
clientVars == <<isClosed, backlog>>
historyVars == <<told, aborted>>
vars == <<mapVars, memberVars, mutexVars, clientVars, job, requests,
          historyVars>>

Labels == {"ready", "lookup", "add", "remove", "save", "snapshot", "fanout",
           "reply", "lockTopic", "notify", "unmap", "cleanup", "leave",
           "leaving", "done"}
Answers == {"subscribed", "unsubscribed", "other", "none"}

\* at: where it is; object: the *Topic it holds; todo: subscribers it has
\* still to send to; target: the one it is sending to, past the check of
\* isClosedFlag; left: topics its cleanup has still to visit.
Jobs == [at : Labels, topic : Topics \cup {NoTopic},
         inc : 0..MaxIncarnations, todo : SUBSET Clients,
         target : Clients \cup {NoOne}, answer : Answers,
         left : SUBSET Topics]

Idle == [at |-> "ready", topic |-> NoTopic, inc |-> 0, todo |-> {},
         target |-> NoOne, answer |-> "none", left |-> {}]

Init ==
  /\ topicsMap = [t \in Topics |-> 0]
  /\ created = [t \in Topics |-> 0]
  /\ subscribers = [o \in Objects |-> {}]
  /\ shardMutex = [s \in Shards |-> NoOne]
  /\ subscribersMutex = [o \in Objects |-> NoOne]
  /\ subscribedTopics = [c \in Clients |-> {}]
  /\ isClosed = [c \in Clients |-> FALSE]
  /\ backlog = [c \in Clients |-> 0]
  /\ job = [g \in Goroutines |-> Idle]
  /\ requests = 0
  /\ told = [c \in Clients |-> {}]
  /\ aborted = {}

-----------------------------------------------------------------------------
(* Jobs                                                                    *)

At(g, label) == job[g].at = label
Goto(g, label) == job' = [job EXCEPT ![g].at = label]

Begin(g, label, t, n) ==
  job' = [job EXCEPT ![g] = [Idle EXCEPT !.at = label, !.topic = t, !.inc = n]]

\* sendAck and sendError: one message to the client itself.
Answer(c, t, what) ==
  job' = [job EXCEPT ![c] = [Idle EXCEPT !.at = "reply", !.topic = t,
                                         !.todo = {c}, !.answer = what]]

HeldObject(g) == <<job[g].topic, job[g].inc>>
ShardFree(t) == shardMutex[ShardOf[t]] = NoOne
TopicFree(o) == subscribersMutex[o] = NoOne
Live(o) == topicsMap[o[1]] = o[2]

\* handleConnection reads a request.  It may do so on a connection that has
\* been closed already: frames that were buffered are still read.
Request(c) ==
  /\ At(c, "ready")
  /\ requests < MaxRequests
  /\ requests' = requests + 1

-----------------------------------------------------------------------------
(* Requests of a client                                                    *)

\* ping, and the requests refused without a look at any topic.
Ping(c) ==
  /\ Request(c)
  /\ Answer(c, NoTopic, "other")
  /\ UNCHANGED <<mapVars, memberVars, mutexVars, clientVars, historyVars>>

\* TopicExists
Subscribe(c, t) ==
  /\ Request(c)
  /\ ShardFree(t)
  /\ IF topicsMap[t] = 0 THEN Answer(c, t, "other") ELSE Begin(c, "lookup", t, 0)
  /\ UNCHANGED <<mapVars, memberVars, mutexVars, clientVars, historyVars>>

\* SubscribeToTopic looks the topic up again.
SubscribeLookup(c) ==
  LET t == job[c].topic IN
  /\ At(c, "lookup")
  /\ ShardFree(t)
  /\ IF topicsMap[t] = 0
     THEN Answer(c, t, "other")
     ELSE Begin(c, "add", t, topicsMap[t])
  /\ UNCHANGED <<mapVars, memberVars, mutexVars, clientVars, requests,
                 historyVars>>

\* Variation of AddSubscriber: the limit is not looked at.
AddSubscriberUnlimited(c) ==
  LET o == HeldObject(c) IN
  /\ At(c, "add")
  /\ TopicFree(o)
  /\ subscribers' = [subscribers EXCEPT ![o] = @ \cup {c}]
  /\ subscribedTopics' = [subscribedTopics EXCEPT ![c] = @ \cup {o[1]}]
  /\ Answer(c, o[1], "subscribed")
  /\ UNCHANGED <<mapVars, mutexVars, clientVars, requests, historyVars>>

\* Variation of AddSubscriber: the subscriber is not told its topic.
AddSubscriberOneSided(c) ==
  LET o == HeldObject(c) IN
  /\ At(c, "add")
  /\ TopicFree(o)
  /\ Cardinality(subscribers[o]) < MaxSubscribersPerTopic
  /\ subscribers' = [subscribers EXCEPT ![o] = @ \cup {c}]
  /\ Answer(c, o[1], "subscribed")
  /\ UNCHANGED <<mapVars, subscribedTopics, mutexVars, clientVars, requests,
                 historyVars>>

AddSubscriber(c) ==
  LET o == HeldObject(c) IN
  /\ At(c, "add")
  /\ TopicFree(o)
  /\ \/ /\ c \in subscribers[o]
        /\ Answer(c, o[1], "subscribed")
        /\ UNCHANGED memberVars
     \/ /\ c \notin subscribers[o]
        /\ Cardinality(subscribers[o]) >= MaxSubscribersPerTopic
        /\ Answer(c, o[1], "other")
        /\ UNCHANGED memberVars
     \/ /\ c \notin subscribers[o]
        /\ Cardinality(subscribers[o]) < MaxSubscribersPerTopic
        /\ subscribers' = [subscribers EXCEPT ![o] = @ \cup {c}]
        /\ subscribedTopics' = [subscribedTopics EXCEPT ![c] = @ \cup {o[1]}]
        /\ Answer(c, o[1], "subscribed")
  /\ UNCHANGED <<mapVars, mutexVars, clientVars, requests, historyVars>>

Unsubscribe(c, t) ==
  /\ Request(c)
  /\ ShardFree(t)
  /\ IF topicsMap[t] = 0
     THEN Answer(c, t, "other")
     ELSE Begin(c, "remove", t, topicsMap[t])
  /\ UNCHANGED <<mapVars, memberVars, mutexVars, clientVars, historyVars>>

\* Topic.RemoveSubscriber
RemoveFrom(c, o) ==
  IF c \in subscribers[o]
  THEN /\ subscribers' = [subscribers EXCEPT ![o] = @ \ {c}]
       /\ subscribedTopics' = [subscribedTopics EXCEPT ![c] = @ \ {o[1]}]
  ELSE UNCHANGED memberVars

\* Variation of Remove: only the subscriber forgets the topic.
RemoveOneSided(c) ==
  LET o == HeldObject(c) IN
  /\ At(c, "remove")
  /\ TopicFree(o)
  /\ subscribedTopics' = [subscribedTopics EXCEPT ![c] = @ \ {o[1]}]
  /\ Answer(c, o[1], "unsubscribed")
  /\ UNCHANGED <<mapVars, subscribers, mutexVars, clientVars, requests,
                 historyVars>>

Remove(c) ==
  LET o == HeldObject(c) IN
  /\ At(c, "remove")
  /\ TopicFree(o)
  /\ RemoveFrom(c, o)
  /\ Answer(c, o[1], "unsubscribed")
  /\ UNCHANGED <<mapVars, mutexVars, clientVars, requests, historyVars>>

Publish(c, t) ==
  /\ Request(c)
  /\ ShardFree(t)
  /\ IF topicsMap[t] = 0
     THEN Answer(c, t, "other")
     ELSE Begin(c, "save", t, topicsMap[t])
  /\ UNCHANGED <<mapVars, memberVars, mutexVars, clientVars, historyVars>>

\* storage.SaveMessage returns nil, or an error that ends the publish.
Save(c) ==
  /\ At(c, "save")
  /\ Goto(c, "snapshot") \/ Answer(c, job[c].topic, "other")
  /\ UNCHANGED <<mapVars, memberVars, mutexVars, clientVars, requests,
                 historyVars>>

\* Topic.PublishMessage copies the members and lets the topic go.
Snapshot(c) ==
  LET o == HeldObject(c) IN
  /\ At(c, "snapshot")
  /\ TopicFree(o)
  /\ job' = [job EXCEPT ![c].at = "fanout", ![c].todo = subscribers[o]]
  /\ UNCHANGED <<mapVars, memberVars, mutexVars, clientVars, requests,
                 historyVars>>

FanoutDone(c) ==
  /\ At(c, "fanout")
  /\ job[c].todo = {}
  /\ Answer(c, job[c].topic, "other")
  /\ UNCHANGED <<mapVars, memberVars, mutexVars, clientVars, requests,
                 historyVars>>

-----------------------------------------------------------------------------
(* SendMessage, from the fan-out of a publish, from CloseAllSubscribers    *)
(* and for an answer.                                                      *)

Sends(g) == job[g].at \in {"fanout", "notify", "reply"}

\* SendMessage has returned.  CloseAllSubscribers goes on with RemoveTopic;
\* an answer was the last step of its request.
Returned(g, c) ==
  /\ job' = [job EXCEPT ![g] = IF At(g, "reply")
                               THEN Idle
                               ELSE [job[g] EXCEPT !.todo = job[g].todo \ {c},
                                                   !.target = NoOne]]
  /\ subscribedTopics' = IF At(g, "notify")
                         THEN [subscribedTopics EXCEPT
                                 ![c] = @ \ {job[g].topic}]
                         ELSE subscribedTopics

\* What the message just queued tells client c of its subscriptions.
Tell(g, c) ==
  told' = [told EXCEPT ![c] =
             CASE job[g].answer = "subscribed" -> @ \cup {job[g].topic}
               [] At(g, "notify") \/ job[g].answer = "unsubscribed"
                    -> @ \ {job[g].topic}
               [] OTHER -> @]

Shut(c) ==
  /\ isClosed' = [isClosed EXCEPT ![c] = TRUE]
  /\ backlog' = [backlog EXCEPT ![c] = 0]

\* What a panic leaves of g: the deferred Unlocks run, the deferred cleanup
\* of handleConnection runs, net/http recovers.  A REST request is over.
Unwound(g) ==
  [Idle EXCEPT !.at = IF g \in Clients THEN "cleanup" ELSE "ready"]

\* Variation of Panic: the locks are not released.
PanicKeepsLocks(g) ==
  /\ job' = [job EXCEPT ![g] = Unwound(g)]
  /\ aborted' = IF At(g, "notify") THEN aborted \cup {HeldObject(g)} ELSE aborted
  /\ UNCHANGED <<mapVars, memberVars, mutexVars, told>>

\* Variation of Panic: the handler is gone without its cleanup.
PanicSkipsCleanup(g) ==
  /\ job' = [job EXCEPT ![g] = [Idle EXCEPT !.at = IF g \in Clients
                                                   THEN "done" ELSE "ready"]]
  /\ aborted' = IF At(g, "notify") THEN aborted \cup {HeldObject(g)} ELSE aborted
  /\ shardMutex' = [s \in Shards |->
                      IF shardMutex[s] = g THEN NoOne ELSE shardMutex[s]]
  /\ subscribersMutex' = [o \in Objects |-> IF subscribersMutex[o] = g
                                            THEN NoOne
                                            ELSE subscribersMutex[o]]
  /\ UNCHANGED <<mapVars, memberVars, told>>

Panic(g) ==
  /\ job' = [job EXCEPT ![g] = Unwound(g)]
  /\ aborted' = IF At(g, "notify") THEN aborted \cup {HeldObject(g)} ELSE aborted
  /\ shardMutex' = [s \in Shards |->
                      IF shardMutex[s] = g THEN NoOne ELSE shardMutex[s]]
  /\ subscribersMutex' = [o \in Objects |-> IF subscribersMutex[o] = g
                                            THEN NoOne
                                            ELSE subscribersMutex[o]]
  /\ UNCHANGED <<mapVars, memberVars, told>>

SendCheck(g, c) ==
  /\ Sends(g)
  /\ job[g].target = NoOne
  /\ c \in job[g].todo
  /\ IF isClosed[c]
     THEN Returned(g, c)
     ELSE /\ job' = [job EXCEPT ![g].target = c]
          /\ UNCHANGED subscribedTopics
  /\ UNCHANGED <<mapVars, subscribers, mutexVars, clientVars, requests,
                 historyVars>>

\* Variation of SendQueued: a send that does not stop at the capacity.
SendQueuedUnbounded(g, c) ==
  /\ job[g].target = c
  /\ ~isClosed[c]
  /\ backlog' = [backlog EXCEPT ![c] = @ + 1]
  /\ Returned(g, c)
  /\ Tell(g, c)
  /\ UNCHANGED <<mapVars, subscribers, mutexVars, isClosed, requests, aborted>>

SendQueued(g, c) ==
  /\ job[g].target = c
  /\ ~isClosed[c]
  /\ backlog[c] < QueueSize
  /\ backlog' = [backlog EXCEPT ![c] = @ + 1]
  /\ Returned(g, c)
  /\ Tell(g, c)
  /\ UNCHANGED <<mapVars, subscribers, mutexVars, isClosed, requests, aborted>>

\* HandleSlowConsumer closes the subscriber.
SendFull(g, c) ==
  /\ job[g].target = c
  /\ ~isClosed[c]
  /\ backlog[c] = QueueSize
  /\ Shut(c)
  /\ Returned(g, c)
  /\ UNCHANGED <<mapVars, subscribers, mutexVars, requests, historyVars>>

\* The queue was closed since the check, or the write of the error frame
\* met the one of writeLoop.
SendPanics(g, c) ==
  /\ job[g].target = c
  /\ isClosed[c] \/ backlog[c] = QueueSize
  /\ Panic(g)
  /\ UNCHANGED <<clientVars, requests>>

-----------------------------------------------------------------------------
(* Connections                                                             *)

\* writeLoop writes a message, or fails to and closes the subscriber.
Drain(c) ==
  /\ backlog[c] > 0
  /\ backlog' = [backlog EXCEPT ![c] = @ - 1]
  /\ UNCHANGED <<mapVars, memberVars, mutexVars, isClosed, job, requests,
                 historyVars>>

WriteFails(c) ==
  /\ backlog[c] > 0
  /\ Shut(c)
  /\ UNCHANGED <<mapVars, memberVars, mutexVars, job, requests, historyVars>>

\* ReadJSON fails: handleConnection ends.
Disconnect(c) ==
  /\ At(c, "ready")
  /\ Goto(c, "cleanup")
  /\ UNCHANGED <<mapVars, memberVars, mutexVars, clientVars, requests,
                 historyVars>>

\* cleanupSubscriber: a copy of the topics, then one after the other.
Cleanup(c) ==
  /\ At(c, "cleanup")
  /\ job' = [job EXCEPT ![c].at = "leave", ![c].left = subscribedTopics[c]]
  /\ UNCHANGED <<mapVars, memberVars, mutexVars, clientVars, requests,
                 historyVars>>

\* Variation of LeaveLookup: a topic that is gone is looked up for ever.
LeaveLookupRetries(c, t) ==
  /\ At(c, "leave")
  /\ t \in job[c].left
  /\ ShardFree(t)
  /\ topicsMap[t] # 0
  /\ job' = [job EXCEPT ![c].at = "leaving", ![c].topic = t,
                        ![c].inc = topicsMap[t]]
  /\ UNCHANGED <<mapVars, memberVars, mutexVars, clientVars, requests,
                 historyVars>>

LeaveLookup(c, t) ==
  /\ At(c, "leave")
  /\ t \in job[c].left
  /\ ShardFree(t)
  /\ job' = IF topicsMap[t] = 0
            THEN [job EXCEPT ![c].left = @ \ {t}]
            ELSE [job EXCEPT ![c].at = "leaving", ![c].topic = t,
                             ![c].inc = topicsMap[t]]
  /\ UNCHANGED <<mapVars, memberVars, mutexVars, clientVars, requests,
                 historyVars>>

Leave(c) ==
  LET o == HeldObject(c) IN
  /\ At(c, "leaving")
  /\ TopicFree(o)
  /\ RemoveFrom(c, o)
  /\ job' = [job EXCEPT ![c] = [Idle EXCEPT !.at = "leave",
                                            !.left = job[c].left \ {o[1]}]]
  /\ UNCHANGED <<mapVars, mutexVars, clientVars, requests, historyVars>>

CleanupClose(c) ==
  /\ At(c, "leave")
  /\ job[c].left = {}
  /\ Shut(c)
  /\ Goto(c, "done")
  /\ UNCHANGED <<mapVars, memberVars, mutexVars, requests, historyVars>>

-----------------------------------------------------------------------------
(* Topics                                                                  *)

CreateTopic(a, t) ==
  /\ At(a, "ready")
  /\ ShardFree(t)
  /\ topicsMap[t] = 0
  /\ created[t] < MaxIncarnations
  /\ created' = [created EXCEPT ![t] = @ + 1]
  /\ topicsMap' = [topicsMap EXCEPT ![t] = created[t] + 1]
  /\ UNCHANGED <<memberVars, mutexVars, clientVars, job, requests,
                 historyVars>>

\* Shard.DeleteTopic takes the shard and finds the topic.
DeleteTopic(a, t) ==
  /\ At(a, "ready")
  /\ ShardFree(t)
  /\ topicsMap[t] # 0
  /\ shardMutex' = [shardMutex EXCEPT ![ShardOf[t]] = a]
  /\ Begin(a, "lockTopic", t, topicsMap[t])
  /\ UNCHANGED <<mapVars, memberVars, subscribersMutex, clientVars, requests,
                 historyVars>>

\* CloseAllSubscribers
DeleteLockTopic(a) ==
  LET o == HeldObject(a) IN
  /\ At(a, "lockTopic")
  /\ TopicFree(o)
  /\ subscribersMutex' = [subscribersMutex EXCEPT ![o] = a]
  /\ job' = [job EXCEPT ![a].at = "notify", ![a].todo = subscribers[o]]
  /\ UNCHANGED <<mapVars, memberVars, shardMutex, clientVars, requests,
                 historyVars>>

DeleteNotified(a) ==
  LET o == HeldObject(a) IN
  /\ At(a, "notify")
  /\ job[a].todo = {}
  /\ subscribers' = [subscribers EXCEPT ![o] = {}]
  /\ subscribersMutex' = [subscribersMutex EXCEPT ![o] = NoOne]
  /\ Goto(a, "unmap")
  /\ UNCHANGED <<mapVars, subscribedTopics, shardMutex, clientVars, requests,
                 historyVars>>

DeleteUnmap(a) ==
  LET t == job[a].topic IN
  /\ At(a, "unmap")
  /\ topicsMap' = [topicsMap EXCEPT ![t] = 0]
  /\ shardMutex' = [shardMutex EXCEPT ![ShardOf[t]] = NoOne]
  /\ job' = [job EXCEPT ![a] = Idle]
  /\ UNCHANGED <<created, memberVars, subscribersMutex, clientVars, requests,
                 historyVars>>

-----------------------------------------------------------------------------

Sending(g) ==
  \E c \in Clients :
    SendCheck(g, c) \/ SendQueued(g, c) \/ SendFull(g, c) \/ SendPanics(g, c)

Serving(c) ==
  \/ SubscribeLookup(c) \/ AddSubscriber(c)
  \/ Remove(c)
  \/ Save(c) \/ Snapshot(c) \/ FanoutDone(c)

CleaningUp(c) ==
  \/ Cleanup(c)
  \/ \E t \in Topics : LeaveLookup(c, t)
  \/ Leave(c) \/ CleanupClose(c)

Deleting(a) == DeleteLockTopic(a) \/ DeleteNotified(a) \/ DeleteUnmap(a)

Connection(c) == Drain(c) \/ WriteFails(c) \/ Disconnect(c)

Asking(c) ==
  \/ Ping(c)
  \/ \E t \in Topics : Subscribe(c, t) \/ Unsubscribe(c, t) \/ Publish(c, t)

Administering(a) == \E t \in Topics : CreateTopic(a, t) \/ DeleteTopic(a, t)

\* Nobody has to ask for anything more.
Quiet ==
  /\ \A g \in Goroutines : At(g, "ready") \/ At(g, "done")
  /\ UNCHANGED vars

Next ==
  \/ \E c \in Clients : Asking(c) \/ Serving(c) \/ CleaningUp(c)
  \/ \E c \in Clients : Connection(c)
  \/ \E a \in Admins : Administering(a) \/ Deleting(a)
  \/ \E g \in Goroutines : Sending(g)
  \/ Quiet

(***************************************************************************)
(* Fairness.  A goroutine that can go on does; as a mutex of package sync  *)
(* is handed to the waiter that has starved longest, a goroutine whose     *)
(* lock is free again and again gets it: strong fairness.  A read on a     *)
(* connection the server has closed fails.  Nobody has to send a request,  *)
(* to create or delete a topic, or to leave.                               *)
(***************************************************************************)
Fairness ==
  /\ \A c \in Clients :
       /\ SF_vars(Serving(c) \/ CleaningUp(c) \/ Sending(c))
       /\ WF_vars(isClosed[c] /\ Disconnect(c))
  /\ \A a \in Admins : SF_vars(Deleting(a) \/ Sending(a))

Safety == Init /\ [][Next]_vars

Spec == Safety /\ Fairness

-----------------------------------------------------------------------------
(* Properties                                                              *)

TypeOK ==
  /\ topicsMap \in [Topics -> 0..MaxIncarnations]
  /\ created \in [Topics -> 0..MaxIncarnations]
  /\ subscribers \in [Objects -> SUBSET Clients]
  /\ shardMutex \in [Shards -> Admins \cup {NoOne}]
  /\ subscribersMutex \in [Objects -> Admins \cup {NoOne}]
  /\ subscribedTopics \in [Clients -> SUBSET Topics]
  /\ isClosed \in [Clients -> BOOLEAN]
  /\ backlog \in [Clients -> 0..QueueSize]
  /\ job \in [Goroutines -> Jobs]
  /\ requests \in 0..MaxRequests
  /\ told \in [Clients -> SUBSET Topics]
  /\ aborted \subseteq Objects

\* AddSubscriber counts and inserts under one lock: no object exceeds the
\* limit, however many handlers got hold of it before.
SubscriberLimit ==
  \A o \in Objects : Cardinality(subscribers[o]) <= MaxSubscribersPerTopic

\* A topic a client can find knows nobody who does not know it: what
\* cleanupSubscriber will visit covers every membership, although members
\* and subscribedTopics are two maps under two locks and handlers work on
\* objects that may have been deleted and replaced meanwhile.  A deletion
\* under way, or cut by a panic, is the exception.
MembersKnowTheirTopics ==
  \A o \in Objects : \A c \in subscribers[o] :
    Live(o) /\ TopicFree(o) /\ o \notin aborted => o[1] \in subscribedTopics[c]

\* Once its handler has returned, a client is in no topic one can find, save
\* one whose deletion is under way or was cut by a panic.
NoGhost ==
  \A c \in Clients, o \in Objects :
    At(c, "done") /\ Live(o) /\ TopicFree(o) /\ o \notin aborted
      => c \notin subscribers[o]

\* A connected client between two requests is a member only where the last
\* answer or notice it was sent says so: nobody is sent the messages of a
\* topic it has been told it left.
ClientKnowsItsTopics ==
  \A o \in Objects : \A c \in subscribers[o] :
    At(c, "ready") /\ ~isClosed[c] /\ Live(o) /\ TopicFree(o)
      /\ o \notin aborted => o[1] \in told[c]

\* The locks of a deletion are released on every way out of it, the panics
\* of SendMessage included: whoever has begun something ends it.
OperationsEnd ==
  \A g \in Goroutines :
    ~At(g, "ready") ~> At(g, "ready") \/ At(g, "done")

\* A closed subscriber leaves every topic.
ClosedLeaves ==
  \A c \in Clients :
    isClosed[c] ~> /\ At(c, "done")
                   /\ \A o \in Objects :
                        Live(o) /\ o \notin aborted => c \notin subscribers[o]

\* README "Slow Consumer Protection": the subscriber is removed from the
\* topic.
SubscriberRemoved ==
  \A c \in Clients :
    isClosed[c] ~> \A o \in Objects : Live(o) => c \notin subscribers[o]

\* README "Flow": the message is fanned out to the subscribers, so a fan-out
\* is over only when nobody is left to be sent to.
FanoutComplete ==
  [][\A c \in Clients :
       At(c, "fanout") /\ job'[c].at # "fanout" => job[c].todo = {}]_vars

\* The acknowledgement of handleSubscribe: a connected client that was told
\* "subscribed", and nothing else since, is in the topic.
SubscriptionHonoured ==
  \A c \in Clients : \A t \in told[c] :
    At(c, "ready") /\ ~isClosed[c] =>
      /\ topicsMap[t] # 0
      /\ c \in subscribers[<<t, topicsMap[t]>>]
=============================================================================
