# Formal model of the pub/sub server and its SDKs

This directory holds TLA+ modules of the in-memory pub/sub server (`internal/`)
and of its Go and JavaScript clients (`sdk/`), the TLC configurations that check
them, and TLAPS proofs of their safety properties. Paths below are relative to
the repository.

1. [The system](#1-the-system)
2. [Modules](#2-modules)
3. [Runs](#3-runs)
4. [Fairness](#4-fairness)
5. [Proofs](#5-proofs)
6. [Disagreements found](#6-disagreements-found)
7. [What is left out](#7-what-is-left-out)
8. [Plan](#8-plan)

## 1. The system

Clients connect by WebSocket and send `subscribe`, `unsubscribe`, `publish` and
`ping`; administrators create, delete and list topics over REST. A published
message is stored in Redis first and then sent to every subscriber of the topic
through a bounded queue per client.

| Component | State | Operations | Correct means |
|---|---|---|---|
| `Subscriber` (`internal/broker/subscriber.go`) | `messageQueue` (a channel), `isClosedFlag` under `closedMutex`, the connection, `subscribedTopics` under `topicsMutex` | `SendMessage`, `HandleSlowConsumer`, `Close`, `writeLoop`, `AddTopic`, `RemoveTopic` | never closed twice; what was accepted is delivered in order or the connection closes; a slow client is cut off; no goroutine is left behind |
| `Topic` (`topic.go`) | `subscribers` under `subscribersMutex` | `AddSubscriber`, `RemoveSubscriber`, `PublishMessage`, `CloseAllSubscribers` | the limit holds; a fan-out reaches every member; both membership maps agree |
| `Shard` (`shard.go`) | `topicsMap` under `shardMutex` | `CreateTopic`, `DeleteTopic`, `GetTopic`, `TopicExists` | a deleted topic leaves no member behind; locks are given back |
| `Broker` (`broker.go`) | 32 shards, storage | `CreateTopic` (with the limit), `PublishMessage`, `SubscribeToTopic`, `UnsubscribeFromTopic`, `ListAllTopics`, `GetTotalTopicCount` | the limit is respected up to a known overshoot; a listing is complete |
| Connection handler (`internal/ws/handler.go`) | one goroutine per client | `handleConnection`, the four requests, `cleanupSubscriber` | a client that is gone is in no topic; answers tell the truth; replay and live messages leave no gap |
| Storage (`internal/storage/redis.go`) | one Redis list per topic | `SaveMessage` (LPUSH, LTRIM, EXPIRE), `GetReplayMessages` | the list is the newest part of what was stored |
| REST API (`internal/api`) | none | create, delete, list, statistics, health | carries the broker's results |
| Go SDK (`sdk/go/client/client.go`) | `conn`, `connected`, `reconnectAttempts`, `messageQueue`, `options` | `Connect`, `Disconnect`, `send`, `processQueue`, `readLoop` | a request is sent, queued or reported; a lost connection is noticed |
| JavaScript SDK (`sdk/js/index.js`, copied in `web/pubsub-sdk.js`) | the same and event handlers | the same with promises and a timer | as the Go SDK; promises settle; one socket at a time, and a flag that tells the truth about it |
| Server (`cmd/server/main.go`) | none of its own | start with an empty broker, shutdown | what was acknowledged can be replayed after a restart |

How they interact: handlers call the broker, which finds a `*Topic` in a shard,
lets the shard's lock go and uses the pointer afterwards. The fan-out runs in
the publisher's goroutine and calls `SendMessage` on other clients'
subscribers. `writeLoop`, one goroutine per client, empties the queue into the
connection and closes the subscriber when a write fails. Closing the connection
makes the handler's read fail, and the handler's deferred cleanup removes the
client from its topics. `DeleteTopic` holds the shard's lock and the topic's
while it sends a notice to every member.

What makes this hard: `SendMessage` checks the flag and sends after the unlock;
three goroutines may be closing the same channel; two goroutines may write to a
connection; a `*Topic` may have left the map while it is being joined; a panic
in a handler is recovered by `net/http` after the deferred functions ran, a
panic in `writeLoop` ends the process; limits are compared with counts taken
earlier; LPUSH may be executed and reported as failed; a `readLoop` of the
Go SDK may outlive its connection; the list in Redis outlives the topic and the
server; in the JavaScript SDK a handler may disconnect the client in the middle
of `onopen` or `onclose`, and late events of an old socket change the fields of
the client that has a new one. `PROJECT.json` lists each of these hazards
at its line.

## 2. Modules

| Module | Models | Composition |
|---|---|---|
| `MessagePipe` | the abstract promise of one subscriber: accepted in some order, delivered in that order, breaks once, closes once | instantiated by `Subscriber` |
| `Subscriber` | one subscriber in full: channel, flag, mutex, connection, writes that overlap | refines `MessagePipe` |
| `SubscriberProofs` | the theorems about `Subscriber` | extends it |
| `Broker` | topics, membership, requests, deletion, cleanup; `SendMessage` in the form `Subscriber` justifies | |
| `BrokerProofs` | the theorems about `Broker` | extends it |
| `Registry` | the limit on topics and the listing, shard by shard | |
| `RegistryProofs` | the theorems about `Registry` | extends it |
| `Replay` | one topic's Redis list and a subscribe that reads it while others publish, the topic is deleted and created anew, and the server restarts | |
| `ReplayProofs` | the theorems about `Replay` | extends it |
| `RequestLedger` | the abstract promise of both SDKs about requests: in one place at a time, forward only | instantiated by `GoClient` and `JsClient` |
| `GoClient` | the Go SDK | refines `RequestLedger` |
| `GoClientProofs` | the theorems about `GoClient` | extends it |
| `JsClient` | the JavaScript SDK and its copy for browsers | refines `RequestLedger` |
| `JsClientProofs` | the theorems about `JsClient` | extends it |

`MCx` extends `x` for TLC and defines what a `.cfg` cannot write. Definitions
whose comment begins with "Variation of" are altered forms of the action they
name, a plausible slip each. They are not part of the specification. Every
property of a passing run is violated when one of them takes the place of the
action it varies, which shows that the property depends on the code.

**Subscriber.** `queue` and `chanClosed` are `messageQueue`; `pc` says where
each goroutine is. A critical section that only reads the flag is one step; the
sections that close are cut at the write, at `conn.Close` and at `close(chan)`,
because another goroutine can see the difference. `SendCheck`, `SendEnqueue`,
`SendFull` and `SendOnClosed` are the four outcomes of `SendMessage`; `Slow*`
is `HandleSlowConsumer`; `CloseLock` and `CloseFinish` are `Close`; `Write*` is
`writeLoop`. The connection is external: gorilla/websocket may panic when two
writes overlap and need not; `clash` records the overlap. `Unwind` is what the
recovery by `net/http` and the handler's deferred cleanup leave.

**Broker.** A goroutine's `job` is its program counter and local variables. The
n-th topic made under a name is the object `<<name, n>>`, so a goroutine can
hold an object that has been replaced. A lock that protects one step is the
guard that nobody else holds it; the two locks that `DeleteTopic` keeps across
steps are variables. From `Subscriber` it takes a count of queued messages, the
flag, and the two panics of `SendMessage`. The variables `told` and `aborted`
are history: what the answers and notices told a client, and the deletions that
a panic cut short.

**Registry.** Walks over the shards look at one shard per step, in order, as
`GetTotalTopicCount` and `ListAllTopics` do. `DeleteTopic` is one step here; its
locks are in `Broker`.

**Replay.** `Push`, `Trim` and their failing forms are the commands of
`SaveMessage`; a push that the client library repeats adds its message twice.
`ReplayAssign` and `ReplaySend` are one turn of the loop in `handleSubscribe`:
with the `go 1.21` of `go.mod` the loop has a single variable, the queued
message points to it, and it is read when `writeLoop` writes. Between the two
steps a reader may see a half-assigned value (`Torn`). The n-th topic made
under the name is the object n: `on` and `joined` are the objects that a publish
and a subscriber hold, which may have been deleted meanwhile. `Restart` takes
everything but the list and the histories; the topic objects go on being
numbered so that no two processes share one.

**RequestLedger.** A request is `held`, `out`, `answered`, `refused` or `lost`.
In `GoClient` held requests are those in `messageQueue` and in the hands of any
`processQueue`; out is what was written, as the Go SDK matches no answers with
requests; refused are those whose caller got the error of the write. In
`JsClient` held is `messageQueue`, out is what is on the wire of some socket,
answered and refused are promises that an answer settled and promises that were
rejected because `send` threw; lost are requests whose promise stays pending.

**GoClient.** Connection k is the k-th one dialled, and `readLoop` k is
started for it, but it reads whatever `c.conn` is when it comes round.
`LoadAttempts` and `StoreAttempts` are `c.reconnectAttempts++`, which no lock
protects. A panic (a nil `c.conn` read after `Disconnect`, a second
`Disconnect`) sets `crashed` and ends the behaviour. `refused` is history: the
`readLoop`s whose reconnection failed, the only ones that may leave a loss
unanswered.

**JsClient.** A callback of the event loop is one step, cut where it calls the
application: `onopen` emits 'connected' between setting its fields (`Opened`)
and `_processQueue` (`QueueSent` and the other ends of it), `onclose` emits
'disconnected' between `Closed` and `AfterClose`. In between, `turn` is not
idle, and only the calls a handler can make (`App`) run. The WebSocket is
external: a socket is connecting, open, closing or closed, `send` throws on the
first and does nothing on the last two, and `close` on a connecting socket
aborts it, so that it closes without having opened. The k-th socket's promise is
`opens[k]`; `wire[k]` are the requests sent on it. `hung` is the loop of
`_processQueue` that sends a message to the end of its own queue for ever.
`overlapped` is history: `connect` was called while a socket or a timer was
there or from within a callback, which the client does not guard against.

## 3. Runs

| Run | Properties | Bounds | Shows |
|---|---|---|---|
| `subscriber` | `TypeOK`, `CloseOnce`, `FlagIsTruth`, `AcceptedAccounted`, `RefinesPipe`, `NoGoroutineLeak`, `SlowConsumerHandled` | one publisher and the handler, a queue of two, three calls each | whoever closes, the channel is closed once, the flag is true, messages are neither lost nor reordered before the connection goes; the subscriber implements `MessagePipe`, fairness included; a closed connection ends both goroutines of its client |
| `broker` | `TypeOK`, `MembersKnowTheirTopics`, `NoGhost`, `ClientKnowsItsTopics` | two clients, one topic name created twice, an administrator, four requests | the two membership maps and what clients were told agree; a client that is gone is in no topic |
| `broker_live` | `SubscriberLimit`, `OperationsEnd`, `ClosedLeaves` | two clients, one place, a topic created once and deleted, two requests | the limit holds for late joiners; every operation ends although sends panic under locks |
| `registry` | `LimitOvershoot`, `ListComplete` | three creators, four names, two shards, limit 1 | the limit is exceeded by at most the number of creators less one; a listing has every topic that was there throughout |
| `replay` | `TypeOK`, `ListHoldsNewest`, `AcknowledgedIsStored`, `NoGap`, `FanoutKeepsToItsTopic` | two publishers of one message, list and request of two, a topic created twice, one restart | the list has no hole; what was acknowledged can be replayed in spite of deletion and restart; a subscriber finds every message in the replay or in its queue; a publish that outlives its topic does not reach the next one |
| `go_client` | `TypeOK`, `RequestsAccounted`, `QueueHasSender`, `ConnectedIsRead`, `CrashTakesDisconnect`, `LossNoticed`, `LossFollowedUp`, `RefinesLedger` | two goroutines, two connections, two requests, one attempt | requests are not doubled nor dropped unseen; a connection is read until its loss is noticed, and a loss is followed by a connection unless the dial fails; only a `Disconnect` can make the client panic |
| `js_client` | `TypeOK`, `OneSocket`, `NothingWaits`, `RequestsAccounted`, `HangsOnlyDisconnected`, `NotStranded`, `RetriesLimited`, `OnlyOwedTimersConnect`, `ConnectSettles`, `RequestSettles`, `RefinesLedger` | three sockets, two requests (a subscribe and a ping), one attempt | requests are in one place at a time and settle or are lost with their socket; with one `connect` at a time there is one socket and a true flag; the client goes on trying as long as it may, and no longer |

Five more runs, expected to end in a violation, are in [section 6](#6-disagreements-found).

**Why the bounds are enough to be interesting.** A publisher and the handler
are the two kinds of callers, and with `writeLoop` three goroutines may close; a
queue of two distinguishes order from membership, and three calls fill it again
after a write. The theorems of section 5 cover every number of callers. In `Broker` all locking conflicts are between goroutines of one
topic and one shard; two incarnations are what a stale pointer needs, and four
requests let both clients subscribe and one of them do something else twice.
The live run has one incarnation and two requests, and still a deletion, a full
queue, a panic under the locks and a cleanup whose topic is gone; with the second
incarnation, or a third request, it passes too and takes some minutes. Three creators are the fewest for which the overshoot exceeds
one, and two shards the fewest for which a count mixes moments. In `Replay` the
publishers push more than the list keeps, as a push may count twice; one
deletion and one restart give the list an old topic, an old process and a
current one. With one topic, no restart and three publishers it passes too. Two connections are the
fewest for which an old `readLoop` meets a newer connection; instances with
three connections and one goroutine pass as well. Three sockets let the close
event of a first arrive while a second is open and a third is being made.
`MaxCalls`, `MaxRequests`, `MaxIncarnations`, `MaxPublishes`, `MaxTopics`,
`MaxRestarts`, `MaxConns`, `MaxSends` and `MaxSockets` are bounds of the model, all other constants are limits of the code made small. Clients, creators and publishers are interchangeable in the safety runs that
declare symmetry; runs with liveness declare none.

Deadlock is checked everywhere but where clients may simply stop asking
(`CHECK_DEADLOCK FALSE` in the configurations of `Replay` and `JsClient`). `Subscriber` and
`Broker` name their final states (`Stopped`, `Quiet`).

## 4. Fairness

* **Goroutines.** Go's scheduler runs every runnable goroutine: weak fairness of
  what it does next. `sync.Mutex` and `sync.RWMutex` do not starve a waiter, so
  actions that take a lock have strong fairness.
* **Writes** have a deadline of ten seconds and therefore end, in success or in
  an error. Which of the two is not assumed.
* **Reads** fail on a connection that the server has closed
  (`ReadError` in `Subscriber`, `Disconnect` in `Broker`), and in `GoClient` on a
  connection that has ended. No client has to leave.
* **The event loop** of JavaScript finishes a callback it has begun, a timer that
  was set fires, and an attempt to open or to close a socket ends, whichever
  way. The server answers a request on a connection that lasts, with an
  acknowledgement or an error.
* **Nothing is assumed** of requests, publishes, REST calls, of the success of a
  dial, or of the draining of a queue by a slow client.

## 5. Proofs

`SubscriberProofs` is about every set of callers, every queue size from one up
and every bound on the calls. It assumes `GoroutinesAssumption` (the
handler is a caller; `writeLoop` is none; `NoOne` is neither) and
`SizesAssumption`, both of `Subscriber`, and nothing else.

| Theorem | States |
|---|---|
| `TypeCorrect` | `Safety => []TypeOK`: in particular the queue never exceeds its capacity |
| `ClosedOnce` | `Safety => []CloseOnce` |
| `FlagTruthful` | `Safety => []FlagIsTruth` |
| `NothingLostInQueue` | `Safety => []AcceptedAccounted` |
| `ImplementsPipe` | `Safety => Pipe!Safety`: every step is a step of `MessagePipe` or leaves it alone |

The argument. `TypeInv` adds to `TypeOK` that a goroutine at the `select` has
counted its call; without it the message `<<c, calls[c]>>` need not be one.
`CloseOnce` is not inductive: that the channel is still open when a goroutine
is about to close it depends on who holds `closedMutex`. `CloseInv` therefore adds
`HolderIsClosing` (the mutex is held exactly by the goroutine in a closing
section, and while it is held the flag is down) and `ConnClosedFirst`.
The lemmas `MoveOutside`, `EnterClosing` and `LeaveClosing` say what a step
outside, into and out of a closing section does to it, and each action is one
of the three. `AcceptedAccounted` needs `HandIsUsed`: `writeLoop` has no message
in hand when it receives the next. The refinement uses all of them; it
has one lemma per abstract step.

`BrokerProofs` is about every set of topics, clients, administrators and shards,
every assignment of topics to shards, and every value of the limits and bounds.
It assumes `NamesAssumption` (clients and administrators are different
goroutines, `NoOne` is none, `NoTopic` is no topic, every topic has a shard) and
`LimitsAssumption` (limits are positive), both of `Broker`, and nothing else;
all four invariants of the run `broker` are proved, and its type invariant.

| Theorem | States |
|---|---|
| `TypeCorrect` | `Safety => []TypeOK`: in particular only administrators hold a lock across steps |
| `MembersKnown` | `Safety => []MembersKnowTheirTopics` |
| `NoGhosts` | `Safety => []NoGhost` |
| `LimitKept` | `Safety => []SubscriberLimit` |
| `TopicsTold` | `Safety => []ClientKnowsItsTopics` |

The argument. `TypeInv` adds to `TypeOK` what a goroutine holds where it uses it
(an object in hand has been made, an administrator only deletes) and that a name
leads to the object made last, later ones being still empty. The deep part is
`MemberInv`. A deletion holds the shard of the object it works on, so the object
stays the one its name leads to, and holds the object while it notifies
(`HoldsItsLocks`): a membership it takes a topic from is one that does not count.
A panic frees these locks and marks the object aborted, so that its memberships
do not count after it either. For a client, `ClientSound` says that
`subscribedTopics` covers its memberships, that what its cleanup has still to
visit does, and, which makes this inductive, that it has joined no later object
of the name whose object it is about to leave: `RemoveSubscriber` on an object
that was deleted and replaced meanwhile takes the topic from `subscribedTopics`,
and without this the membership in the replacement would be forgotten. It holds
because only the client itself joins, and its handler does one thing at a time.
`ToldInv` adds what is under way: an acknowledgement not yet queued speaks of
what is true already, and goes to the goroutine that waits for it. The parts that
speak of one client are stated for one client, so that each step has to be looked
at for the goroutine that takes it; for the others `NoNewMembership` suffices.
`LimitKept` is separate: `OnlyAddSubscriberAdds`, and `FS_AddElement`.

`RegistryProofs` is about every set of topics, creators and listers, every
number of shards and every assignment of topics to them. It assumes
`ShardsAssumption` (every topic has a shard) and `LimitAssumption` (the limit is
positive, as the constant of `broker.go` is; there are finitely many names and
creators, and no creator is a lister) and nothing else; all invariants of the
run `registry` are proved, and its type invariant, which for that reason is not
checked by the run.

| Theorem | States |
|---|---|
| `TypeCorrect` | `Spec => []TypeOK` |
| `OvershootBounded` | `Spec => []LimitOvershoot`: topics ≤ limit + creators − 1 |
| `ListsComplete` | `Spec => []ListComplete` |

The argument. A count adds up shards looked at in different moments, so what a
creator compares with the limit need never have been the number of topics.
What can be said is what its count comes to if nothing changes ahead of it:
what it has counted and the topics in shards it has not reached (`Foreseen`).
A creator is heading for an insert past size m if it has passed its check or
foresees fewer than m topics, and `RoomInv` says that for every m from the limit
up the topics and the creators heading past m are together at most
m + creators − 1. A step of a walk leaves what is foreseen as it was; an insert
makes a topic of a creator; a deletion may make a creator foresee one topic
less, but then there is one topic less, and what is claimed for m follows from
what was known for m + 1. That is why the invariant speaks of all m and not of
the limit alone.

`ReplayProofs` is about every number of publishers and subscribers, every queue
and replay size and every number of publishes, topics and restarts. It assumes
`SizesAssumption` of `Replay` (sizes are positive, a publisher is no subscriber,
the two special values are no messages) and nothing else; all invariants of the
run `replay` are proved.

| Theorem | States |
|---|---|
| `TypeCorrect` | `Spec => []TypeOK` |
| `ListNewest` | `Spec => []ListHoldsNewest` |
| `AcknowledgedStored` | `Spec => []AcknowledgedIsStored` |
| `FanoutKeeps` | `Spec => []FanoutKeepsToItsTopic` |
| `NoGaps` | `Spec => []NoGap` |

The argument. `TypeInv` adds to `TypeOK` that a publisher at work has a message
and that a pointer in a queue points to a variable that has been assigned.
`ListInv` is `ListHoldsNewest` written with indices: the i-th element of the list
is the i-th youngest of the log. `StoredInv` says that past LPUSH a message is in
the log; with `ListInv` it gives `AcknowledgedStored`. `MemberInv` says that
members, and those whom a fan-out has still to reach, have joined its object.
`CoverInv` strengthens `NoGap` in two directions: to every subscriber that is past
its read of the list (`Listening`), and to messages whose fan-out is under way,
which it has or is still going to be sent. The read covers everything that is in
the log, and that is every message that is published or past LPUSH
(`ReadCovers`); a snapshot taken after the subscriber joined contains it; and a
send that does not reach it closes it. The order in the code is what makes
this work: a subscribe joins before it reads, a publish pushes before it takes
the members.

`GoClientProofs` is about every number of application goroutines, connections
and requests. It assumes `BoundsAssumption` of `GoClient` (the bounds are
natural numbers, and no application goroutine is a connection) and nothing else.

| Theorem | States |
|---|---|
| `TypeCorrect` | `Safety => []TypeOK`: in particular the attempts counted never exceed the connections made |
| `AllAccounted` | `Safety => []RequestsAccounted` |
| `ImplementsLedger` | `Safety => RefinesLedger`: every step is a step of `RequestLedger` or leaves it alone |
| `QueueServed` | `Safety => []QueueHasSender` |
| `ReaderThere` | `Safety => []ConnectedIsRead` |
| `CrashNeedsDisconnect` | `Safety => []CrashTakesDisconnect` |

The argument. A readLoop is identified by its connection, so all of them need
`ShapeInv`: connections are dialled in order, the readLoop of a connection is
"unborn" until the one Connect that dialled it starts it, and no two Connects
under way have the same connection. Given that, a Connect past `Install` cannot
lose its place to another one's step, which makes `QueueHasSender` and
`ConnectedIsRead` inductive: who adds to the queue saw, under the lock, that the
client is not connected, and who gives up a connection resets `connected`
first. `CrashTakesDisconnect` needs `CrashInv`: any goroutine that may read
`c.conn` comes after a Connect that set it, and only `Disconnect`, which sets
`closeChanDone` in the same step, clears it again.

`reconnectAttempts` is loaded and stored without a lock, so its value is not a
number of anything. `CountType` bounds it, and every value loaded and not yet
stored, by the number of readLoops that have counted their attempt or never will
(`Counted`): a readLoop counts once, just before it joins them, and none
leaves (`CountedStay`). For the requests, `PlaceInv` splits `RequestsAccounted` into
what is in batches (`Taken`) and outside of them (`Rest`), and adds that only a
`processQueue` in its loop has a batch: without this `TakeQueue` could overwrite
one. `Places` says what the first and the last element of a queue
without repeats do to its members; `Deliver`, `TakeMoves` and `FlushMoves` what the
three ways of moving requests do to all places. The refinement uses the same
lemmas: taking the queue leaves what is held as it is, and a send or a turn of
`processQueue` is `Make` or `PassOn` of the ledger.

`JsClientProofs` is about every limit of attempts, every number of sockets and
of requests and every choice of their kinds. It assumes `BoundsAssumption` of
`JsClient` (the bounds are natural numbers, requests are of the four kinds) and
nothing else; all invariants of the run `js_client` are proved.

| Theorem | States |
|---|---|
| `TypeCorrect` | `Spec => []TypeOK` |
| `OneAtATime` | `Spec => []OneSocket` |
| `NoneWaits` | `Spec => []NothingWaits` |
| `AllAccounted` | `Spec => []RequestsAccounted` |
| `ImplementsLedger` | `Spec => RefinesLedger` |
| `HangNeedsDisconnect` | `Spec => []HangsOnlyDisconnected` |
| `NobodyStranded` | `Spec => []NotStranded` |
| `RetriesBounded` | `Spec => []RetriesLimited` |
| `OnlyOwedConnect` | `Spec => []OnlyOwedTimersConnect` |

The argument. `TypeInv` adds to `TypeOK` what the two callbacks that are cut find
when they go on: the socket of an `onopen` has opened, that of an `onclose` has
closed, and the client is not connected then. It also counts: every timer comes
from a socket that has closed, and every retry has made a socket, which
bounds both by the sockets (`RetryType`). `NothingWaits` and `NotStranded` are
inductive with it. `AutoInv` says that until `disconnect` there is a current
socket, and that `onopen` finds the client able to send; the endless loop needs
the contrary. `OwedInv` says that the timers `disconnect` found and that have
not fired are all the timers there are. `OneInv` is about a client that is never
called while a socket or timer is there: a live socket, a timer and a running
`onclose` exclude each other, a socket that is connecting or open is the
current one, and retries and timers together are no more than
`reconnectAttempts`, which gives `RetriesBounded`. `PlaceInv` says where a request
may be, given its promise; `RequestsAccounted` counts what it enumerates, and
each step of the refinement moves what it keeps apart.

Only model-checked: all liveness (`RefinesPipe` with its fairness,
`NoGoroutineLeak`, `SlowConsumerHandled`, `OperationsEnd`, `ClosedLeaves`,
`LossNoticed`, `LossFollowedUp`, `ConnectSettles`, `RequestSettles`), which is
beyond the prover. Every invariant that a run checks is proved, and the safety
part of every refinement.

## 6. Disagreements found

| Run | The repository says | The code does |
|---|---|---|
| `subscriber_slow` | README 151: the connection of a slow consumer is closed | the error frame may meet a write of `writeLoop` and panic in the sender before anything is closed (`subscriber.go:91`) |
| `broker_ghost` | README 152: the subscriber is removed from the topic | a panic in the middle of a deletion leaves the topic in the map with members whose cleanup will not find it (`topic.go:120`) |
| `broker_fanout` | README 119-121: the stored message is fanned out to the subscribers | a subscriber closed between the check and the send makes the fan-out panic with others left (`subscriber.go:64`) |
| `broker_orphan` | `handler.go:134` answers "subscribed" | the subscriber has joined a topic object that had been deleted (`broker.go:129`) |
| `replay_received` | README 162: a client may request the last N messages | queued entries share one loop variable and are written with a later message's value (`handler.go:126`) |

Divergences seen while modelling that have no run of their own:

* README 193-198 gives the writing to the dedicated goroutine; `HandleSlowConsumer`
  writes from the sender's.
* README 187 says topics do not block each other; a deletion holds its shard
  while it sends to every member (`shard.go:50`).
* README 386 limits topics to 10,000; concurrent creations exceed that.
  `LimitOvershoot` says by how much.
* A publish refused because LTRIM failed, or because the answer to LPUSH was
  lost, is stored and replayed later (`redis.go:69`). `Replay` contains
  these outcomes, and `ListHoldsNewest` and `NoGap` hold in spite of them.
* In the Go SDK a second `Disconnect` panics, `Disconnect` during the wait of a
  `readLoop` is followed by a reconnection, a failed reconnection is not tried
  again, and requests made while the queue is being sent overtake it. All are
  reachable in `GoClient`; no document of the repository says otherwise.
* In the JavaScript SDK `disconnect` does not cancel the timer, and
  `autoReconnect` stays false after a later `connect`; a late close event of an
  old socket resets `connected`, so that requests are queued although a socket
  is open; a handler of 'connected' that disconnects makes `_processQueue` run
  for ever if something is queued; `send` may throw from `onopen`; a request
  whose socket closes stays pending. All are reachable in `JsClient`, whose
  properties say when.
* A topic created anew replays the messages of the deleted one, and of the
  process before: `DeleteTopicMetadata`, which would empty the list, is never
  called. `Replay` contains both.
* A subscriber that only listens is cut off after five minutes: a request alone
  extends the deadline (`handler.go:76`). It is a `Disconnect` in `Broker`.

## 7. What is left out

* The expiry of Redis lists after seven days, `totalMessageCount`, and the
  metadata functions of `redis.go`, which nothing calls.
* `cmd/server/main.go`: environment, routes, logging. That a shutdown ends the
  process is `Restart` in `Replay`. `internal/model` and JSON: data only.
* `GetStatistics`, `GetShardStatistics` and `GetHealthStatus` add up what
  `ListAllTopics` or a walk of the same kind sees; their numbers mix moments as
  the walks of `Registry` do.
* In `Broker` the limit on topics (it is in `Registry`) and the death of the
  process by a panic of `writeLoop` (it is in `Subscriber`).
* In `GoClient` the `subscriptions` map, which `GetStatus` alone reads, events
  and their handlers, and what two concurrent readers do to the frames of one
  connection.
* In `JsClient` the 'message', 'info' and parse error events, which change no
  field, `getStatus`, and topics: all requests are about one.

## 8. Plan

Done: `MessagePipe`, `Subscriber`, `Broker`, `Registry`, `Replay` with deletion
and restart, `RequestLedger`, `GoClient` and `JsClient`, each but the abstract ones with the
proofs of its safety properties. In this order next:

1. An abstract specification of the stored list (what was pushed, and its
   newest part) that `Replay` implements, as a theorem.
2. What `Broker` takes from `Subscriber` (a count, a flag, two panics) as an
   abstract specification that `Subscriber` implements, so that the step from one
   to the other is proved and not only described in section 2.
