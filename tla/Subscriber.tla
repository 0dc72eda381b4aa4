----------------------------- MODULE Subscriber -----------------------------
(***************************************************************************)
(* One broker.Subscriber (internal/broker/subscriber.go): a bounded channel*)
(* between the goroutines that send to a client and the writeLoop goroutine*)
(* that owns its WebSocket connection, and the two ways of closing it.     *)
(*                                                                         *)
(* Callers are the goroutines that call SendMessage: publishers (their own *)
(* connection handlers), REST handlers that delete a topic, and Handler,   *)
(* the goroutine in ws.handleConnection for this very client, which also   *)
(* calls Close when its read loop ends.  All of them run under net/http,   *)
(* which recovers a panic; writeLoop is started by a plain go statement,   *)
(* so a panic there ends the process.                                      *)
(*                                                                         *)
(* A critical section of closedMutex that only reads isClosedFlag is one   *)
(* step.  The sections that close the subscriber are cut where another     *)
(* goroutine can see the difference: the write, the closed connection and  *)
(* the closed channel.                                                     *)
(***************************************************************************)
EXTENDS Integers, Sequences, FiniteSets

CONSTANTS
  Callers,     \* goroutines that call SendMessage
  Handler,     \* the one that runs handleConnection for this subscriber
  WriteLoop,   \* the goroutine of StartWriteLoop
  NoOne,       \* the holder of an unlocked mutex
  QueueSize,   \* capacity of messageQueue
  MaxCalls     \* bound: calls of SendMessage each caller makes

ASSUME GoroutinesAssumption ==
  /\ Handler \in Callers
  /\ WriteLoop \notin Callers
  /\ NoOne \notin Callers \cup {WriteLoop}

ASSUME SizesAssumption == QueueSize \in Nat \ {0} /\ MaxCalls \in Nat

VARIABLES
  queue,         \* contents of messageQueue
  chanClosed,    \* close(messageQueue) has run
  isClosedFlag,
  closedMutex,   \* its holder, or NoOne
  connOpen,      \* WebsocketConnection has not been closed by the server
  writing,       \* goroutines inside WebsocketConnection.WriteJSON
  clash,         \* those of them whose write overlapped another one
  pc,            \* where each goroutine is
  calls,         \* calls of SendMessage made so far, per caller
  inHand,        \* the message writeLoop took and has not written (or lost)
  accepted,      \* history: messages sent on the channel
  delivered,     \* history: messages written by writeLoop
  processUp      \* FALSE once a panic outside net/http killed the process

connVars == <<connOpen, writing, clash>>
closeVars == <<chanClosed, isClosedFlag>>
flowVars == <<queue, inHand, accepted, delivered>>
vars == <<queue, chanClosed, isClosedFlag, closedMutex, connOpen, writing,
          clash, pc, calls, inHand, accepted, delivered, processUp>>

Goroutines == Callers \cup {WriteLoop}
Messages == Callers \X (1..MaxCalls)

CallerLabels == {"idle", "select", "slow", "slowWrite", "slowConn",
                 "slowClosing", "panicked", "close", "closing", "done"}
WriterLabels == {"recv", "took", "write", "close", "closing", "exited"}

Goto(g, label) == pc' = [pc EXCEPT ![g] = label]

\* The states NewSubscriber and StartWriteLoop produce.
Init ==
  /\ queue = <<>>
  /\ chanClosed = FALSE
  /\ isClosedFlag = FALSE
  /\ closedMutex = NoOne
  /\ connOpen = TRUE
  /\ writing = {}
  /\ clash = {}
  /\ pc = [g \in Goroutines |-> IF g = WriteLoop THEN "recv" ELSE "idle"]
  /\ calls = [c \in Callers |-> 0]
  /\ inHand = <<>>
  /\ accepted = <<>>
  /\ delivered = <<>>
  /\ processUp = TRUE

-----------------------------------------------------------------------------
(* The connection (external).  A gorilla connection supports one writer at *)
(* a time and leaves exclusion to its callers: of two overlapping writes   *)
(* either may panic ("concurrent write to websocket connection") and       *)
(* neither has to.                                                         *)

StartWrite(g) ==
  /\ writing' = writing \cup {g}
  /\ clash' = IF writing = {} THEN clash ELSE clash \cup writing \cup {g}
  /\ UNCHANGED connOpen

EndWrite(g) ==
  /\ writing' = writing \ {g}
  /\ clash' = clash \ {g}
  /\ UNCHANGED connOpen

\* net/http recovers the panic of a handler goroutine; the deferred cleanup
\* of handleConnection still closes this subscriber when it is its own.
Unwind(c) == IF c = Handler THEN "close" ELSE "panicked"

-----------------------------------------------------------------------------
(* SendMessage                                                             *)

\* The flag is read under closedMutex, which is released before the send.
SendCheck(c) ==
  /\ pc[c] = "idle"
  /\ calls[c] < MaxCalls
  /\ closedMutex = NoOne
  /\ calls' = [calls EXCEPT ![c] = @ + 1]
  /\ IF isClosedFlag THEN UNCHANGED pc ELSE Goto(c, "select")
  /\ UNCHANGED <<flowVars, closeVars, closedMutex, connVars, processUp>>

\* Variation of SendEnqueue: a send that does not stop at the capacity.
SendEnqueueUnbounded(c) ==
  /\ pc[c] = "select"
  /\ ~chanClosed
  /\ queue' = Append(queue, <<c, calls[c]>>)
  /\ accepted' = Append(accepted, <<c, calls[c]>>)
  /\ Goto(c, "idle")
  /\ UNCHANGED <<inHand, delivered, closeVars, closedMutex, connVars, calls,
                 processUp>>

SendEnqueue(c) ==
  /\ pc[c] = "select"
  /\ ~chanClosed
  /\ Len(queue) < QueueSize
  /\ queue' = Append(queue, <<c, calls[c]>>)
  /\ accepted' = Append(accepted, <<c, calls[c]>>)
  /\ Goto(c, "idle")
  /\ UNCHANGED <<inHand, delivered, closeVars, closedMutex, connVars, calls,
                 processUp>>

\* The default branch: the slow consumer policy.
SendFull(c) ==
  /\ pc[c] = "select"
  /\ ~chanClosed
  /\ Len(queue) = QueueSize
  /\ Goto(c, "slow")
  /\ UNCHANGED <<flowVars, closeVars, closedMutex, connVars, calls, processUp>>

\* Sending on a closed channel panics, also inside a select with a default.
SendOnClosed(c) ==
  /\ pc[c] = "select"
  /\ chanClosed
  /\ Goto(c, Unwind(c))
  /\ UNCHANGED <<flowVars, closeVars, closedMutex, connVars, calls, processUp>>

-----------------------------------------------------------------------------
(* HandleSlowConsumer                                                      *)

\* Variation of SlowLock: the policy gives up without closing anything.
SlowLockGivesUp(c) ==
  /\ pc[c] = "slow"
  /\ closedMutex = NoOne
  /\ Goto(c, "idle")
  /\ UNCHANGED <<flowVars, closeVars, closedMutex, connVars, calls, processUp>>

SlowLock(c) ==
  /\ pc[c] = "slow"
  /\ closedMutex = NoOne
  /\ \/ /\ isClosedFlag
        /\ Goto(c, "idle")
        /\ UNCHANGED <<closedMutex, connVars>>
     \/ /\ ~isClosedFlag
        /\ closedMutex' = c
        /\ StartWrite(c)
        /\ Goto(c, "slowWrite")
  /\ UNCHANGED <<flowVars, closeVars, calls, processUp>>

\* The error frame is written or fails; the result is not looked at.
SlowWritten(c) ==
  /\ pc[c] = "slowWrite"
  /\ EndWrite(c)
  /\ Goto(c, "slowConn")
  /\ UNCHANGED <<flowVars, closeVars, closedMutex, calls, processUp>>

\* WriteJSON panics: the deferred Unlock runs, nothing has been closed.
SlowWritePanics(c) ==
  /\ pc[c] = "slowWrite"
  /\ c \in clash
  /\ EndWrite(c)
  /\ closedMutex' = NoOne
  /\ Goto(c, Unwind(c))
  /\ UNCHANGED <<flowVars, closeVars, calls, processUp>>

SlowCloseConn(c) ==
  /\ pc[c] = "slowConn"
  /\ connOpen' = FALSE
  /\ Goto(c, "slowClosing")
  /\ UNCHANGED <<flowVars, closeVars, closedMutex, writing, clash, calls,
                 processUp>>

\* Variation of SlowFinish: the channel is left open.
SlowFinishLeavesChannel(c) ==
  /\ pc[c] = "slowClosing"
  /\ isClosedFlag' = TRUE
  /\ closedMutex' = NoOne
  /\ Goto(c, "idle")
  /\ UNCHANGED <<chanClosed, flowVars, connVars, calls, processUp>>

SlowFinish(c) ==
  /\ pc[c] = "slowClosing"
  /\ chanClosed' = TRUE
  /\ isClosedFlag' = TRUE
  /\ closedMutex' = NoOne
  /\ Goto(c, "idle")
  /\ UNCHANGED <<flowVars, connVars, calls, processUp>>

-----------------------------------------------------------------------------
(* Close, called by the handler's cleanup and by a failing writeLoop       *)

Returned(g) == IF g = WriteLoop THEN "exited" ELSE "done"

\* Variation of CloseLock: Close does not look at the flag.
CloseLockUnchecked(g) ==
  /\ pc[g] = "close"
  /\ closedMutex = NoOne
  /\ closedMutex' = g
  /\ connOpen' = FALSE
  /\ Goto(g, "closing")
  /\ UNCHANGED <<flowVars, closeVars, writing, clash, calls, processUp>>

CloseLock(g) ==
  /\ pc[g] = "close"
  /\ closedMutex = NoOne
  /\ \/ /\ isClosedFlag
        /\ Goto(g, Returned(g))
        /\ UNCHANGED <<closedMutex, connOpen>>
     \/ /\ ~isClosedFlag
        /\ closedMutex' = g
        /\ connOpen' = FALSE
        /\ Goto(g, "closing")
  /\ UNCHANGED <<flowVars, closeVars, writing, clash, calls, processUp>>

\* Variation of CloseFinish: the flag is not set.
CloseFinishForgetsFlag(g) ==
  /\ pc[g] = "closing"
  /\ chanClosed' = TRUE
  /\ closedMutex' = NoOne
  /\ Goto(g, Returned(g))
  /\ UNCHANGED <<isClosedFlag, flowVars, connVars, calls, processUp>>

CloseFinish(g) ==
  /\ pc[g] = "closing"
  /\ chanClosed' = TRUE
  /\ isClosedFlag' = TRUE
  /\ closedMutex' = NoOne
  /\ Goto(g, Returned(g))
  /\ UNCHANGED <<flowVars, connVars, calls, processUp>>

\* ReadJSON fails: the client left, sent no JSON, was silent for five
\* minutes, or the server closed the connection.
ReadError ==
  /\ pc[Handler] = "idle"
  /\ Goto(Handler, "close")
  /\ UNCHANGED <<flowVars, closeVars, closedMutex, connVars, calls, processUp>>

-----------------------------------------------------------------------------
(* writeLoop                                                               *)

\* Variation of WriteTake: the newest message is taken first.
WriteTakeNewest ==
  /\ pc[WriteLoop] = "recv"
  /\ queue # <<>>
  /\ inHand' = <<queue[Len(queue)]>>
  /\ queue' = SubSeq(queue, 1, Len(queue) - 1)
  /\ Goto(WriteLoop, "took")
  /\ UNCHANGED <<accepted, delivered, closeVars, closedMutex, connVars, calls,
                 processUp>>

\* A closed channel still hands out what it holds.
WriteTake ==
  /\ pc[WriteLoop] = "recv"
  /\ queue # <<>>
  /\ inHand' = <<Head(queue)>>
  /\ queue' = Tail(queue)
  /\ Goto(WriteLoop, "took")
  /\ UNCHANGED <<accepted, delivered, closeVars, closedMutex, connVars, calls,
                 processUp>>

WriteBegin ==
  /\ pc[WriteLoop] = "took"
  /\ StartWrite(WriteLoop)
  /\ Goto(WriteLoop, "write")
  /\ UNCHANGED <<flowVars, closeVars, closedMutex, calls, processUp>>

WriteOk ==
  /\ pc[WriteLoop] = "write"
  /\ connOpen
  /\ EndWrite(WriteLoop)
  /\ delivered' = delivered \o inHand
  /\ inHand' = <<>>
  /\ Goto(WriteLoop, "recv")
  /\ UNCHANGED <<queue, accepted, closeVars, closedMutex, calls, processUp>>

\* Variation of WriteError: the loop goes on with the next message.
WriteErrorContinues ==
  /\ pc[WriteLoop] = "write"
  /\ EndWrite(WriteLoop)
  /\ inHand' = <<>>
  /\ Goto(WriteLoop, "recv")
  /\ UNCHANGED <<queue, accepted, delivered, closeVars, closedMutex, calls,
                 processUp>>

\* The peer is gone, the ten second deadline passed, or the connection was
\* closed under the write: the message is lost and the loop calls Close.
WriteError ==
  /\ pc[WriteLoop] = "write"
  /\ EndWrite(WriteLoop)
  /\ Goto(WriteLoop, "close")
  /\ UNCHANGED <<flowVars, closeVars, closedMutex, calls, processUp>>

WritePanics ==
  /\ pc[WriteLoop] = "write"
  /\ WriteLoop \in clash
  /\ processUp' = FALSE
  /\ UNCHANGED <<flowVars, closeVars, closedMutex, connVars, pc, calls>>

\* range ends on a closed and drained channel; the deferred Close of the
\* connection runs.
WriteExit ==
  /\ pc[WriteLoop] = "recv"
  /\ queue = <<>>
  /\ chanClosed
  /\ connOpen' = FALSE
  /\ Goto(WriteLoop, "exited")
  /\ UNCHANGED <<flowVars, closeVars, closedMutex, writing, clash, calls,
                 processUp>>

-----------------------------------------------------------------------------

\* Nothing is left to do: every goroutine has returned or is between calls.
Stopped ==
  /\ \/ ~processUp
     \/ /\ pc[WriteLoop] = "exited"
        /\ pc[Handler] = "done"
        /\ \A c \in Callers : pc[c] \in {"idle", "panicked", "done"}
  /\ UNCHANGED vars

Sending(c) == SendEnqueue(c) \/ SendFull(c) \/ SendOnClosed(c)
SlowClosing(c) ==
  SlowWritten(c) \/ SlowWritePanics(c) \/ SlowCloseConn(c) \/ SlowFinish(c)
Writing ==
  WriteTake \/ WriteBegin \/ WriteOk \/ WriteError \/ WritePanics \/ WriteExit

Next ==
  \/ /\ processUp
     /\ \/ \E c \in Callers : SendCheck(c) \/ Sending(c)
        \/ \E c \in Callers : SlowLock(c) \/ SlowClosing(c)
        \/ \E g \in Goroutines : CloseLock(g) \/ CloseFinish(g)
        \/ ReadError
        \/ Writing
  \/ Stopped

(***************************************************************************)
(* Fairness.  A goroutine that can run is run; a write ends, at the latest *)
(* at its deadline; ReadJSON fails on a closed connection.  sync.Mutex     *)
(* hands itself to a waiter of more than a millisecond, so a lock that is  *)
(* free again and again is obtained: strong fairness.  No fairness for     *)
(* SendCheck (nobody has to publish) nor for a client that stays.          *)
(***************************************************************************)
Fairness ==
  /\ \A c \in Callers :
       /\ WF_vars(processUp /\ Sending(c))
       /\ WF_vars(processUp /\ SlowClosing(c))
       /\ SF_vars(processUp /\ SlowLock(c))
  /\ \A g \in {Handler, WriteLoop} :
       /\ SF_vars(processUp /\ CloseLock(g))
       /\ WF_vars(processUp /\ CloseFinish(g))
  /\ WF_vars(processUp /\ ~connOpen /\ ReadError)
  /\ WF_vars(processUp /\ Writing)

Safety == Init /\ [][Next]_vars

Spec == Safety /\ Fairness

-----------------------------------------------------------------------------
(* Properties                                                              *)

TypeOK ==
  /\ queue \in Seq(Messages) /\ Len(queue) <= QueueSize
  /\ chanClosed \in BOOLEAN
  /\ isClosedFlag \in BOOLEAN
  /\ closedMutex \in Goroutines \cup {NoOne}
  /\ connOpen \in BOOLEAN
  /\ writing \subseteq Goroutines
  /\ clash \subseteq writing
  /\ pc \in [Goroutines -> CallerLabels \cup WriterLabels]
  /\ \A c \in Callers : pc[c] \in CallerLabels
  /\ pc[WriteLoop] \in WriterLabels
  /\ calls \in [Callers -> 0..MaxCalls]
  /\ inHand \in Seq(Messages) /\ Len(inHand) <= 1
  /\ accepted \in Seq(Messages)
  /\ delivered \in Seq(Messages)
  /\ processUp \in BOOLEAN

\* The goroutines between the check of isClosedFlag and close(messageQueue).
Closing(g) == pc[g] \in {"slowWrite", "slowConn", "slowClosing", "closing"}

\* close(messageQueue) never runs on a closed channel, which would panic: a
\* goroutine on its way to it finds the channel open, and is alone, although
\* HandleSlowConsumer, Close from cleanup and Close from writeLoop race.
CloseOnce ==
  /\ \A g \in Goroutines : Closing(g) => ~chanClosed
  /\ \A g, h \in Goroutines : Closing(g) /\ Closing(h) => g = h

\* What SendMessage concludes from isClosedFlag is the truth whenever it can
\* read it: the flag says the channel is closed, and a closed channel has a
\* closed connection behind it (no writer keeps a socket nobody feeds).
FlagIsTruth ==
  /\ closedMutex = NoOne => (isClosedFlag <=> chanClosed)
  /\ chanClosed => ~connOpen

\* Every message SendMessage returned true for is delivered, with writeLoop,
\* or waiting, in the order of the sends: no sender overtakes another on the
\* way to the client, and nothing is delivered twice or dropped in between.
AcceptedAccounted == accepted = delivered \o inHand \o queue

\* The pipe this subscriber is to the others.
Phase == CASE chanClosed \/ ~processUp -> "closed"
           [] ~chanClosed /\ processUp /\ ~connOpen -> "broken"
           [] ~chanClosed /\ processUp /\ connOpen -> "open"

Pipe == INSTANCE MessagePipe WITH
          Payloads <- Messages, Capacity <- QueueSize, phase <- Phase

\* Subscriber implements the abstract pipe, fairness included: what was
\* accepted is delivered in order unless the connection closes.
RefinesPipe == Pipe!Spec

\* However the connection came to be closed (client, slow consumer policy,
\* write error), both goroutines of the client end and the subscriber is
\* marked closed: no goroutine is left waiting on the channel or the socket.
NoGoroutineLeak ==
  ~connOpen ~> \/ ~processUp
               \/ /\ isClosedFlag
                  /\ pc[WriteLoop] = "exited"
                  /\ pc[Handler] = "done"

\* A full queue ends with the subscriber closed, unless the write of the
\* error frame panicked in the sender.
SlowConsumerHandled ==
  \A c \in Callers :
    pc[c] = "slow" ~> isClosedFlag \/ pc[c] = "panicked" \/ ~processUp

\* README "Slow Consumer Protection": when a subscriber cannot keep up, its
\* connection is closed.
SlowConsumerDisconnected ==
  \A c \in Callers : pc[c] = "slow" ~> ~connOpen \/ ~processUp
=============================================================================
