-------------------------- MODULE SubscriberProofs --------------------------
(***************************************************************************)
(* Theorems about module Subscriber, for any set of callers, any queue size*)
(* and any number of calls.                                                *)
(***************************************************************************)
EXTENDS Subscriber, SequenceTheorems, TLAPS

\* A goroutine at the select of SendMessage has counted its call.
CallInProgress == \A c \in Callers : pc[c] = "select" => calls[c] >= 1

\* closedMutex is held exactly by the goroutine that is closing, and while it
\* closes neither the flag is set nor the channel closed.
HolderIsClosing ==
  /\ \A g \in Goroutines : Closing(g) <=> closedMutex = g
  /\ closedMutex # NoOne => ~isClosedFlag
  /\ isClosedFlag <=> chanClosed

\* The connection is closed before the channel.
ConnClosedFirst ==
  /\ chanClosed => ~connOpen
  /\ \A g \in Goroutines : pc[g] \in {"slowClosing", "closing"} => ~connOpen

TypeInv == TypeOK /\ CallInProgress
CloseInv == TypeInv /\ HolderIsClosing /\ ConnClosedFirst

LEMMA InitTypeInv == Init => TypeInv
  <1> SUFFICES ASSUME Init PROVE TypeInv
    OBVIOUS
  <1> USE GoroutinesAssumption, SizesAssumption DEF Init
  <1>1. <<>> \in Seq(Messages) /\ Len(<<>>) = 0
    OBVIOUS
  <1>2. /\ pc \in [Goroutines -> CallerLabels \cup WriterLabels]
        /\ \A c \in Callers : pc[c] = "idle"
        /\ pc[WriteLoop] = "recv"
    BY DEF Goroutines, CallerLabels, WriterLabels
  <1>3. calls \in [Callers -> 0..MaxCalls]
    OBVIOUS
  <1>4. CallInProgress
    BY <1>2 DEF CallInProgress
  <1>5. TypeOK
    <2>1. /\ queue \in Seq(Messages) /\ Len(queue) <= QueueSize
          /\ inHand \in Seq(Messages) /\ Len(inHand) <= 1
          /\ accepted \in Seq(Messages) /\ delivered \in Seq(Messages)
      BY <1>1
    <2>2. /\ pc \in [Goroutines -> CallerLabels \cup WriterLabels]
          /\ \A c \in Callers : pc[c] \in CallerLabels
          /\ pc[WriteLoop] \in WriterLabels
      BY <1>2 DEF CallerLabels, WriterLabels
    <2> QED
      BY <2>1, <2>2, <1>3 DEF TypeOK
  <1> QED
    BY <1>4, <1>5 DEF TypeInv

\* What a step of another kind than the sends leaves of the typing.
LEMMA NextTypeInv == TypeInv /\ [Next]_vars => TypeInv'
  <1> USE GoroutinesAssumption, SizesAssumption DEF Goroutines
  <1> SUFFICES ASSUME TypeInv, [Next]_vars PROVE TypeInv'
    OBVIOUS
  <1> USE DEF TypeInv, TypeOK, CallInProgress, CallerLabels, WriterLabels,
              Goto, flowVars, closeVars, connVars
  <1>1. ASSUME NEW c \in Callers, SendCheck(c) PROVE TypeInv'
    <2>1. calls' \in [Callers -> 0..MaxCalls] /\ calls'[c] >= 1
      <3>1. calls[c] \in Nat /\ calls[c] + 1 \in 0..MaxCalls
        BY <1>1 DEF SendCheck
      <3> QED
        BY <1>1, <3>1 DEF SendCheck
    <2>2. CASE isClosedFlag
      BY <1>1, <2>1, <2>2 DEF SendCheck
    <2>3. CASE ~isClosedFlag
      <3>1. pc' \in [Goroutines -> CallerLabels \cup WriterLabels]
        BY <1>1, <2>3 DEF SendCheck
      <3>2. /\ \A d \in Callers : pc'[d] \in CallerLabels
            /\ pc'[WriteLoop] \in WriterLabels
        BY <1>1, <2>3 DEF SendCheck
      <3>3. CallInProgress'
        BY <1>1, <2>1, <2>3 DEF SendCheck
      <3> QED
        BY <1>1, <2>1, <3>1, <3>2, <3>3 DEF SendCheck
    <2> QED
      BY <2>2, <2>3
  <1>2. ASSUME NEW c \in Callers, SendEnqueue(c) PROVE TypeInv'
    <2>1. <<c, calls[c]>> \in Messages
      BY <1>2 DEF SendEnqueue, Messages
    <2>2. /\ queue' \in Seq(Messages) /\ Len(queue') = Len(queue) + 1
          /\ accepted' \in Seq(Messages)
      BY <1>2, <2>1, AppendProperties DEF SendEnqueue
    <2> QED
      BY <1>2, <2>2, SMTT(30) DEF SendEnqueue
  <1>3. ASSUME NEW c \in Callers, SendFull(c) PROVE TypeInv'
    BY <1>3 DEF SendFull
  <1>4. ASSUME NEW c \in Callers, SendOnClosed(c) PROVE TypeInv'
    BY <1>4 DEF SendOnClosed, Unwind
  <1>5. ASSUME NEW c \in Callers, SlowLock(c) PROVE TypeInv'
    BY <1>5 DEF SlowLock, StartWrite
  <1>6. ASSUME NEW c \in Callers, SlowWritten(c) PROVE TypeInv'
    BY <1>6 DEF SlowWritten, EndWrite
  <1>7. ASSUME NEW c \in Callers, SlowWritePanics(c) PROVE TypeInv'
    BY <1>7 DEF SlowWritePanics, EndWrite, Unwind
  <1>8. ASSUME NEW c \in Callers, SlowCloseConn(c) PROVE TypeInv'
    BY <1>8 DEF SlowCloseConn
  <1>9. ASSUME NEW c \in Callers, SlowFinish(c) PROVE TypeInv'
    BY <1>9 DEF SlowFinish
  <1>10. ASSUME NEW g \in Goroutines, CloseLock(g) PROVE TypeInv'
    BY <1>10 DEF CloseLock, Returned
  <1>11. ASSUME NEW g \in Goroutines, CloseFinish(g) PROVE TypeInv'
    BY <1>11 DEF CloseFinish, Returned
  <1>12. ASSUME ReadError PROVE TypeInv'
    BY <1>12 DEF ReadError
  <1>13. ASSUME WriteTake PROVE TypeInv'
    <2>1. /\ Head(queue) \in Messages
          /\ queue' \in Seq(Messages) /\ Len(queue') = Len(queue) - 1
      BY <1>13, HeadTailProperties DEF WriteTake
    <2>2. inHand' \in Seq(Messages) /\ Len(inHand') = 1
      BY <1>13, <2>1 DEF WriteTake
    <2> QED
      BY <1>13, <2>1, <2>2 DEF WriteTake
  <1>14. ASSUME WriteBegin PROVE TypeInv'
    BY <1>14 DEF WriteBegin, StartWrite
  <1>15. ASSUME WriteOk PROVE TypeInv'
    <2>1. delivered' \in Seq(Messages)
      BY <1>15, ConcatProperties DEF WriteOk
    <2> QED
      BY <1>15, <2>1 DEF WriteOk, EndWrite
  <1>16. ASSUME WriteError PROVE TypeInv'
    BY <1>16 DEF WriteError, EndWrite
  <1>17. ASSUME WritePanics PROVE TypeInv'
    BY <1>17 DEF WritePanics
  <1>18. ASSUME WriteExit PROVE TypeInv'
    BY <1>18 DEF WriteExit
  <1>19. CASE UNCHANGED vars
    BY <1>19 DEF vars
  <1> QED
    BY <1>1, <1>2, <1>3, <1>4, <1>5, <1>6, <1>7, <1>8, <1>9, <1>10, <1>11,
       <1>12, <1>13, <1>14, <1>15, <1>16, <1>17, <1>18, <1>19
       DEF Next, Sending, SlowClosing, Writing, Stopped

\* Type correctness of the subscriber: in particular the channel never holds
\* more than QueueSize messages, whoever sends (subscriber.go, messageQueue).
THEOREM TypeCorrect == Safety => []TypeOK
  <1>1. TypeInv => TypeOK
    BY DEF TypeInv
  <1> QED
    BY <1>1, InitTypeInv, NextTypeInv, PTL DEF Safety

-----------------------------------------------------------------------------

LEMMA InitCloseInv == Init => CloseInv
  <1> SUFFICES ASSUME Init PROVE CloseInv
    OBVIOUS
  <1> USE GoroutinesAssumption
  <1>1. \A g \in Goroutines : pc[g] \in {"idle", "recv"} /\ g # NoOne
    BY DEF Init, Goroutines
  <1>2. HolderIsClosing
    BY <1>1 DEF Init, HolderIsClosing, Closing
  <1>3. ConnClosedFirst
    BY <1>1 DEF Init, ConnClosedFirst
  <1> QED
    BY <1>2, <1>3, InitTypeInv DEF CloseInv

\* A goroutine that moves between two labels outside the closing section,
\* leaving the mutex and what it protects alone, disturbs nothing.
LEMMA MoveOutside ==
  ASSUME CloseInv, NEW g \in Goroutines, NEW label,
         Goto(g, label), ~Closing(g),
         label \notin {"slowWrite", "slowConn", "slowClosing", "closing"},
         UNCHANGED <<chanClosed, isClosedFlag, closedMutex>>,
         connOpen' = connOpen \/ connOpen' = FALSE
  PROVE  HolderIsClosing' /\ ConnClosedFirst'
  <1> USE DEF CloseInv, TypeInv, TypeOK, Goto, Closing
  <1>1. \A h \in Goroutines : pc'[h] = IF h = g THEN label ELSE pc[h]
    OBVIOUS
  <1>2. HolderIsClosing'
    BY <1>1 DEF HolderIsClosing
  <1>3. ConnClosedFirst'
    BY <1>1 DEF ConnClosedFirst
  <1> QED
    BY <1>2, <1>3

\* Entering, moving inside and leaving the closing section.
LEMMA EnterClosing ==
  ASSUME CloseInv, NEW g \in Goroutines, NEW label,
         Goto(g, label), closedMutex = NoOne, closedMutex' = g, ~isClosedFlag,
         UNCHANGED <<chanClosed, isClosedFlag>>,
         \/ label = "slowWrite" /\ connOpen' = connOpen
         \/ label = "closing" /\ connOpen' = FALSE
  PROVE  HolderIsClosing' /\ ConnClosedFirst'
  <1> USE GoroutinesAssumption
      DEF CloseInv, TypeInv, TypeOK, Goto, Closing, Goroutines
  <1>1. \A h \in Goroutines : pc'[h] = IF h = g THEN label ELSE pc[h]
    OBVIOUS
  <1>2. g # NoOne /\ \A h \in Goroutines : ~Closing(h)
    BY DEF HolderIsClosing
  <1>3. HolderIsClosing'
    BY <1>1, <1>2 DEF HolderIsClosing
  <1>4. ConnClosedFirst'
    BY <1>1, <1>2 DEF ConnClosedFirst
  <1> QED
    BY <1>3, <1>4

LEMMA LeaveClosing ==
  ASSUME CloseInv, NEW g \in Goroutines, NEW label,
         Goto(g, label), Closing(g), closedMutex' = NoOne,
         label \notin {"slowWrite", "slowConn", "slowClosing", "closing"},
         connOpen' = connOpen,
         \/ UNCHANGED <<chanClosed, isClosedFlag>>
         \/ chanClosed' /\ isClosedFlag' /\ ~connOpen
  PROVE  HolderIsClosing' /\ ConnClosedFirst'
  <1> USE GoroutinesAssumption
      DEF CloseInv, TypeInv, TypeOK, Goto, Closing, Goroutines
  <1>1. \A h \in Goroutines : pc'[h] = IF h = g THEN label ELSE pc[h]
    OBVIOUS
  <1>2. closedMutex = g /\ \A h \in Goroutines : Closing(h) => h = g
    BY DEF HolderIsClosing
  <1>3. \A h \in Goroutines : ~Closing(h)' /\ h # NoOne
    BY <1>1, <1>2
  <1>4. HolderIsClosing'
    BY <1>3 DEF HolderIsClosing
  <1>5. ConnClosedFirst'
    BY <1>3 DEF ConnClosedFirst
  <1> QED
    BY <1>4, <1>5

LEMMA NextCloseInv == CloseInv /\ [Next]_vars => CloseInv'
  <1> SUFFICES ASSUME CloseInv, [Next]_vars PROVE CloseInv'
    OBVIOUS
  <1> DEFINE Goal == HolderIsClosing' /\ ConnClosedFirst'
  <1> USE DEF flowVars, closeVars, connVars
  <1>0. Callers \subseteq Goroutines /\ WriteLoop \in Goroutines
        /\ Handler \in Goroutines
    BY GoroutinesAssumption DEF Goroutines
  <1>1. ASSUME NEW c \in Callers, SendCheck(c) PROVE Goal
    <2>1. CASE isClosedFlag
      BY <1>1, <2>1
         DEF SendCheck, CloseInv, HolderIsClosing, ConnClosedFirst, Closing
    <2>2. CASE ~isClosedFlag
      BY <1>0, <1>1, <2>2, MoveOutside DEF SendCheck, Closing
    <2> QED
      BY <2>1, <2>2
  <1>2. ASSUME NEW c \in Callers, Sending(c) PROVE Goal
    BY <1>0, <1>2, MoveOutside
       DEF Sending, SendEnqueue, SendFull, SendOnClosed, Unwind, Closing
  <1>3. ASSUME NEW c \in Callers, SlowLock(c) PROVE Goal
    <2>1. CASE isClosedFlag
      BY <1>0, <1>3, <2>1, MoveOutside DEF SlowLock, Closing
    <2>2. CASE ~isClosedFlag
      BY <1>0, <1>3, <2>2, EnterClosing DEF SlowLock, StartWrite
    <2> QED
      BY <2>1, <2>2
  <1>4. ASSUME NEW c \in Callers, SlowWritten(c) PROVE Goal
    BY <1>0, <1>4
       DEF SlowWritten, EndWrite, Goto, CloseInv, TypeInv, TypeOK,
           HolderIsClosing, ConnClosedFirst, Closing
  <1>5. ASSUME NEW c \in Callers, SlowWritePanics(c) PROVE Goal
    BY <1>0, <1>5, LeaveClosing DEF SlowWritePanics, EndWrite, Unwind, Closing
  <1>6. ASSUME NEW c \in Callers, SlowCloseConn(c) PROVE Goal
    BY <1>0, <1>6
       DEF SlowCloseConn, Goto, CloseInv, TypeInv, TypeOK,
           HolderIsClosing, ConnClosedFirst, Closing
  <1>7. ASSUME NEW c \in Callers, SlowFinish(c) PROVE Goal
    <2>1. Closing(c) /\ ~connOpen
      BY <1>0, <1>7 DEF SlowFinish, Closing, CloseInv, ConnClosedFirst
    <2> QED
      BY <1>0, <1>7, <2>1, LeaveClosing DEF SlowFinish
  <1>8. ASSUME NEW g \in Goroutines, CloseLock(g) PROVE Goal
    <2>1. CASE isClosedFlag
      BY <1>8, <2>1, MoveOutside DEF CloseLock, Closing, Returned
    <2>2. CASE ~isClosedFlag
      BY <1>8, <2>2, EnterClosing DEF CloseLock
    <2> QED
      BY <2>1, <2>2
  <1>9. ASSUME NEW g \in Goroutines, CloseFinish(g) PROVE Goal
    <2>1. Closing(g) /\ ~connOpen
      BY <1>9 DEF CloseFinish, Closing, CloseInv, ConnClosedFirst
    <2>2. Returned(g) \in {"exited", "done"}
      BY DEF Returned
    <2> QED
      BY <1>9, <2>1, <2>2, LeaveClosing DEF CloseFinish
  <1>10. ASSUME ReadError PROVE Goal
    BY <1>0, <1>10, MoveOutside DEF ReadError, Closing
  <1>11. ASSUME Writing PROVE Goal
    <2>1. CASE WritePanics
      BY <2>1
         DEF WritePanics, CloseInv, HolderIsClosing, ConnClosedFirst, Closing
    <2>2. CASE WriteTake \/ WriteBegin \/ WriteOk \/ WriteError \/ WriteExit
      BY <1>0, <2>2, MoveOutside
         DEF WriteTake, WriteBegin, WriteOk, WriteError, WriteExit,
             StartWrite, EndWrite, Closing
    <2> QED
      BY <1>11, <2>1, <2>2 DEF Writing
  <1>12. ASSUME UNCHANGED vars PROVE Goal
    <2>1. UNCHANGED <<pc, closedMutex, isClosedFlag, chanClosed, connOpen>>
      BY <1>12 DEF vars
    <2>2. HolderIsClosing'
      BY <2>1 DEF CloseInv, HolderIsClosing, Closing
    <2>3. ConnClosedFirst'
      BY <2>1 DEF CloseInv, ConnClosedFirst
    <2> QED
      BY <2>2, <2>3
  <1>13. TypeInv'
    BY NextTypeInv DEF CloseInv
  <1> QED
    BY <1>1, <1>2, <1>3, <1>4, <1>5, <1>6, <1>7, <1>8, <1>9, <1>10, <1>11,
       <1>12, <1>13 DEF Next, SlowClosing, Stopped, CloseInv

LEMMA CloseInvHolds == Safety => []CloseInv
  BY InitCloseInv, NextCloseInv, PTL DEF Safety

\* However many goroutines close the subscriber at once (the slow consumer
\* policy of several publishers, cleanupSubscriber, a failing writeLoop),
\* close(messageQueue) runs on an open channel and in one goroutine.
THEOREM ClosedOnce == Safety => []CloseOnce
  <1>1. CloseInv => CloseOnce
    BY GoroutinesAssumption
       DEF CloseInv, HolderIsClosing, CloseOnce, Goroutines
  <1> QED
    BY <1>1, CloseInvHolds, PTL

\* isClosedFlag, read under closedMutex, is the state of the channel, and a
\* closed channel has a closed connection behind it.
THEOREM FlagTruthful == Safety => []FlagIsTruth
  <1>1. CloseInv => FlagIsTruth
    BY DEF CloseInv, HolderIsClosing, ConnClosedFirst, FlagIsTruth
  <1> QED
    BY <1>1, CloseInvHolds, PTL

-----------------------------------------------------------------------------

\* Facts about sequences, stated apart from the state they are used in: what
\* is behind two sequences can be joined first.
LEMMA ConcatFour ==
  ASSUME NEW S, NEW d \in Seq(S), NEW h \in Seq(S), NEW q \in Seq(S),
         NEW e \in Seq(S)
  PROVE  (((d \o h) \o q) \o e) = (d \o h) \o (q \o e)
  <1> DEFINE r == d \o h
  <1>1. r \in Seq(S)
    BY ConcatProperties, SMTT(60)
  <1> HIDE DEF r
  <1>2. (r \o q) \o e = r \o (q \o e)
    BY <1>1, ConcatAssociative, SMTT(60)
  <1> QED
    BY <1>2 DEF r

\* A queue is its first message followed by the rest.
LEMMA HeadJoinsTail ==
  ASSUME NEW S, NEW q \in Seq(S), q # <<>>
  PROVE  <<Head(q)>> \o Tail(q) = q
  <1> DEFINE r == <<Head(q)>> \o Tail(q)
  <1>1. /\ Head(q) = q[1] /\ Head(q) \in S
        /\ Tail(q) \in Seq(S) /\ Len(Tail(q)) = Len(q) - 1
        /\ \A i \in 1..(Len(q) - 1) : Tail(q)[i] = q[i + 1]
        /\ Len(q) \in Nat \ {0}
    BY HeadTailProperties, EmptySeq
  <1>2. /\ <<Head(q)>> \in Seq(S) /\ Len(<<Head(q)>>) = 1
        /\ <<Head(q)>>[1] = q[1]
    BY <1>1
  <1>3. r \in Seq(S) /\ Len(r) = Len(q)
    BY <1>1, <1>2, ConcatProperties
  <1>4. ASSUME NEW i \in 1..Len(q) PROVE r[i] = q[i]
    <2>1. r[i] = IF i <= 1 THEN <<Head(q)>>[i] ELSE Tail(q)[i - 1]
      BY <1>1, <1>2, ConcatProperties
    <2>2. CASE i = 1
      BY <1>2, <2>1, <2>2
    <2>3. CASE i # 1
      <3>1. i - 1 \in 1..(Len(q) - 1) /\ (i - 1) + 1 = i /\ ~(i <= 1)
        BY <1>1, <2>3
      <3> QED
        BY <1>1, <2>1, <3>1
    <2> QED
      BY <2>2, <2>3
  <1> QED
    BY <1>3, <1>4, SeqEqual

\* While writeLoop waits for a message it has none in hand, and it has one
\* from the receive until the write has succeeded.
HandIsUsed ==
  /\ pc[WriteLoop] = "recv" => inHand = <<>>
  /\ pc[WriteLoop] \in {"took", "write"} => Len(inHand) = 1

FlowInv == TypeInv /\ HandIsUsed /\ AcceptedAccounted

LEMMA InitFlowInv == Init => FlowInv
  <1>1. ASSUME Init PROVE HandIsUsed /\ AcceptedAccounted
    BY <1>1 DEF Init, HandIsUsed, AcceptedAccounted, Goroutines
  <1> QED
    BY <1>1, InitTypeInv DEF FlowInv

LEMMA NextFlowInv == FlowInv /\ [Next]_vars => FlowInv'
  <1> SUFFICES ASSUME FlowInv, [Next]_vars PROVE FlowInv'
    OBVIOUS
  <1> DEFINE Goal == HandIsUsed' /\ AcceptedAccounted'
  <1> USE DEF flowVars, closeVars, connVars
  <1>0. /\ pc \in [Goroutines -> CallerLabels \cup WriterLabels]
        /\ {queue, inHand, accepted, delivered} \subseteq Seq(Messages)
        /\ WriteLoop \in Goroutines /\ WriteLoop \notin Callers
        /\ Handler \in Callers
    BY GoroutinesAssumption DEF FlowInv, TypeInv, TypeOK, Goroutines
  \* A step that leaves the messages alone and moves another goroutine, or
  \* moves writeLoop elsewhere than to the loop.
  <1>1. ASSUME NEW g \in Goroutines, NEW label, Goto(g, label),
               g = WriteLoop => \/ label \notin {"recv", "took", "write"}
                                \/ pc[g] = "took" /\ label = "write",
               UNCHANGED flowVars
        PROVE  Goal
    BY <1>0, <1>1 DEF Goto, FlowInv, HandIsUsed, AcceptedAccounted
  <1>2. ASSUME UNCHANGED <<pc, queue, inHand, accepted, delivered>>
        PROVE  Goal
    BY <1>2 DEF FlowInv, HandIsUsed, AcceptedAccounted
  <1>3. ASSUME NEW c \in Callers, SendCheck(c) \/ SendFull(c) \/ SendOnClosed(c)
        PROVE  Goal
    <2> c \in Goroutines /\ c # WriteLoop
      BY <1>0 DEF Goroutines
    <2> QED
      BY <1>1, <1>2, <1>3 DEF SendCheck, SendFull, SendOnClosed
  <1>4. ASSUME NEW c \in Callers, SendEnqueue(c) PROVE Goal
    <2> DEFINE m == <<c, calls[c]>>
    <2>1. m \in Messages
      BY <1>4 DEF SendEnqueue, FlowInv, TypeInv, TypeOK, CallInProgress,
                  Messages
    <2>2. /\ queue' = queue \o <<m>>
          /\ accepted' = accepted \o <<m>>
          /\ <<m>> \in Seq(Messages)
      <3>1. queue' = Append(queue, m) /\ accepted' = Append(accepted, m)
        BY <1>4 DEF SendEnqueue
      <3> HIDE DEF m
      <3>2. queue \in Seq(Messages) /\ accepted \in Seq(Messages)
        BY <1>0
      <3>3. /\ Append(queue, m) = queue \o <<m>>
            /\ Append(accepted, m) = accepted \o <<m>>
        BY <2>1, <3>2, AppendIsConcat
      <3> QED
        BY <2>1, <3>1, <3>3
    <2>3. AcceptedAccounted'
      <3>1. accepted = (delivered \o inHand) \o queue
        BY DEF FlowInv, AcceptedAccounted
      <3>2. (((delivered \o inHand) \o queue) \o <<m>>)
              = (delivered \o inHand) \o (queue \o <<m>>)
        <4>1. delivered \in Seq(Messages) /\ inHand \in Seq(Messages)
          BY <1>0
        <4>2. queue \in Seq(Messages) /\ <<m>> \in Seq(Messages)
          BY <1>0, <2>2
        <4> HIDE DEF m
        <4> QED
          BY <4>1, <4>2, ConcatFour, SMTT(60)
      <3> QED
        BY <1>4, <2>2, <3>1, <3>2 DEF SendEnqueue, AcceptedAccounted
    <2>4. HandIsUsed'
      BY <1>0, <1>4 DEF SendEnqueue, Goto, FlowInv, HandIsUsed
    <2> QED
      BY <2>3, <2>4
  <1>5. ASSUME NEW c \in Callers, SlowLock(c) \/ SlowClosing(c) PROVE Goal
    <2> c \in Goroutines /\ c # WriteLoop
      BY <1>0 DEF Goroutines
    <2> QED
      BY <1>1, <1>5 DEF SlowLock, SlowClosing, SlowWritten, SlowWritePanics,
                        SlowCloseConn, SlowFinish
  <1>6. ASSUME NEW g \in Goroutines, CloseLock(g) \/ CloseFinish(g)
        PROVE  Goal
    BY <1>1, <1>6 DEF CloseLock, CloseFinish, Returned
  <1>7. ASSUME ReadError PROVE Goal
    <2> Handler \in Goroutines /\ Handler # WriteLoop
      BY <1>0 DEF Goroutines
    <2> QED
      BY <1>1, <1>7 DEF ReadError
  <1>8. ASSUME WriteTake PROVE Goal
    <2>1. /\ inHand = <<>> /\ queue # <<>>
          /\ inHand' = <<Head(queue)>> /\ queue' = Tail(queue)
          /\ UNCHANGED <<accepted, delivered>>
      BY <1>8 DEF WriteTake, FlowInv, HandIsUsed
    <2>2. inHand' \in Seq(Messages) /\ queue' \in Seq(Messages)
      BY <1>0, <2>1, HeadTailProperties
    <2>3. inHand' \o queue' = queue
      <3>1. queue \in Seq(Messages) /\ queue # <<>>
        BY <1>0, <2>1
      <3>2. <<Head(queue)>> \o Tail(queue) = queue
        BY <3>1, HeadJoinsTail
      <3> QED
        BY <2>1, <3>2
    <2>4. delivered \o inHand = delivered
      BY <1>0, <2>1, ConcatEmptySeq
    <2>5. (delivered \o inHand') \o queue' = delivered \o (inHand' \o queue')
      BY <1>0, <2>2, ConcatAssociative, SMTT(60)
    <2>6. AcceptedAccounted'
      BY <2>1, <2>3, <2>4, <2>5 DEF FlowInv, AcceptedAccounted
    <2>7. HandIsUsed'
      BY <1>0, <1>8, <2>1 DEF WriteTake, Goto, HandIsUsed
    <2> QED
      BY <2>6, <2>7
  <1>9. ASSUME WriteOk PROVE Goal
    <2>1. /\ delivered' = delivered \o inHand /\ inHand' = <<>>
          /\ UNCHANGED <<accepted, queue>>
      BY <1>9 DEF WriteOk
    <2>2. (delivered \o inHand) \o <<>> = delivered \o inHand
      BY <1>0, ConcatProperties, ConcatEmptySeq
    <2>3. AcceptedAccounted'
      BY <2>1, <2>2 DEF FlowInv, AcceptedAccounted
    <2>4. HandIsUsed'
      BY <1>0, <1>9, <2>1 DEF WriteOk, Goto, HandIsUsed
    <2> QED
      BY <2>3, <2>4
  <1>10. ASSUME WriteBegin \/ WriteError \/ WriteExit PROVE Goal
    BY <1>0, <1>1, <1>10 DEF WriteBegin, WriteError, WriteExit
  <1>11. ASSUME WritePanics \/ UNCHANGED vars PROVE Goal
    BY <1>2, <1>11 DEF WritePanics, vars
  <1>12. TypeInv'
    BY NextTypeInv DEF FlowInv
  <1> QED
    BY <1>3, <1>4, <1>5, <1>6, <1>7, <1>8, <1>9, <1>10, <1>11, <1>12
       DEF Next, Sending, Writing, Stopped, FlowInv

\* What SendMessage accepted is delivered, in writeLoop's hand or queued, in
\* the order of the sends, for any number of concurrent senders.
THEOREM NothingLostInQueue == Safety => []AcceptedAccounted
  <1>1. FlowInv => AcceptedAccounted
    BY DEF FlowInv
  <1> QED
    BY <1>1, InitFlowInv, NextFlowInv, PTL DEF Safety

-----------------------------------------------------------------------------

LEMMA PhaseInit == Init => Pipe!Init
  BY DEF Init, Pipe!Init, Phase

\* A step that leaves the histories, the connection, the channel and the
\* process as they are is a stutter of the pipe.
LEMMA PipeStutter ==
  ASSUME UNCHANGED <<accepted, delivered, chanClosed, processUp, connOpen>>
  PROVE  UNCHANGED Pipe!pipeVars
  BY DEF Pipe!pipeVars, Phase

LEMMA AcceptStep ==
  ASSUME FlowInv, CloseInv, processUp, NEW c \in Callers, SendEnqueue(c)
  PROVE  Pipe!Next
  <1> DEFINE m == <<c, calls[c]>>
  <1> USE DEF flowVars, closeVars, connVars
  <1>1. m \in Messages
    BY DEF SendEnqueue, FlowInv, TypeInv, TypeOK, CallInProgress, Messages
  <1>2. Phase # "closed" /\ Phase' = Phase
    BY DEF SendEnqueue, Phase, CloseInv, TypeInv, TypeOK
  <1>3. Len(accepted) - Len(delivered) <= QueueSize
    <2>1. /\ queue \in Seq(Messages) /\ Len(queue) < QueueSize
          /\ inHand \in Seq(Messages) /\ Len(inHand) <= 1
          /\ delivered \in Seq(Messages)
      BY DEF SendEnqueue, FlowInv, TypeInv, TypeOK
    <2>2. /\ delivered \o inHand \in Seq(Messages)
          /\ Len(delivered \o inHand) = Len(delivered) + Len(inHand)
      BY <2>1, ConcatProperties
    <2>3. Len((delivered \o inHand) \o queue)
            = Len(delivered) + Len(inHand) + Len(queue)
      BY <2>1, <2>2, ConcatProperties
    <2>4. Len(accepted) = Len(delivered) + Len(inHand) + Len(queue)
      BY <2>3 DEF FlowInv, AcceptedAccounted
    <2>5. /\ Len(queue) \in Nat /\ Len(inHand) \in Nat
          /\ Len(delivered) \in Nat
      BY <2>1
    <2> QED
      BY <2>1, <2>4, <2>5, SizesAssumption
  <1>4. Pipe!Accept(m)
    BY <1>2, <1>3 DEF SendEnqueue, Pipe!Accept
  <1> QED
    BY <1>1, <1>4 DEF Pipe!Next

LEMMA DeliverStep ==
  ASSUME FlowInv, CloseInv, processUp, WriteOk
  PROVE  Pipe!Next
  <1> USE DEF flowVars, closeVars, connVars
  <1>1. /\ queue \in Seq(Messages) /\ inHand \in Seq(Messages)
        /\ delivered \in Seq(Messages) /\ Len(inHand) = 1
    BY DEF WriteOk, FlowInv, TypeInv, TypeOK, HandIsUsed
  <1>2. Phase = "open" /\ Phase' = Phase
    BY DEF WriteOk, EndWrite, Phase, CloseInv, ConnClosedFirst, TypeInv, TypeOK
  <1>3. /\ delivered \o inHand \in Seq(Messages)
        /\ Len(delivered \o inHand) = Len(delivered) + 1
        /\ (delivered \o inHand)[Len(delivered) + 1] = inHand[1]
    BY <1>1, ConcatProperties
  <1>4. /\ Len((delivered \o inHand) \o queue) >= Len(delivered) + 1
        /\ ((delivered \o inHand) \o queue)[Len(delivered) + 1] = inHand[1]
    <2>1. Len(delivered) \in Nat /\ Len(queue) \in Nat
      BY <1>1
    <2> QED
      BY <1>1, <1>3, <2>1, ConcatProperties
  <1>5. /\ Len(delivered) < Len(accepted)
        /\ accepted[Len(delivered) + 1] = inHand[1]
    <2>1. accepted = (delivered \o inHand) \o queue
      BY DEF FlowInv, AcceptedAccounted
    <2>2. accepted \in Seq(Messages) /\ Len(accepted) \in Nat
      BY DEF FlowInv, TypeInv, TypeOK
    <2> QED
      BY <1>1, <1>4, <2>1, <2>2
  <1>6. delivered \o inHand = Append(delivered, inHand[1])
    <2>1. inHand[1] \in Messages
      BY <1>1
    <2>2. <<inHand[1]>> \in Seq(Messages)
      BY <2>1
    <2>3. inHand = <<inHand[1]>>
      BY <1>1, <2>1, <2>2, SeqEqual
    <2>4. Append(delivered, inHand[1]) = delivered \o <<inHand[1]>>
      BY <1>1, <2>1, AppendIsConcat
    <2> QED
      BY <2>3, <2>4
  <1>7. Pipe!Deliver
    BY <1>2, <1>5, <1>6 DEF WriteOk, Pipe!Deliver
  <1> QED
    BY <1>7 DEF Pipe!Next

\* The server closes the connection, if it has not been closed before.
LEMMA BreakStep ==
  ASSUME CloseInv, processUp, ~chanClosed,
         UNCHANGED <<accepted, delivered, chanClosed, processUp>>, ~connOpen'
  PROVE  [Pipe!Next]_(Pipe!pipeVars)
  <1>1. CASE connOpen
    <2>1. Pipe!Break
      BY <1>1 DEF Pipe!Break, Phase
    <2> QED
      BY <2>1 DEF Pipe!Next
  <1>2. CASE ~connOpen
    BY <1>2 DEF Pipe!pipeVars, Phase
  <1> QED
    BY <1>1, <1>2

LEMMA ShutStep ==
  ASSUME processUp, ~chanClosed, ~connOpen, chanClosed',
         UNCHANGED <<accepted, delivered, connOpen, processUp>>
  PROVE  Pipe!Next
  <1>1. Pipe!Shut
    BY DEF Pipe!Shut, Phase
  <1> QED
    BY <1>1 DEF Pipe!Next

LEMMA PipeStep ==
  ASSUME FlowInv, CloseInv, [Next]_vars
  PROVE  [Pipe!Next]_(Pipe!pipeVars)
  <1> DEFINE Goal == [Pipe!Next]_(Pipe!pipeVars)
  <1> USE DEF flowVars, closeVars, connVars
  <1>1. ASSUME processUp, NEW c \in Callers, SendCheck(c) \/ Sending(c)
        PROVE  Goal
    BY <1>1, AcceptStep, PipeStutter
       DEF SendCheck, Sending, SendFull, SendOnClosed
  <1>2. ASSUME processUp, NEW c \in Callers, SlowLock(c) \/ SlowClosing(c)
        PROVE  Goal
    <2>1. CASE SlowLock(c) \/ SlowWritten(c) \/ SlowWritePanics(c)
      BY <2>1, PipeStutter
         DEF SlowLock, SlowWritten, SlowWritePanics, StartWrite, EndWrite
    <2>2. CASE SlowCloseConn(c)
      <3>1. ~chanClosed
        BY <2>2, GoroutinesAssumption
           DEF SlowCloseConn, CloseInv, HolderIsClosing, Closing, Goroutines
      <3> QED
        BY <1>2, <2>2, <3>1, BreakStep DEF SlowCloseConn
    <2>3. CASE SlowFinish(c)
      <3>1. ~chanClosed /\ ~connOpen
        BY <2>3, GoroutinesAssumption
           DEF SlowFinish, CloseInv, HolderIsClosing, ConnClosedFirst,
               Closing, Goroutines
      <3> QED
        BY <1>2, <2>3, <3>1, ShutStep DEF SlowFinish
    <2> QED
      BY <1>2, <2>1, <2>2, <2>3 DEF SlowClosing
  <1>3. ASSUME processUp, NEW g \in Goroutines, CloseLock(g) PROVE Goal
    <2>1. CASE isClosedFlag
      BY <1>3, <2>1, PipeStutter DEF CloseLock
    <2>2. CASE ~isClosedFlag
      <3>1. ~chanClosed
        BY <2>2 DEF CloseInv, HolderIsClosing
      <3> QED
        BY <1>3, <2>2, <3>1, BreakStep DEF CloseLock
    <2> QED
      BY <2>1, <2>2
  <1>4. ASSUME processUp, NEW g \in Goroutines, CloseFinish(g) PROVE Goal
    <2>1. ~chanClosed /\ ~connOpen
      BY <1>4, GoroutinesAssumption
         DEF CloseFinish, CloseInv, HolderIsClosing, ConnClosedFirst,
             Closing, Goroutines
    <2> QED
      BY <1>4, <2>1, ShutStep DEF CloseFinish
  <1>5. ASSUME ReadError PROVE Goal
    BY <1>5, PipeStutter DEF ReadError
  <1>6. ASSUME processUp, Writing PROVE Goal
    <2>1. CASE WriteTake \/ WriteBegin \/ WriteError
      BY <2>1, PipeStutter
         DEF WriteTake, WriteBegin, WriteError, StartWrite, EndWrite
    <2>2. CASE WriteOk
      BY <1>6, <2>2, DeliverStep
    <2>3. CASE WritePanics
      <3>1. CASE chanClosed
        BY <2>3, <3>1 DEF WritePanics, Pipe!pipeVars, Phase
      <3>2. CASE ~chanClosed
        <4>1. Pipe!Crash
          BY <1>6, <2>3, <3>2
             DEF WritePanics, Pipe!Crash, Phase, CloseInv, TypeInv, TypeOK
        <4> QED
          BY <4>1 DEF Pipe!Next
      <3> QED
        BY <3>1, <3>2
    <2>4. CASE WriteExit
      BY <2>4 DEF WriteExit, Pipe!pipeVars, Phase
    <2> QED
      BY <1>6, <2>1, <2>2, <2>3, <2>4 DEF Writing
  <1>7. CASE UNCHANGED vars
    BY <1>7, PipeStutter DEF vars
  <1> QED
    BY <1>1, <1>2, <1>3, <1>4, <1>5, <1>6, <1>7 DEF Next, Stopped

\* The goroutines, the mutex, the channel and the socket of subscriber.go
\* implement the abstract pipe: in-order, bounded, no duplicate, no hole,
\* nothing after the connection broke (its safety part).
THEOREM ImplementsPipe == Safety => Pipe!Safety
  <1>1. FlowInv /\ CloseInv /\ [Next]_vars => [Pipe!Next]_(Pipe!pipeVars)
    BY PipeStep
  <1>2. Safety => []FlowInv
    BY InitFlowInv, NextFlowInv, PTL DEF Safety
  <1> QED
    BY <1>1, <1>2, PhaseInit, CloseInvHolds, PTL DEF Safety, Pipe!Safety
=============================================================================
