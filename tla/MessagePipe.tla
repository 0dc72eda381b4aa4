---------------------------- MODULE MessagePipe ----------------------------
(***************************************************************************)
(* What one subscriber of the broker promises to the goroutines that send  *)
(* to it and to the client behind it, with no goroutine, mutex, channel or *)
(* socket in sight:                                                        *)
(*                                                                         *)
(*   - messages are accepted in some order, never more than Capacity of    *)
(*     them waiting besides the one being written;                         *)
(*   - the client sees them in that order, each once, with no hole;        *)
(*   - the pipe breaks once (the connection closes), then closes, and      *)
(*     neither step is ever undone; a broken pipe delivers nothing more;   *)
(*   - a waiting message is delivered or the pipe breaks.                  *)
(*                                                                         *)
(* Module Subscriber is the implementation of internal/broker/subscriber.go*)
(* and is shown to refine this specification.                              *)
(***************************************************************************)
EXTENDS Naturals, Sequences

CONSTANTS
  Payloads,   \* what may be sent
  Capacity    \* queueSize of NewSubscriber

VARIABLES
  accepted,   \* the messages SendMessage returned true for, in channel order
  delivered,  \* the messages written to the connection
  phase       \* "open", then "broken", then "closed"

pipeVars == <<accepted, delivered, phase>>

Init ==
  /\ accepted = <<>>
  /\ delivered = <<>>
  /\ phase = "open"

Accept(m) ==
  /\ phase # "closed"
  /\ Len(accepted) - Len(delivered) <= Capacity
  /\ accepted' = Append(accepted, m)
  /\ UNCHANGED <<delivered, phase>>

Deliver ==
  /\ phase = "open"
  /\ Len(delivered) < Len(accepted)
  /\ delivered' = Append(delivered, accepted[Len(delivered) + 1])
  /\ UNCHANGED <<accepted, phase>>

Break ==
  /\ phase = "open"
  /\ phase' = "broken"
  /\ UNCHANGED <<accepted, delivered>>

Shut ==
  /\ phase = "broken"
  /\ phase' = "closed"
  /\ UNCHANGED <<accepted, delivered>>

\* The server process dies with the pipe in any phase.
Crash ==
  /\ phase # "closed"
  /\ phase' = "closed"
  /\ UNCHANGED <<accepted, delivered>>

Next == (\E m \in Payloads : Accept(m)) \/ Deliver \/ Break \/ Shut \/ Crash

Safety == Init /\ [][Next]_pipeVars

\* A message that waits is written or the connection goes away.
Resolve == Len(delivered) < Len(accepted) /\ (Deliver \/ Break \/ Crash)

Spec == Safety /\ WF_pipeVars(Resolve)
=============================================================================
