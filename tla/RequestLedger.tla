--------------------------- MODULE RequestLedger ---------------------------
(***************************************************************************)
(* What both SDKs promise about a request their application has made, with *)
(* no connection, queue or goroutine in sight: it is in one place at a     *)
(* time, and goes forward only.                                            *)
(*                                                                         *)
(*   - a request is held, sent, refused or lost when it is made;           *)
(*   - one that is held is sent or lost, and one that was sent is answered *)
(*     or lost; so none is sent twice, and what was refused, lost or       *)
(*     answered is never sent afterwards;                                  *)
(*   - requests are lost together only when they were waiting together.    *)
(*                                                                         *)
(* GoClient and JsClient are shown to refine this specification.           *)
(***************************************************************************)
CONSTANT Requests

VARIABLES
  held,      \* kept until there is a connection
  out,       \* handed to a connection
  answered,  \* settled by an answer
  refused,   \* the caller was told that it was not sent
  lost       \* given up, and the caller was told nothing

ledgerVars == <<held, out, answered, refused, lost>>

Known == held \cup out \cup answered \cup refused \cup lost

Init == held = {} /\ out = {} /\ answered = {} /\ refused = {} /\ lost = {}

Make(r) ==
  /\ r \notin Known
  /\ UNCHANGED answered
  /\ \/ held' = held \cup {r} /\ UNCHANGED <<out, refused, lost>>
     \/ out' = out \cup {r} /\ UNCHANGED <<held, refused, lost>>
     \/ refused' = refused \cup {r} /\ UNCHANGED <<held, out, lost>>
     \/ lost' = lost \cup {r} /\ UNCHANGED <<held, out, refused>>

PassOn(rs) ==
  /\ held' = held \ rs
  /\ \/ out' = out \cup rs /\ UNCHANGED lost
     \/ lost' = lost \cup rs /\ UNCHANGED out
  /\ UNCHANGED <<answered, refused>>

Answer(r) ==
  /\ out' = out \ {r}
  /\ answered' = answered \cup {r}
  /\ UNCHANGED <<held, refused, lost>>

Break(rs) ==
  /\ out' = out \ rs
  /\ lost' = lost \cup rs
  /\ UNCHANGED <<held, answered, refused>>

Next ==
  \/ \E r \in Requests : Make(r)
  \/ \E rs \in SUBSET held : PassOn(rs)
  \/ \E r \in out : Answer(r)
  \/ \E rs \in SUBSET out : Break(rs)

Safety == Init /\ [][Next]_ledgerVars
=============================================================================
