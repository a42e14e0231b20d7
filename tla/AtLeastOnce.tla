---------------------------- MODULE AtLeastOnce ----------------------------
(***************************************************************************)
(* What the services rely on when they send work through a queue: a        *)
(* message that was stored is handled before it leaves the queue, however  *)
(* often it is stored, delivered and handled.                              *)
(***************************************************************************)
CONSTANT Messages

VARIABLES
  sent,      \* messages that were stored at least once
  queued,    \* messages the queue still holds
  handled    \* messages a handler was done with at least once

vars == <<sent, queued, handled>>

Init == sent = {} /\ queued = {} /\ handled = {}

Send(m) == sent' = sent \cup {m} /\ queued' = queued \cup {m} /\ UNCHANGED handled

Handle(m) == m \in sent /\ handled' = handled \cup {m} /\ UNCHANGED <<sent, queued>>

Settle(m) == m \in queued \cap handled /\ queued' = queued \ {m} /\ UNCHANGED <<sent, handled>>

Next == \E m \in Messages : Send(m) \/ Handle(m) \/ Settle(m)

Spec == Init /\ [][Next]_vars

\* A message that was stored and is not in the queue any more was handled: sends,
\* deliveries and acknowledgements may fail in any way without a message being lost.
NothingIsLost == sent \subseteq queued \cup handled
=============================================================================
