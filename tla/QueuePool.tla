----------------------------- MODULE QueuePool -----------------------------
(***************************************************************************)
(* QueueService, QueueConsumerPool and PushConsumerServer over a queue     *)
(* that stores copies of messages and delivers each copy again until it is *)
(* acknowledged.  A sender retries a call that failed or timed out; a pool *)
(* polls while it has a free slot, runs a handler per message and stops    *)
(* when its handlers are done; a push server runs a handler per request.   *)
(***************************************************************************)
EXTENDS Naturals, FiniteSets

CONSTANTS
  Messages,
  Poison,         \* messages whose body the consumer's parser rejects
  Pools,          \* consumers that poll
  Servers,        \* consumers the queue pushes to
  Concurrency,    \* handlers a pool runs at a time
  Tries,          \* Tries[m]: calls the sender of m makes at most: its first and its
                  \* retries, each with retries of its own in publishEvent
  Receipts,       \* Receipts[p]: receipt handles that tell apart the deliveries of a
                  \* copy that consumer p handles at a time
  MaxRunning,     \* bound: handlers that run at a time
  MaxStops        \* bound: consumers that are told to stop, or die

ASSUME QueueAssumption ==
  /\ Poison \subseteq Messages /\ Pools \cap Servers = {}
  /\ Concurrency \in Nat \ {0} /\ Tries \in [Messages -> Nat \ {0}]
  /\ MaxRunning \in Nat /\ MaxStops \in Nat

VARIABLES
  stored,     \* copies the queue ever stored
  queue,      \* those not acknowledged yet
  ready,      \* those of the queue not leased to a consumer
  sender,     \* sender[m]: whether m is still being sent
  calls,      \* calls[m]: calls its sender made so far
  late,       \* copies of calls that timed out: the queue may still store them
  loop,       \* loop[p]: what consumer p does
  asked,      \* asked[p]: messages p asked for in its running receive
  jobs,       \* handlers that run: the consumer, the copy and its receipt handle, how far
  started,    \* messages given to a handler
  handled,    \* messages a handler was done with
  stops       \* consumers told to stop, or that died, so far

sendVars == <<sender, calls, late>>
vars == <<stored, queue, ready, sendVars, loop, asked, jobs, started, handled, stops>>

Copies == UNION {{[msg |-> m, n |-> k] : k \in 1 .. Tries[m]} : m \in Messages}
Consumers == Pools \cup Servers
Jobs == [pool : Consumers, copy : Copies, receipt : UNION {Receipts[p] : p \in Consumers}, at : {"handling", "acking"}]

Of(p) == {j \in jobs : j.pool = p}
Active(p) == Cardinality(Of(p))
MessagesOf(S) == {c.msg : c \in S}
-----------------------------------------------------------------------------
Init ==
  /\ stored = {} /\ queue = {} /\ ready = {} /\ jobs = {} /\ started = {} /\ handled = {}
  /\ sender = [m \in Messages |-> "sending"] /\ calls = [m \in Messages |-> 0] /\ late = {}
  /\ loop = [p \in Consumers |-> IF p \in Pools THEN "poll" ELSE "serve"]
  /\ asked = [p \in Consumers |-> 0]
  /\ stops = 0
-----------------------------------------------------------------------------
(***************************************************************************)
(* Sending.  A call that fails is made again while the error is retryable  *)
(* and there are retries left; one that times out is not cancelled.        *)
(***************************************************************************)
Store(c) == stored' = stored \cup {c} /\ queue' = queue \cup {c} /\ ready' = ready \cup {c}

Publish(m) ==
  /\ sender[m] = "sending" /\ calls[m] < Tries[m]
  /\ LET c == [msg |-> m, n |-> calls[m] + 1]
     IN  \/ Store(c) /\ sender' = [sender EXCEPT ![m] = "done"] /\ UNCHANGED late
        \/ /\ late' \in {late, late \cup {c}} /\ UNCHANGED <<stored, queue, ready>>
           /\ \/ calls[m] + 1 < Tries[m] /\ UNCHANGED sender
              \/ sender' = [sender EXCEPT ![m] = "failed"]
  /\ calls' = [calls EXCEPT ![m] = @ + 1]
  /\ UNCHANGED <<loop, asked, jobs, started, handled, stops>>

\* The sender made another call meanwhile, told its caller of the failure, or died.
ArrivesLate(c) ==
  /\ c \in late /\ late' = late \ {c}
  /\ Store(c)
  /\ UNCHANGED <<sender, calls, loop, asked, jobs, started, handled, stops>>
-----------------------------------------------------------------------------
(***************************************************************************)
(* The loop of a pool.  Memory above the soft limit counts as no slot free.*)
(***************************************************************************)
FreeAll(p) == Concurrency

FreeAndOne(p) == Concurrency + 1 - Active(p)

Free(p) == IF Active(p) < Concurrency THEN Concurrency - Active(p) ELSE 0

AsksForMore(p) ==
  /\ loop[p] = "poll" /\ Free(p) > 0
  /\ loop' = [loop EXCEPT ![p] = "receive"] /\ asked' = [asked EXCEPT ![p] = Free(p)]
  /\ UNCHANGED <<stored, queue, ready, sendVars, jobs, started, handled, stops>>

\* Without a free slot a pool waits for the first of its handlers to end, without
\* a handler for a while.
PausesInARace(p) ==
  /\ loop[p] = "poll"
  /\ loop' = [loop EXCEPT ![p] = "race"]
  /\ UNCHANGED <<stored, queue, ready, sendVars, asked, jobs, started, handled, stops>>

Pauses(p) ==
  /\ loop[p] = "poll"
  /\ loop' = [loop EXCEPT ![p] = IF Of(p) # {} THEN "race" ELSE "sleep"]
  /\ UNCHANGED <<stored, queue, ready, sendVars, asked, jobs, started, handled, stops>>

WakesUp(p) ==
  /\ loop[p] = "sleep"
  /\ loop' = [loop EXCEPT ![p] = "poll"]
  /\ UNCHANGED <<stored, queue, ready, sendVars, asked, jobs, started, handled, stops>>

NewReceipts(p, c) == Receipts[p] \ {j.receipt : j \in {k \in Of(p) : k.copy = c}}

\* A handler for each copy of the batch.
Starts(p, batch) ==
  /\ Cardinality(jobs) + Cardinality(batch) <= MaxRunning
  /\ \A c \in batch : NewReceipts(p, c) # {}
  /\ jobs' = jobs \cup {[pool |-> p, copy |-> c, at |-> "handling",
                         receipt |-> CHOOSE r \in NewReceipts(p, c) : TRUE] : c \in batch}
  /\ started' = started \cup MessagesOf(batch)

Receives(p, batch) ==
  /\ loop[p] = "receive" /\ batch # {} /\ batch \subseteq ready
  /\ Cardinality(batch) <= asked[p] /\ MessagesOf(batch) \cap Poison = {}
  /\ ready' = ready \ batch
  /\ Starts(p, batch)
  /\ loop' = [loop EXCEPT ![p] = "poll"] /\ asked' = [asked EXCEPT ![p] = 0]
  /\ UNCHANGED <<stored, queue, sendVars, handled, stops>>

\* The answer of a receive is late, or one of its messages cannot be parsed: none
\* of the batch is handled before its lease ends.  The receive is tried again
\* until its time is over; the pool pauses then.
ReceivesInVain(p) ==
  /\ loop[p] = "receive"
  /\ \E batch \in SUBSET ready :
       Cardinality(batch) <= asked[p] /\ ready' = ready \ batch
  /\ \/ UNCHANGED <<loop, asked>>
     \/ loop' = [loop EXCEPT ![p] = "sleep"] /\ asked' = [asked EXCEPT ![p] = 0]
  /\ UNCHANGED <<stored, queue, sendVars, jobs, started, handled, stops>>

\* A push request.  One that cannot be parsed is answered with 400.
IsPushed(p, c) ==
  /\ loop[p] = "serve" /\ c \in ready /\ c.msg \notin Poison
  /\ ready' = ready \ {c}
  /\ Starts(p, {c})
  /\ UNCHANGED <<stored, queue, sendVars, loop, asked, handled, stops>>
-----------------------------------------------------------------------------
(***************************************************************************)
(* Handlers.  The queue is told of a message that was handled: by the      *)
(* handler's last call in a pool, by the status 200 from a server.         *)
(***************************************************************************)
\* The end of a handler wakes a pool that races its handlers.
Ends(j) ==
  /\ jobs' = jobs \ {j}
  /\ loop' = IF loop[j.pool] = "race" THEN [loop EXCEPT ![j.pool] = "poll"] ELSE loop

HandlerIsDone(j) ==
  /\ j.at = "handling"
  /\ jobs' = (jobs \ {j}) \cup {[j EXCEPT !.at = "acking"]}
  /\ handled' = handled \cup {j.copy.msg}
  /\ UNCHANGED <<stored, queue, ready, sendVars, loop, asked, started, stops>>

\* It throws, or the call that acknowledges fails, applied or not.
HandlerFails(j) ==
  /\ j.at = "handling" /\ Ends(j)
  /\ UNCHANGED <<stored, queue, ready, sendVars, asked, started, handled, stops>>

AcksAnyway(j) ==
  /\ Ends(j)
  /\ queue' = queue \ {j.copy} /\ ready' = ready \ {j.copy}
  /\ UNCHANGED <<stored, sendVars, asked, started, handled, stops>>

Acks(j) ==
  /\ j.at = "acking" /\ Ends(j)
  /\ \/ queue' = queue \ {j.copy} /\ ready' = ready \ {j.copy}
     \/ UNCHANGED <<queue, ready>>
  /\ UNCHANGED <<stored, sendVars, asked, started, handled, stops>>

\* The lease of a copy ends, whether a handler still runs or not.
LeaseEnds(c) ==
  /\ c \in queue \ ready
  /\ ready' = ready \cup {c}
  /\ UNCHANGED <<stored, queue, sendVars, loop, asked, jobs, started, handled, stops>>
-----------------------------------------------------------------------------
(***************************************************************************)
(* Stopping.  A pool leaves its loop where it looks whether it still runs, *)
(* and waits for its handlers.                                             *)
(***************************************************************************)
Stops(p) ==
  /\ loop[p] = "poll" /\ stops < MaxStops
  /\ loop' = [loop EXCEPT ![p] = "drain"] /\ stops' = stops + 1
  /\ UNCHANGED <<stored, queue, ready, sendVars, asked, jobs, started, handled>>

Drained(p) ==
  /\ loop[p] = "drain" /\ Of(p) = {}
  /\ loop' = [loop EXCEPT ![p] = "stopped"]
  /\ UNCHANGED <<stored, queue, ready, sendVars, asked, jobs, started, handled, stops>>

\* The process dies and another one takes its place.
Dies(p) ==
  /\ loop[p] # "stopped" /\ stops < MaxStops
  /\ jobs' = jobs \ Of(p) /\ stops' = stops + 1
  /\ loop' = [loop EXCEPT ![p] = IF p \in Pools THEN "poll" ELSE "serve"]
  /\ asked' = [asked EXCEPT ![p] = 0]
  /\ UNCHANGED <<stored, queue, ready, sendVars, started, handled>>
-----------------------------------------------------------------------------
PoolStep(p) ==
  \/ AsksForMore(p) \/ Pauses(p) \/ WakesUp(p) \/ ReceivesInVain(p)
  \/ \E batch \in SUBSET ready : Receives(p, batch)
  \/ Stops(p) \/ Drained(p)

JobStep(j) == HandlerIsDone(j) \/ HandlerFails(j) \/ Acks(j)

Next ==
  \/ \E m \in Messages : Publish(m)
  \/ \E c \in late : ArrivesLate(c)
  \/ \E p \in Pools : PoolStep(p)
  \/ \E p \in Servers : \E c \in ready : IsPushed(p, c)
  \/ \E p \in Consumers : Dies(p)
  \/ \E j \in jobs : JobStep(j)
  \/ \E c \in queue : LeaseEnds(c)

\* Timers and handlers end; memory is not above the limit for ever; the queue
\* delivers a copy it keeps to a pool that keeps asking, alone or with others that
\* can be parsed, and not only in answers that are late.
Fairness ==
  /\ \A p \in Pools :
       /\ WF_vars(WakesUp(p)) /\ WF_vars(Pauses(p)) /\ SF_vars(AsksForMore(p))
  /\ \A p \in Consumers :
       /\ WF_vars(\E j \in Of(p) : HandlerFails(j) \/ HandlerIsDone(j))
       /\ WF_vars(\E j \in Of(p) : Acks(j))
  /\ \A c \in Copies :
       /\ WF_vars(LeaseEnds(c))
       /\ SF_vars(\E p \in Pools : \E batch \in SUBSET ready : c \in batch /\ Receives(p, batch))

Spec == Init /\ [][Next]_vars

FairSpec == Spec /\ Fairness
-----------------------------------------------------------------------------
Loops == {"poll", "receive", "race", "sleep", "drain", "stopped", "serve"}

TypeOK ==
  /\ stored \subseteq Copies /\ queue \subseteq stored /\ ready \subseteq queue
  /\ sender \in [Messages -> {"sending", "done", "failed"}]
  /\ calls \in [Messages -> Nat] /\ (\A m \in Messages : calls[m] <= Tries[m]) /\ late \subseteq Copies
  /\ loop \in [Consumers -> Loops] /\ asked \in [Consumers -> 0..Concurrency]
  /\ jobs \subseteq Jobs /\ MessagesOf({j.copy : j \in jobs}) \subseteq started
  /\ started \subseteq MessagesOf(stored) /\ handled \subseteq started
  /\ stops \in 0..MaxStops

\* A pool never runs more handlers than its concurrency, in spite of copies that
\* are delivered again while they are handled, and none is left when run() is over.
PoolAccountsForItsJobs ==
  \A p \in Pools : Active(p) <= Concurrency /\ (loop[p] = "stopped" => Of(p) = {})

\* What the services may rely on.  (The mapping: a message is in the queue while a
\* copy of it is.)
Delivery == INSTANCE AtLeastOnce
  WITH sent <- MessagesOf(stored), queued <- MessagesOf(queue), handled <- handled

DeliverySpec == Delivery!Spec

\* A message the queue stored gets to a handler, whatever calls fail and whichever
\* handlers throw, as long as a pool is up and no message that cannot be parsed is
\* in the queue: such a one is never acknowledged, and every batch with it is lost
\* until its leases end.
EveryMessageIsStarted ==
  \A m \in Messages :
    m \in MessagesOf(stored) ~>
      \/ m \in started
      \/ MessagesOf(queue) \cap Poison # {}
      \/ \A p \in Pools : loop[p] \in {"drain", "stopped"}
=============================================================================
