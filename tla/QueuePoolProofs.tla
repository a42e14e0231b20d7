-------------------------- MODULE QueuePoolProofs --------------------------
(***************************************************************************)
(* Theorems of AtLeastOnce and of QueuePool, for any messages, consumers,  *)
(* retries, concurrency and faults.                                        *)
(***************************************************************************)
EXTENDS QueuePool, FiniteSetTheorems, TLAPS

\* What the abstract queue promises: a message that was stored is in the queue or
\* was handled.
THEOREM NothingIsEverLost == Delivery!Spec => []Delivery!NothingIsLost
<1>1. Delivery!Init => Delivery!NothingIsLost
  BY DEF Delivery!Init, Delivery!NothingIsLost
<1>2. Delivery!NothingIsLost /\ [Delivery!Next]_(Delivery!vars) => Delivery!NothingIsLost'
  BY DEF Delivery!NothingIsLost, Delivery!Next, Delivery!vars,
         Delivery!Send, Delivery!Handle, Delivery!Settle
<1> QED BY <1>1, <1>2, PTL DEF Delivery!Spec

-----------------------------------------------------------------------------
(***************************************************************************)
(* The inductive invariant: the handlers are finitely many and belong to   *)
(* messages that were started; only a message that was handled is being    *)
(* acknowledged; the messages a pool asked for have a free slot, and only  *)
(* a pool that waits for an answer has asked for any.                      *)
(***************************************************************************)
Finite == IsFiniteSet(stored) /\ IsFiniteSet(jobs)

AcksAreDue == \A j \in jobs : j.at = "acking" => j.copy.msg \in handled

SlotsAreKept ==
  \A p \in Pools :
    /\ Active(p) + asked[p] <= Concurrency
    /\ asked[p] # 0 => loop[p] = "receive"
    /\ loop[p] = "stopped" => Of(p) = {}

IInv == TypeOK /\ Finite /\ AcksAreDue /\ SlotsAreKept

\* The handlers of a consumer are finitely many.
LEMMA ActiveIsNat ==
  ASSUME IsFiniteSet(jobs), NEW p
  PROVE  IsFiniteSet(Of(p)) /\ Active(p) \in Nat
<1>1. IsFiniteSet(Of(p))
  BY FS_Subset DEF Of
<1> QED BY <1>1, FS_CardinalityType DEF Active

LEMMA FreeSlots ==
  ASSUME IsFiniteSet(jobs), NEW p
  PROVE  /\ Free(p) \in 0..Concurrency
         /\ Active(p) <= Concurrency => Active(p) + Free(p) = Concurrency
BY ActiveIsNat, QueueAssumption DEF Free

\* A batch adds at most one handler for each of its copies.
LEMMA BatchStarts ==
  ASSUME NEW p \in Consumers, NEW batch, batch \subseteq Copies, IsFiniteSet(batch),
         jobs \subseteq Jobs, IsFiniteSet(jobs), Starts(p, batch)
  PROVE  /\ IsFiniteSet(jobs') /\ jobs' \subseteq Jobs /\ jobs \subseteq jobs'
         /\ \A j \in jobs' \ jobs : j.pool = p /\ j.copy \in batch /\ j.at = "handling"
         /\ Cardinality(Of(p)') <= Active(p) + Cardinality(batch)
         /\ \A q \in Consumers : q # p => Of(q)' = Of(q)
<1> DEFINE Job(c) == [pool |-> p, copy |-> c, at |-> "handling",
                      receipt |-> CHOOSE r \in NewReceipts(p, c) : TRUE]
           new == {Job(c) : c \in batch}
           f == [c \in batch |-> Job(c)]
<1>1. \A c \in batch : Job(c) \in Jobs
  <2> SUFFICES ASSUME NEW c \in batch PROVE Job(c) \in Jobs
    OBVIOUS
  <2>1. (CHOOSE r \in NewReceipts(p, c) : TRUE) \in NewReceipts(p, c)
    BY DEF Starts
  <2>2. (CHOOSE r \in NewReceipts(p, c) : TRUE) \in UNION {Receipts[q] : q \in Consumers}
    BY <2>1 DEF NewReceipts
  <2> QED BY <2>2 DEF Jobs
<1>2. jobs' = jobs \cup new
  BY DEF Starts
<1>3. f \in Surjection(batch, new)
  BY DEF Surjection
<1>4. IsFiniteSet(new) /\ Cardinality(new) <= Cardinality(batch)
  BY <1>3, FS_Surjection
<1>5. IsFiniteSet(jobs')
  BY <1>2, <1>4, FS_Union
<1>6. Of(p)' = Of(p) \cup new
  BY <1>2 DEF Of
<1>7. IsFiniteSet(Of(p)) /\ Active(p) \in Nat
  BY ActiveIsNat
<1>8. Cardinality(Of(p)') <= Active(p) + Cardinality(batch)
  <2>1. /\ Cardinality(Of(p) \cup new)
             = Cardinality(Of(p)) + Cardinality(new) - Cardinality(Of(p) \cap new)
    BY <1>4, <1>7, FS_Union
  <2>2. IsFiniteSet(Of(p) \cap new)
    BY <1>4, FS_Subset
  <2>3. Cardinality(Of(p) \cap new) \in Nat /\ Cardinality(new) \in Nat /\ Cardinality(batch) \in Nat
    BY <2>2, <1>4, FS_CardinalityType
  <2> QED BY <1>4, <1>6, <1>7, <2>1, <2>3 DEF Active
<1>9. \A q \in Consumers : q # p => Of(q)' = Of(q)
  BY <1>2 DEF Of
<1> QED BY <1>1, <1>2, <1>5, <1>8, <1>9

-----------------------------------------------------------------------------
LEMMA InitIInv == Init => IInv
<1> SUFFICES ASSUME Init PROVE IInv
  OBVIOUS
<1>1. TypeOK
  BY QueueAssumption DEF Init, TypeOK, MessagesOf, Loops
<1>2. Finite
  BY FS_EmptySet DEF Init, Finite
<1>3. AcksAreDue
  BY DEF Init, AcksAreDue
<1>4. \A p \in Consumers : Of(p) = {} /\ Active(p) = 0
  BY FS_EmptySet DEF Init, Of, Active
<1>5. SlotsAreKept
  BY <1>4, QueueAssumption DEF Init, SlotsAreKept, Consumers
<1> QED BY <1>1, <1>2, <1>3, <1>5 DEF IInv

\* A copy that is stored: it is added to the queue, ready to be delivered.
LEMMA StoreKeeps ==
  ASSUME TypeOK, Finite, NEW c \in Copies, Store(c)
  PROVE  /\ stored' \subseteq Copies /\ queue' \subseteq stored' /\ ready' \subseteq queue'
         /\ started \subseteq MessagesOf(stored') /\ IsFiniteSet(stored')
BY FS_AddElement DEF TypeOK, Finite, Store, MessagesOf

\* A handler that is replaced by its next step, or ends, frees no slot but its own.
LEMMA JobMoves ==
  ASSUME IsFiniteSet(jobs), NEW j \in jobs, NEW k, k.pool = j.pool,
         jobs' \in {jobs \ {j}, (jobs \ {j}) \cup {k}}
  PROVE  /\ IsFiniteSet(jobs')
         /\ \A p \in Consumers :
              Cardinality(Of(p)') \in Nat /\ Cardinality(Of(p)') <= Active(p)
         /\ \A p \in Consumers : Of(p) = {} => Of(p)' = {}
<1>1. IsFiniteSet(jobs')
  <2>1. IsFiniteSet(jobs \ {j})
    BY FS_RemoveElement
  <2>2. IsFiniteSet((jobs \ {j}) \cup {k})
    BY <2>1, FS_AddElement
  <2> QED BY <2>1, <2>2
<1>2. \A p \in Consumers : Of(p) = {} => Of(p)' = {}
  BY DEF Of
<1>3. ASSUME NEW p \in Consumers
      PROVE  Cardinality(Of(p)') \in Nat /\ Cardinality(Of(p)') <= Active(p)
  <2>1. IsFiniteSet(Of(p)) /\ Active(p) \in Nat
    BY ActiveIsNat
  <2>2. CASE j \notin Of(p)
    <3>1. Of(p)' = Of(p)
      BY <2>2 DEF Of
    <3> QED BY <2>1, <3>1 DEF Active
  <2>3. CASE j \in Of(p)
    <3>1. /\ IsFiniteSet(Of(p) \ {j})
          /\ Cardinality(Of(p) \ {j}) = Active(p) - 1
      BY <2>1, <2>3, FS_RemoveElement DEF Active
    <3>2. Cardinality(Of(p) \ {j}) \in Nat
      BY <3>1, FS_CardinalityType
    <3>3. Of(p)' \in {Of(p) \ {j}, (Of(p) \ {j}) \cup {k}}
      BY <2>3 DEF Of
    <3> DEFINE rest == Of(p) \ {j}
    <3>4. /\ Cardinality(rest \cup {k}) = Cardinality(rest)
          \/ Cardinality(rest \cup {k}) = Cardinality(rest) + 1
      BY <3>1, FS_AddElement
    <3>5. Cardinality(rest) + 1 = Active(p)
      BY <3>1, <2>1
    <3>6. \/ Cardinality(Of(p)') = Cardinality(rest)
          \/ Cardinality(Of(p)') = Cardinality(rest) + 1
      BY <3>3, <3>4
    <3> HIDE DEF rest
    <3>7. Cardinality(rest) \in Nat
      BY <3>2 DEF rest
    <3> QED BY <3>5, <3>6, <3>7, <2>1
  <2> QED BY <2>2, <2>3
<1> QED BY <1>1, <1>2, <1>3

-----------------------------------------------------------------------------
\* The invariant in a step that leaves the handlers alone.
LEMMA SameJobs ==
  ASSUME IInv, TypeOK', IsFiniteSet(stored'), jobs' = jobs, handled' = handled, SlotsAreKept'
  PROVE  IInv'
BY DEF IInv, Finite, AcksAreDue

LEMMA PublishKeeps == ASSUME IInv, NEW m \in Messages, Publish(m) PROVE IInv'
<1> DEFINE c == [msg |-> m, n |-> calls[m] + 1]
<1>0. /\ calls[m] + 1 \in 1 .. Tries[m]
      /\ calls' \in [Messages -> Nat] /\ (\A x \in Messages : calls'[x] <= Tries[x])
  <2>1. calls' = [calls EXCEPT ![m] = calls[m] + 1] /\ calls[m] < Tries[m]
    BY DEF Publish
  <2>2. calls \in [Messages -> Nat] /\ (\A x \in Messages : calls[x] <= Tries[x])
    BY DEF IInv, TypeOK
  <2>3. Tries[m] \in Nat
    BY QueueAssumption
  <2> QED BY <2>1, <2>2, <2>3
<1>1. c \in Copies
  BY <1>0 DEF Copies
<1> HIDE DEF c
<1>2. CASE Store(c) /\ UNCHANGED late
  <2>1. /\ stored' \subseteq Copies /\ queue' \subseteq stored' /\ ready' \subseteq queue'
        /\ started \subseteq MessagesOf(stored') /\ IsFiniteSet(stored')
    BY <1>1, <1>2, StoreKeeps DEF IInv
  <2>2. TypeOK'
    BY <1>0, <2>1, <1>2 DEF IInv, TypeOK, Publish, Loops
  <2>3. SlotsAreKept'
    BY DEF IInv, SlotsAreKept, Publish, Active, Of
  <2> QED BY <2>1, <2>2, <2>3, SameJobs DEF Publish
<1>3. CASE late' \in {late, late \cup {c}} /\ UNCHANGED <<stored, queue, ready>>
  <2>1. TypeOK'
    <3>1. sender' \in [Messages -> {"sending", "done", "failed"}] /\ late' \subseteq Copies
      BY <1>1, <1>3 DEF IInv, TypeOK, Publish
    <3> QED BY <1>0, <1>3, <3>1 DEF IInv, TypeOK, Publish, MessagesOf, Loops
  <2>2. SlotsAreKept'
    BY DEF IInv, SlotsAreKept, Publish, Active, Of
  <2> QED BY <1>3, <2>1, <2>2, SameJobs DEF Publish, IInv, Finite
<1> QED BY <1>2, <1>3 DEF Publish, c

LEMMA ArrivesKeeps == ASSUME IInv, NEW c \in late, ArrivesLate(c) PROVE IInv'
<1>1. c \in Copies /\ Store(c)
  BY DEF IInv, TypeOK, ArrivesLate
<1>2. /\ stored' \subseteq Copies /\ queue' \subseteq stored' /\ ready' \subseteq queue'
      /\ started \subseteq MessagesOf(stored') /\ IsFiniteSet(stored')
  BY <1>1, StoreKeeps DEF IInv
<1>3. TypeOK'
  BY <1>2 DEF IInv, TypeOK, ArrivesLate, Loops
<1>4. SlotsAreKept'
  BY DEF IInv, SlotsAreKept, ArrivesLate, Active, Of
<1> QED BY <1>2, <1>3, <1>4, SameJobs DEF ArrivesLate

\* The steps of a pool's loop that start no handler.
LEMMA LoopKeeps ==
  ASSUME IInv, NEW p \in Pools,
         \/ AsksForMore(p) \/ Pauses(p) \/ WakesUp(p) \/ ReceivesInVain(p)
         \/ Stops(p) \/ Drained(p)
  PROVE  IInv'
<1> p \in Consumers
  BY DEF Consumers
<1>1. jobs' = jobs /\ handled' = handled /\ stored' = stored /\ started' = started
      /\ UNCHANGED <<queue, sendVars>>
  BY DEF AsksForMore, Pauses, WakesUp, ReceivesInVain, Stops, Drained
<1>2. \A q \in Consumers : Of(q)' = Of(q) /\ Active(q)' = Active(q) /\ Active(q) \in Nat
  BY <1>1, ActiveIsNat DEF Of, Active, IInv, Finite
<1>3. Free(p) \in 0..Concurrency /\ (Active(p) <= Concurrency => Active(p) + Free(p) = Concurrency)
  BY FreeSlots DEF IInv, Finite
<1>4. TypeOK'
  BY <1>1, <1>3, QueueAssumption
  DEF IInv, TypeOK, AsksForMore, Pauses, WakesUp, ReceivesInVain, Stops, Drained, sendVars,
      MessagesOf, Loops
<1>5. SlotsAreKept'
  <2> SUFFICES ASSUME NEW q \in Pools
               PROVE  /\ (Active(q) + asked[q] <= Concurrency)'
                      /\ (asked[q] # 0 => loop[q] = "receive")'
                      /\ (loop[q] = "stopped" => Of(q) = {})'
    BY DEF SlotsAreKept
  <2> q \in Consumers
    BY DEF Consumers
  <2> /\ Active(q) + asked[q] <= Concurrency /\ asked[q] \in Nat
      /\ asked[q] # 0 => loop[q] = "receive"
      /\ loop[q] = "stopped" => Of(q) = {}
    BY DEF IInv, SlotsAreKept, TypeOK
  <2> loop \in [Consumers -> Loops] /\ asked \in [Consumers -> 0..Concurrency]
    BY DEF IInv, TypeOK
  <2>1. CASE AsksForMore(p)
    BY <2>1, <1>2, <1>3, QueueAssumption DEF AsksForMore
  <2>2. CASE Pauses(p)
    BY <2>2, <1>2 DEF Pauses
  <2>3. CASE WakesUp(p)
    BY <2>3, <1>2 DEF WakesUp
  <2>4. CASE ReceivesInVain(p)
    BY <2>4, <1>2, QueueAssumption DEF ReceivesInVain
  <2>5. CASE Stops(p)
    BY <2>5, <1>2 DEF Stops
  <2>6. CASE Drained(p)
    BY <2>6, <1>2 DEF Drained
  <2> QED BY <2>1, <2>2, <2>3, <2>4, <2>5, <2>6
<1> QED BY <1>1, <1>4, <1>5, SameJobs DEF IInv, Finite

\* A delivery: the copies of the batch were ready, and a pool asked for as many.
LEMMA DeliveryKeeps ==
  ASSUME IInv, NEW p \in Consumers, NEW batch, batch \subseteq ready, IsFiniteSet(batch),
         ready' = ready \ batch, Starts(p, batch),
         UNCHANGED <<stored, queue, sendVars, handled, stops>>,
         p \in Pools => Cardinality(batch) <= asked[p],
         \/ p \in Pools /\ loop' = [loop EXCEPT ![p] = "poll"]
            /\ asked' = [asked EXCEPT ![p] = 0] /\ loop[p] = "receive"
         \/ p \notin Pools /\ UNCHANGED <<loop, asked>>
  PROVE  IInv'
<1>1. batch \subseteq Copies
  BY DEF IInv, TypeOK
<1>2. /\ IsFiniteSet(jobs') /\ jobs' \subseteq Jobs /\ jobs \subseteq jobs'
      /\ \A j \in jobs' \ jobs : j.pool = p /\ j.copy \in batch /\ j.at = "handling"
      /\ Cardinality(Of(p)') <= Active(p) + Cardinality(batch)
      /\ \A q \in Consumers : q # p => Of(q)' = Of(q)
  BY <1>1, BatchStarts DEF IInv, TypeOK, Finite
<1>3. started' = started \cup MessagesOf(batch)
  BY DEF Starts
<1>4. TypeOK'
  <2>1. ready' \subseteq queue' /\ queue' \subseteq stored' /\ stored' \subseteq Copies
    BY DEF IInv, TypeOK
  <2>2. MessagesOf({j.copy : j \in jobs})' \subseteq started'
    BY <1>2, <1>3 DEF IInv, TypeOK, MessagesOf
  <2>3. started' \subseteq MessagesOf(stored)' /\ handled' \subseteq started'
    BY <1>3 DEF IInv, TypeOK, MessagesOf
  <2>4. loop' \in [Consumers -> Loops] /\ asked' \in [Consumers -> 0..Concurrency]
    BY QueueAssumption DEF IInv, TypeOK, Loops
  <2> QED BY <1>2, <2>1, <2>2, <2>3, <2>4 DEF IInv, TypeOK, sendVars
<1>5. AcksAreDue'
  BY <1>2 DEF IInv, AcksAreDue
<1>6. SlotsAreKept'
  <2> SUFFICES ASSUME NEW q \in Pools
               PROVE  /\ (Active(q) + asked[q] <= Concurrency)'
                      /\ (asked[q] # 0 => loop[q] = "receive")'
                      /\ (loop[q] = "stopped" => Of(q) = {})'
    BY DEF SlotsAreKept
  <2> q \in Consumers
    BY DEF Consumers
  <2>1. /\ Active(q) + asked[q] <= Concurrency /\ asked[q] \in Nat
        /\ asked[q] # 0 => loop[q] = "receive"
        /\ loop[q] = "stopped" => Of(q) = {}
    BY DEF IInv, SlotsAreKept, TypeOK
  <2>2. loop \in [Consumers -> Loops] /\ asked \in [Consumers -> 0..Concurrency]
    BY DEF IInv, TypeOK
  <2>3. CASE q # p
    <3>1. Active(q)' = Active(q) /\ Of(q)' = Of(q)
      BY <1>2, <2>3 DEF Active
    <3> QED BY <2>1, <2>2, <2>3, <3>1
  <2>4. CASE q = p
    <3>1. Active(q) \in Nat /\ Cardinality(batch) \in Nat
      BY ActiveIsNat, FS_CardinalityType DEF IInv, Finite
    <3>2. IsFiniteSet(Of(q)') /\ Cardinality(Of(q)') \in Nat
      <4>1. Of(q)' \in SUBSET jobs'
        BY DEF Of
      <4> QED BY <1>2, <4>1, FS_Subset, FS_CardinalityType
    <3>3. Active(q)' <= Active(q) + Cardinality(batch) /\ Active(q)' \in Nat
      BY <1>2, <2>4, <3>2 DEF Active
    <3>4. Active(q)' <= Concurrency
      BY <2>1, <2>4, <3>1, <3>3, QueueAssumption
    <3> QED BY <2>2, <2>4, <3>3, <3>4, QueueAssumption
  <2> QED BY <2>3, <2>4
<1> QED BY <1>2, <1>4, <1>5, <1>6 DEF IInv, Finite

\* The steps of a handler, and its end.
LEMMA JobKeeps == ASSUME IInv, NEW j \in jobs, JobStep(j) PROVE IInv'
<1> DEFINE k == [j EXCEPT !.at = "acking"]
<1>0. /\ j \in Jobs /\ j.pool \in Consumers /\ k \in Jobs /\ k.pool = j.pool
      /\ k.copy = j.copy /\ j.copy.msg \in started
  <2>1. j \in Jobs
    BY DEF IInv, TypeOK
  <2>2. j.copy.msg \in started
    BY DEF IInv, TypeOK, MessagesOf
  <2> QED BY <2>1, <2>2 DEF Jobs
<1>1. jobs' \in {jobs \ {j}, (jobs \ {j}) \cup {k}}
  BY DEF JobStep, HandlerIsDone, HandlerFails, Acks, Ends
<1>2. k \in jobs' => k \in jobs \/ j.copy.msg \in handled'
  BY DEF JobStep, HandlerIsDone, HandlerFails, Acks, Ends
<1>3. /\ handled \subseteq handled' /\ handled' \subseteq handled \cup {j.copy.msg}
      /\ queue' \subseteq queue /\ ready' \subseteq queue'
      /\ UNCHANGED <<stored, sendVars, asked, started, stops>>
  BY DEF JobStep, HandlerIsDone, HandlerFails, Acks, IInv, TypeOK
<1>4. loop' = loop \/ (loop[j.pool] = "race" /\ loop' = [loop EXCEPT ![j.pool] = "poll"])
  BY DEF JobStep, HandlerIsDone, HandlerFails, Acks, Ends
<1> HIDE DEF k
<1>5. /\ IsFiniteSet(jobs')
      /\ \A p \in Consumers : Cardinality(Of(p)') \in Nat /\ Cardinality(Of(p)') <= Active(p)
      /\ \A p \in Consumers : Of(p) = {} => Of(p)' = {}
  BY <1>0, <1>1, JobMoves DEF IInv, Finite
<1>6. TypeOK'
  <2>1. jobs' \subseteq Jobs
    BY <1>0, <1>1 DEF IInv, TypeOK
  <2>2. MessagesOf({i.copy : i \in jobs'}) \subseteq started
    BY <1>0, <1>1 DEF IInv, TypeOK, MessagesOf
  <2>3. loop' \in [Consumers -> Loops]
    BY <1>4, <1>0 DEF IInv, TypeOK, Loops
  <2> QED BY <1>0, <1>3, <2>1, <2>2, <2>3 DEF IInv, TypeOK, sendVars, MessagesOf
<1>7. AcksAreDue'
  BY <1>0, <1>1, <1>2, <1>3 DEF IInv, AcksAreDue
<1>8. SlotsAreKept'
  <2> SUFFICES ASSUME NEW q \in Pools
               PROVE  /\ (Active(q) + asked[q] <= Concurrency)'
                      /\ (asked[q] # 0 => loop[q] = "receive")'
                      /\ (loop[q] = "stopped" => Of(q) = {})'
    BY DEF SlotsAreKept
  <2> q \in Consumers
    BY DEF Consumers
  <2>1. /\ Active(q) + asked[q] <= Concurrency /\ asked[q] \in Nat
        /\ asked[q] # 0 => loop[q] = "receive"
        /\ loop[q] = "stopped" => Of(q) = {}
    BY DEF IInv, SlotsAreKept, TypeOK
  <2>2. loop \in [Consumers -> Loops]
    BY DEF IInv, TypeOK
  <2>3. Active(q) \in Nat /\ Active(q)' \in Nat /\ Active(q)' <= Active(q)
    BY ActiveIsNat, <1>5 DEF IInv, Finite, Active
  <2>4. (Active(q) + asked[q] <= Concurrency)'
    BY <1>3, <2>1, <2>3, QueueAssumption
  <2>5. (asked[q] # 0 => loop[q] = "receive")'
    BY <1>0, <1>3, <1>4, <2>1, <2>2
  <2>6. (loop[q] = "stopped" => Of(q) = {})'
    BY <1>0, <1>4, <1>5, <2>1, <2>2
  <2> QED BY <2>4, <2>5, <2>6
<1> QED BY <1>3, <1>5, <1>6, <1>7, <1>8 DEF IInv, Finite

LEMMA DiesKeeps == ASSUME IInv, NEW p \in Consumers, Dies(p) PROVE IInv'
<1>1. /\ jobs' = jobs \ Of(p) /\ loop' \in [Consumers -> Loops]
      /\ asked' = [asked EXCEPT ![p] = 0] /\ asked' \in [Consumers -> 0..Concurrency]
      /\ \A q \in Consumers : q # p => loop'[q] = loop[q] /\ asked'[q] = asked[q]
      /\ loop'[p] # "stopped" /\ asked'[p] = 0
  BY QueueAssumption DEF IInv, TypeOK, Dies, Loops
<1>2. IsFiniteSet(jobs')
  BY <1>1, FS_Subset DEF IInv, Finite
<1>3. TypeOK'
  <2>1. stops' \in 0..MaxStops
    BY QueueAssumption DEF IInv, TypeOK, Dies
  <2>2. jobs' \subseteq Jobs /\ MessagesOf({j.copy : j \in jobs'}) \subseteq started
    BY <1>1 DEF IInv, TypeOK, MessagesOf
  <2>3. UNCHANGED <<stored, queue, ready, sendVars, started, handled>>
    BY DEF Dies
  <2> QED BY <1>1, <2>1, <2>2, <2>3 DEF IInv, TypeOK, sendVars, MessagesOf
<1>4. AcksAreDue'
  BY <1>1 DEF IInv, AcksAreDue, Dies
<1>5. SlotsAreKept'
  <2> SUFFICES ASSUME NEW q \in Pools
               PROVE  /\ (Active(q) + asked[q] <= Concurrency)'
                      /\ (asked[q] # 0 => loop[q] = "receive")'
                      /\ (loop[q] = "stopped" => Of(q) = {})'
    BY DEF SlotsAreKept
  <2> q \in Consumers
    BY DEF Consumers
  <2>1. CASE q = p
    <3>1. Of(q)' = {}
      BY <1>1, <2>1 DEF Of
    <3>2. Active(q)' = 0
      BY <3>1, FS_EmptySet DEF Active
    <3> QED BY <1>1, <2>1, <3>2, QueueAssumption
  <2>2. CASE q # p
    <3>1. Of(q)' = Of(q)
      BY <1>1, <2>2 DEF Of
    <3> QED BY <1>1, <2>2, <3>1 DEF IInv, SlotsAreKept, Active
  <2> QED BY <2>1, <2>2
<1> QED BY <1>2, <1>3, <1>4, <1>5 DEF IInv, Finite, Dies

LEMMA LeaseKeeps == ASSUME IInv, NEW c \in queue, LeaseEnds(c) PROVE IInv'
<1>1. TypeOK'
  BY DEF IInv, TypeOK, LeaseEnds, sendVars, MessagesOf, Loops
<1>2. SlotsAreKept'
  BY DEF IInv, SlotsAreKept, LeaseEnds, Active, Of
<1> QED BY <1>1, <1>2, SameJobs DEF LeaseEnds, IInv, Finite

\* Deliveries to a pool and to a server.
LEMMA DeliveriesKeep ==
  ASSUME IInv
  PROVE  /\ \A p \in Pools : \A batch \in SUBSET ready : Receives(p, batch) => IInv'
         /\ \A p \in Servers : \A c \in ready : IsPushed(p, c) => IInv'
<1>1. ASSUME NEW batch \in SUBSET ready PROVE IsFiniteSet(batch)
  <2>1. batch \in SUBSET stored
    BY DEF IInv, TypeOK
  <2> QED BY <2>1, FS_Subset DEF IInv, Finite
<1>2. ASSUME NEW p \in Pools, NEW batch \in SUBSET ready, Receives(p, batch) PROVE IInv'
  BY <1>1, <1>2, DeliveryKeeps DEF Receives, Consumers
<1>3. ASSUME NEW p \in Servers, NEW c \in ready, IsPushed(p, c) PROVE IInv'
  <2>1. p \notin Pools /\ p \in Consumers
    BY QueueAssumption DEF Consumers
  <2>2. {c} \subseteq ready /\ IsFiniteSet({c})
    BY <1>1
  <2> QED BY <1>3, <2>1, <2>2, DeliveryKeeps DEF IsPushed
<1> QED BY <1>2, <1>3

LEMMA StepIInv == IInv /\ [Next]_vars => IInv'
<1> SUFFICES ASSUME IInv, [Next]_vars PROVE IInv'
  OBVIOUS
<1>1. ASSUME NEW m \in Messages, Publish(m) PROVE IInv'
  BY <1>1, PublishKeeps
<1>2. ASSUME NEW c \in late, ArrivesLate(c) PROVE IInv'
  BY <1>2, ArrivesKeeps
<1>3. ASSUME NEW p \in Pools, PoolStep(p) PROVE IInv'
  BY <1>3, LoopKeeps, DeliveriesKeep DEF PoolStep
<1>4. ASSUME NEW p \in Servers, NEW c \in ready, IsPushed(p, c) PROVE IInv'
  BY <1>4, DeliveriesKeep
<1>5. ASSUME NEW p \in Consumers, Dies(p) PROVE IInv'
  BY <1>5, DiesKeeps
<1>6. ASSUME NEW j \in jobs, JobStep(j) PROVE IInv'
  BY <1>6, JobKeeps
<1>7. ASSUME NEW c \in queue, LeaseEnds(c) PROVE IInv'
  BY <1>7, LeaseKeeps
<1>8. ASSUME UNCHANGED vars PROVE IInv'
  <2>1. TypeOK'
    BY <1>8 DEF IInv, TypeOK, vars, sendVars, MessagesOf
  <2>2. SlotsAreKept'
    BY <1>8 DEF IInv, SlotsAreKept, vars, Active, Of
  <2> QED BY <1>8, <2>1, <2>2, SameJobs DEF vars, IInv, Finite
<1> QED BY <1>1, <1>2, <1>3, <1>4, <1>5, <1>6, <1>7, <1>8 DEF Next

THEOREM Invariant == Spec => []IInv
BY InitIInv, StepIInv, PTL DEF Spec

\* The states of a queue and its consumers have their types.
THEOREM TypeCorrect == Spec => []TypeOK
<1>1. IInv => TypeOK
  BY DEF IInv
<1> QED BY Invariant, <1>1, PTL

\* Whatever the queue delivers again, a pool never runs more handlers than its
\* concurrency, and when it is over none runs any more.
THEOREM PoolAccounts == Spec => []PoolAccountsForItsJobs
<1>1. IInv => PoolAccountsForItsJobs
  <2> SUFFICES ASSUME IInv, NEW p \in Pools
               PROVE  Active(p) <= Concurrency /\ (loop[p] = "stopped" => Of(p) = {})
    BY DEF PoolAccountsForItsJobs
  <2>1. Active(p) \in Nat /\ asked[p] \in Nat
    BY ActiveIsNat DEF IInv, Finite, TypeOK, Consumers
  <2> QED BY <2>1, QueueAssumption DEF IInv, SlotsAreKept
<1> QED BY Invariant, <1>1, PTL

-----------------------------------------------------------------------------
(***************************************************************************)
(* The refinement: each step of the queue and its consumers is a step of   *)
(* AtLeastOnce, or leaves its variables alone.                             *)
(***************************************************************************)
LEMMA StoreIsSend ==
  ASSUME NEW m \in Messages, NEW c, c.msg = m, Store(c), handled' = handled
  PROVE  Delivery!Send(m)
BY DEF Store, Delivery!Send, MessagesOf

\* The last copy of a message leaves the queue, or one of several.
LEMMA AckSettles ==
  ASSUME IInv, NEW j \in jobs, Acks(j)
  PROVE  Delivery!Settle(j.copy.msg) \/ UNCHANGED Delivery!vars
<1>1. j.copy.msg \in handled
  BY DEF Acks, IInv, AcksAreDue
<1>2. stored' = stored /\ handled' = handled /\ queue' \in {queue, queue \ {j.copy}}
  BY DEF Acks
<1>3. CASE MessagesOf(queue)' = MessagesOf(queue)
  BY <1>2, <1>3 DEF Delivery!vars, MessagesOf
<1>4. CASE MessagesOf(queue)' # MessagesOf(queue)
  <2>1. /\ j.copy.msg \in MessagesOf(queue)
        /\ MessagesOf(queue)' = MessagesOf(queue) \ {j.copy.msg}
    BY <1>2, <1>4 DEF MessagesOf
  <2> QED BY <1>1, <1>2, <2>1 DEF Delivery!Settle, MessagesOf
<1> QED BY <1>3, <1>4

LEMMA StepRefines == IInv /\ [Next]_vars => [Delivery!Next]_(Delivery!vars)
<1> SUFFICES ASSUME IInv, [Next]_vars PROVE [Delivery!Next]_(Delivery!vars)
  OBVIOUS
<1> USE DEF Delivery!Next
<1>1. ASSUME UNCHANGED <<stored, queue, handled>> PROVE UNCHANGED Delivery!vars
  BY <1>1 DEF Delivery!vars, MessagesOf
<1>2. ASSUME NEW m \in Messages, Publish(m) PROVE [Delivery!Next]_(Delivery!vars)
  <2> DEFINE c == [msg |-> m, n |-> calls[m] + 1]
  <2>1. handled' = handled
    BY <1>2 DEF Publish
  <2>2. Store(c) \/ UNCHANGED <<stored, queue>>
    BY <1>2 DEF Publish
  <2>3. CASE Store(c)
    BY <2>1, <2>3, StoreIsSend
  <2> QED BY <2>1, <2>2, <2>3, <1>1
<1>3. ASSUME NEW c \in late, ArrivesLate(c) PROVE [Delivery!Next]_(Delivery!vars)
  <2>1. c.msg \in Messages
    BY DEF IInv, TypeOK, Copies
  <2> QED BY <1>3, <2>1, StoreIsSend DEF ArrivesLate
<1>4. ASSUME NEW j \in jobs, JobStep(j) PROVE [Delivery!Next]_(Delivery!vars)
  <2>1. j.copy.msg \in Messages /\ j.copy.msg \in MessagesOf(stored)
    BY DEF IInv, TypeOK, Jobs, Copies, MessagesOf
  <2>2. CASE HandlerIsDone(j)
    <3>1. Delivery!Handle(j.copy.msg)
      BY <2>1, <2>2 DEF HandlerIsDone, Delivery!Handle, MessagesOf
    <3> QED BY <2>1, <3>1
  <2>3. CASE HandlerFails(j)
    BY <1>1, <2>3 DEF HandlerFails
  <2>4. CASE Acks(j)
    BY <2>1, <2>4, AckSettles
  <2> QED BY <1>4, <2>2, <2>3, <2>4 DEF JobStep
<1>5. ASSUME NEW p \in Pools, PoolStep(p) PROVE UNCHANGED <<stored, queue, handled>>
  BY <1>5 DEF PoolStep, AsksForMore, Pauses, WakesUp, ReceivesInVain, Receives, Stops, Drained
<1>6. ASSUME NEW p \in Servers, NEW c \in ready, IsPushed(p, c)
      PROVE UNCHANGED <<stored, queue, handled>>
  BY <1>6 DEF IsPushed
<1>7. ASSUME NEW p \in Consumers, Dies(p) PROVE UNCHANGED <<stored, queue, handled>>
  BY <1>7 DEF Dies
<1>8. ASSUME NEW c \in queue, LeaseEnds(c) PROVE UNCHANGED <<stored, queue, handled>>
  BY <1>8 DEF LeaseEnds
<1>9. ASSUME UNCHANGED vars PROVE UNCHANGED <<stored, queue, handled>>
  BY <1>9 DEF vars
<1> QED BY <1>1, <1>2, <1>3, <1>4, <1>5, <1>6, <1>7, <1>8, <1>9 DEF Next

\* The queue with its senders and consumers delivers at least once, in spite of
\* calls that fail or are late, handlers that throw and processes that die.
THEOREM QueuesDeliver == Spec => DeliverySpec
<1>1. Init => Delivery!Init
  BY DEF Init, Delivery!Init, MessagesOf
<1> QED BY <1>1, Invariant, StepRefines, PTL DEF Spec, DeliverySpec, Delivery!Spec

\* So no message that was stored is lost.
THEOREM NoMessageIsLost == Spec => []Delivery!NothingIsLost
BY QueuesDeliver, NothingIsEverLost DEF DeliverySpec
=============================================================================
