------------------------ MODULE ArchiveFanoutProofs ------------------------
(***************************************************************************)
(* Theorems of ArchiveFanout, for any archive, any number of consumers and *)
(* any bound on faults.                                                    *)
(***************************************************************************)
EXTENDS ArchiveFanout, TLAPS

RowStatuses == {"pending", "processing", "completed", "failed"}
Row == [entry : Large, status : RowStatuses]

-----------------------------------------------------------------------------
(***************************************************************************)
(* The rows: appended and marked, never removed or renamed.                *)
(***************************************************************************)
RowsKept ==
  /\ DOMAIN rows \subseteq DOMAIN rows'
  /\ \A id \in DOMAIN rows : rows'[id].entry = rows[id].entry

LEMMA RowCreated ==
  ASSUME rows \in Seq(Row), NEW e \in Large, CreatePendingEntry(e)
  PROVE  /\ rows' \in Seq(Row) /\ RowsKept
         /\ DOMAIN rows' = DOMAIN rows \union {Len(rows) + 1}
         /\ Len(rows) + 1 \notin DOMAIN rows /\ Len(rows) + 1 \in Nat \ {0}
         /\ \A id \in DOMAIN rows : rows'[id] = rows[id]
         /\ rows'[Len(rows) + 1] = [entry |-> e, status |-> "pending"]
<1>1. [entry |-> e, status |-> "pending"] \in Row
  BY DEF Row, RowStatuses
<1>2. rows' = Append(rows, [entry |-> e, status |-> "pending"])
  BY DEF CreatePendingEntry
<1>3. DOMAIN rows = 1..Len(rows) /\ Len(rows) \in Nat
  OBVIOUS
<1>4. Len(rows') = Len(rows) + 1 /\ DOMAIN rows' = 1..Len(rows') /\ rows' \in Seq(Row)
  BY <1>1, <1>2
<1>5. \A id \in 1..Len(rows) : rows'[id] = rows[id]
  BY <1>1, <1>2
<1>6. rows'[Len(rows) + 1] = [entry |-> e, status |-> "pending"]
  BY <1>1, <1>2
<1> QED BY <1>3, <1>4, <1>5, <1>6 DEF RowsKept

\* A row is as it was, or it is a new one.
LEMMA RowCreatedStatus ==
  ASSUME rows \in Seq(Row), NEW e \in Large, CreatePendingEntry(e)
  PROVE  \A i \in DOMAIN rows' : \/ i \in DOMAIN rows /\ rows'[i] = rows[i]
                                 \/ rows'[i].status = "pending"
<1>0. rows'[Len(rows) + 1] = [entry |-> e, status |-> "pending"]
  BY RowCreated
<1>1. rows'[Len(rows) + 1].status = "pending"
  BY <1>0
<1> QED BY <1>1, RowCreated

LEMMA RowMarked ==
  ASSUME rows \in Seq(Row), NEW id \in DOMAIN rows, NEW s \in RowStatuses, MarkStatus(id, s)
  PROVE  /\ rows' \in Seq(Row) /\ RowsKept
         /\ DOMAIN rows' = DOMAIN rows
         /\ rows'[id].status = s
         /\ \A i \in DOMAIN rows \ {id} : rows'[i] = rows[i]
<1>1. DOMAIN rows = 1..Len(rows) /\ Len(rows) \in Nat
  OBVIOUS
<1>2. rows' = [rows EXCEPT ![id].status = s]
  BY DEF MarkStatus
<1>3. \A i \in 1..Len(rows) : rows[i] \in Row
  OBVIOUS
<1>4. [rows[id] EXCEPT !.status = s] \in Row
  BY <1>1, <1>3 DEF Row
<1>5. rows' = [i \in 1..Len(rows) |-> IF i = id THEN [rows[id] EXCEPT !.status = s]
                                      ELSE rows[i]]
  BY <1>1, <1>2
<1>6. \A i \in 1..Len(rows) : rows'[i] \in Row
  BY <1>1, <1>3, <1>4, <1>5
<1>7. rows' \in Seq(Row)
  BY <1>1, <1>5, <1>6
<1>8. rows'[id].status = s /\ rows'[id].entry = rows[id].entry
  BY <1>1, <1>3, <1>5 DEF Row
<1> QED BY <1>1, <1>5, <1>7, <1>8 DEF RowsKept

-----------------------------------------------------------------------------
(***************************************************************************)
(* Types.  An archive inside the archive is handled by the steps for       *)
(* archives, and only a consumer at work holds a lease.                    *)
(***************************************************************************)
TypeInv ==
  /\ TypeOK
  /\ \A w \in Consumers : /\ pc[w] \in {"nested", "fan"} => Entry(w) \in Archives
                          /\ leased[w] => pc[w] # "idle"

LEMMA EntriesOfArchives ==
  /\ Large \subseteq Entries /\ Archives \subseteq Large
  /\ \A a \in Archives : Inside[a] \subseteq Entries
BY ArchiveAssumption DEF Archives

LEMMA TypedRow ==
  ASSUME TypeOK
  PROVE  /\ rows \in Seq(Row)
         /\ \A id \in DOMAIN rows : id \in Nat \ {0} /\ rows[id] \in Row /\ rows[id].entry \in Large
         /\ DOMAIN rows = 1..Len(rows) /\ Len(rows) \in Nat
<1>1. rows \in Seq(Row)
  BY DEF TypeOK, Row, RowStatuses
<1>2. DOMAIN rows = 1..Len(rows) /\ Len(rows) \in Nat /\ \A id \in 1..Len(rows) : rows[id] \in Row
  BY <1>1
<1>3. \A r \in Row : r.entry \in Large
  BY DEF Row
<1> QED BY <1>1, <1>2, <1>3

LEMMA TypedHeld ==
  ASSUME TypeOK, NEW w \in Consumers, pc[w] # "idle"
  PROVE  held[w] \in DOMAIN rows /\ Entry(w) \in Large /\ Entry(w) \in Entries
<1>1. held[w] \in DOMAIN rows
  BY DEF TypeOK, Ids
<1> QED BY <1>1, TypedRow, EntriesOfArchives DEF Entry

\* What happens to the rows in a step: nothing, or one is added, or one is marked by
\* the consumer that holds it.
Marks(w, s) ==
  /\ MarkStatus(held[w], s)
  /\ UNCHANGED held
  /\ \/ pc[w] = "mark" /\ s = "processing" /\ pc' = [pc EXCEPT ![w] = "extract"]
     \/ pc[w] = "complete" /\ s = "completed" /\ pc' = [pc EXCEPT ![w] = "count"]
     \/ pc[w] = "fail" /\ s = "failed" /\ pc' = [pc EXCEPT ![w] = "count failed"]

Creates(a, e) == CreatePendingEntry(e) /\ (RegisterEntry(a, e) \/ Dispatch(a, e))

LEMMA RowsChange ==
  ASSUME [Next]_vars
  PROVE  \/ UNCHANGED rows
         \/ \E a \in Agents, e \in Large : Creates(a, e)
         \/ \E w \in Consumers, s \in RowStatuses : Marks(w, s)
<1> DEFINE Change == \/ UNCHANGED rows
                     \/ \E a \in Agents, e \in Large : Creates(a, e)
                     \/ \E w \in Consumers, s \in RowStatuses : Marks(w, s)
<1>1. ASSUME NEW a \in Agents, NEW e \in Entries,
             \/ RegisterEntry(a, e) \/ ExtractInline(a, e) \/ Dispatch(a, e)
             \/ RegisterFails(a, e) \/ DispatchFails(a, e)
      PROVE  Change
  BY <1>1 DEF Creates, RegisterEntry, ExtractInline, Dispatch, RegisterFails, DispatchFails,
    ExtractRest, IsPending
<1>2. ASSUME NEW a \in Agents, SendEntry(a) \/ SendEntryFails(a)
      PROVE  Change
  BY <1>2 DEF SendEntry, SendEntryFails, EntrySent
<1>3. ASSUME FanOut \/ IngestDone \/ IngestFails \/ ListFails \/ ExtractTimesOut
             \/ IngestDoneFails \/ IngestDies
      PROVE  Change
  BY <1>3 DEF FanOut, IngestDone, IngestFails, ListFails, ExtractTimesOut, IngestDoneFails,
    IngestDies, IngestGoes
<1>4. ASSUME NEW w \in Consumers, MarkProcessing(w) \/ MarkCompleted(w) \/ MarkFailed(w)
      PROVE  Change
  <2>1. MarkProcessing(w) => UNCHANGED rows \/ Marks(w, "processing")
    BY DEF MarkProcessing, Leave, Marks, ConsumerAt, Goto, ConsumerRest
  <2>2. MarkCompleted(w) => UNCHANGED rows \/ Marks(w, "completed")
    BY DEF MarkCompleted, Marks, ConsumerAt, Goto, ConsumerRest
  <2>3. MarkFailed(w) => UNCHANGED rows \/ Marks(w, "failed")
    BY DEF MarkFailed, Leave, Marks, ConsumerAt, Goto, ConsumerRest
  <2> QED BY <1>4, <2>1, <2>2, <2>3 DEF RowStatuses
<1>5. ASSUME NEW w \in Consumers,
             \/ Extract(w) \/ ExtractFails(w) \/ NestedExtracted(w) \/ NestedDispatched(w)
             \/ PublishDiscoveredEntry(w) \/ Count(w) \/ Close(w) \/ DeleteMessage(w)
             \/ NestedFails(w) \/ CompletionThrows(w) \/ ConsumerDies(w) \/ LoseLease(w)
             \/ \E id \in queue : Take(w, id)
      PROVE  UNCHANGED rows
  BY <1>5 DEF Extract, ExtractFails, NestedExtracted, NestedDispatched, PublishDiscoveredEntry,
    Count, Close, DeleteMessage, NestedFails, CompletionThrows, ConsumerDies, LoseLease, Take, Leave
<1>6. ASSUME \/ \E e \in Entries : CreateChildJob(e)
             \/ \E s \in Closings : OnStatusChanged(s)
             \/ UNCHANGED vars
      PROVE  UNCHANGED rows
  BY <1>6 DEF CreateChildJob, OnStatusChanged, vars
<1> QED
  BY <1>1, <1>2, <1>3, <1>4, <1>5, <1>6 DEF Next, ExtractStep, IngestStep, ConsumerStep, Faults

LEMMA RowsStep ==
  ASSUME TypeOK, [Next]_vars
  PROVE  /\ rows' \in Seq(Row) /\ RowsKept
         /\ \A w \in Consumers : pc[w] # "idle" => held[w] \in DOMAIN rows
<1>0. \A w \in Consumers : pc[w] # "idle" => held[w] \in DOMAIN rows
  BY TypedHeld
<1>1. CASE UNCHANGED rows
  BY <1>0, <1>1, TypedRow DEF RowsKept
<1>2. CASE \E a \in Agents, e \in Large : Creates(a, e)
  BY <1>0, <1>2, TypedRow, RowCreated DEF Creates
<1>3. CASE \E w \in Consumers, s \in RowStatuses : Marks(w, s)
  <2>1. PICK w \in Consumers, s \in RowStatuses : Marks(w, s)
    BY <1>3
  <2>2. held[w] \in DOMAIN rows /\ MarkStatus(held[w], s)
    BY <2>1, <1>0 DEF Marks
  <2> QED BY <1>0, <2>2, TypedRow, RowMarked
<1> QED BY <1>1, <1>2, <1>3, RowsChange

\* What a change of the rows leaves alone.
LEMMA IdsStay ==
  ASSUME TypeInv, RowsKept
  PROVE  /\ queue \subseteq DOMAIN rows'
         /\ sending \in [Agents -> {0} \union DOMAIN rows']
         /\ held \in [Consumers -> {0} \union DOMAIN rows']
BY DEF TypeInv, TypeOK, RowsKept, Ids

THEOREM TypeInit == Init => TypeInv
<1> SUFFICES ASSUME Init PROVE TypeInv
  OBVIOUS
<1> USE ArchiveAssumption DEF Init, TypeOK, Ids, PcValues, Agents, Closings, COMPLETED, FAILED,
  INGESTING, Archives
<1>1. rows \in Seq([entry : Large, status : {"pending", "processing", "completed", "failed"}])
  OBVIOUS
<1>2. events \in [Entries \union Closings -> Nat] /\ queue \subseteq Ids
  OBVIOUS
<1>3. todo \in [Agents -> SUBSET Entries]
  OBVIOUS
<1>4. sending \in [Agents -> {0} \union Ids]
  OBVIOUS
<1>5. failures \in Nat /\ accidents \in Nat /\ failures + accidents <= MaxFaults
  OBVIOUS
<1>6. held \in [Consumers -> {0} \union Ids] /\ pc \in [Consumers -> PcValues]
  OBVIOUS
<1>7. /\ source \in Sources /\ parent \in {INGESTING, COMPLETED, FAILED}
      /\ children \in [Entries -> Nat] /\ deleted \subseteq Archives
      /\ ingest \in {"extract", "fanout", "failing", "failing again", "done"}
      /\ hasPending \in BOOLEAN
  OBVIOUS
<1>8. /\ out \in [Agents -> SUBSET Entries] /\ fan \in [Agents -> SUBSET Entries]
      /\ leased \in [Consumers -> BOOLEAN] /\ verdict \in [Consumers -> Closings]
  OBVIOUS
<1>9. \A w \in Consumers : held[w] = 0 /\ pc[w] = "idle" /\ ~leased[w]
  OBVIOUS
<1>10. TypeOK
  BY <1>1, <1>2, <1>3, <1>4, <1>5, <1>6, <1>7, <1>8, <1>9
<1> QED BY <1>9, <1>10 DEF TypeInv

\* The counters of what went wrong only grow, and by one.
LEMMA BoundsChange ==
  ASSUME [Next]_vars
  PROVE  Goes \/ Throws \/ Accident
<1>1. ASSUME NEW a \in Agents, NEW e \in Entries,
             \/ RegisterEntry(a, e) \/ ExtractInline(a, e) \/ Dispatch(a, e)
             \/ RegisterFails(a, e) \/ DispatchFails(a, e)
      PROVE  Goes \/ Throws
  BY <1>1 DEF RegisterEntry, ExtractInline, Dispatch, RegisterFails, DispatchFails
<1>2. ASSUME NEW a \in Agents, SendEntry(a) \/ SendEntryFails(a)
      PROVE  Goes \/ Throws
  BY <1>2 DEF SendEntry, SendEntryFails
<1>3. ASSUME FanOut \/ IngestDone \/ IngestFails \/ ListFails \/ ExtractTimesOut
             \/ IngestDoneFails \/ IngestDies
      PROVE  Goes \/ Throws
  BY <1>3 DEF FanOut, IngestDone, IngestFails, ListFails, ExtractTimesOut, IngestDoneFails,
    IngestDies
<1>4. ASSUME NEW w \in Consumers,
             \/ MarkProcessing(w) \/ MarkCompleted(w) \/ MarkFailed(w)
             \/ Extract(w) \/ ExtractFails(w) \/ NestedExtracted(w) \/ NestedDispatched(w)
             \/ PublishDiscoveredEntry(w) \/ Count(w) \/ Close(w) \/ DeleteMessage(w)
      PROVE  Goes \/ Throws
  BY <1>4 DEF MarkProcessing, MarkCompleted, MarkFailed, Extract, ExtractFails, NestedExtracted,
    NestedDispatched, PublishDiscoveredEntry, Count, Close, DeleteMessage
<1>5. ASSUME NEW w \in Consumers,
             \/ NestedFails(w) \/ CompletionThrows(w) \/ ConsumerDies(w) \/ LoseLease(w)
             \/ \E id \in queue : Take(w, id)
      PROVE  Goes \/ Throws \/ Accident
  BY <1>5 DEF NestedFails, CompletionThrows, ConsumerDies, LoseLease, Take
<1>6. ASSUME \/ \E e \in Entries : CreateChildJob(e)
             \/ \E s \in Closings : OnStatusChanged(s)
             \/ UNCHANGED vars
      PROVE  Goes \/ Accident
  BY <1>6 DEF CreateChildJob, OnStatusChanged, Consume, Repeat, Goes, vars
<1> QED
  BY <1>1, <1>2, <1>3, <1>4, <1>5, <1>6 DEF Next, ExtractStep, IngestStep, ConsumerStep, Faults

LEMMA Bounded ==
  ASSUME TypeOK, [Next]_vars
  PROVE  /\ failures' \in Nat /\ accidents' \in Nat /\ failures' + accidents' <= MaxFaults
         /\ failures <= failures' /\ accidents <= accidents'
<1>1. failures \in Nat /\ accidents \in Nat /\ MaxFaults \in Nat /\ failures + accidents <= MaxFaults
  BY ArchiveAssumption DEF TypeOK
<1>2. CASE Goes
  BY <1>1, <1>2 DEF Goes, bounds
<1>3. CASE Throws
  BY <1>1, <1>3 DEF Throws, MayFail
<1>4. CASE Accident
  BY <1>1, <1>4 DEF Accident, MayFail
<1> QED BY <1>2, <1>3, <1>4, BoundsChange

\* What happens to the events and the child jobs in a step.
LEMMA EventsChange ==
  ASSUME TypeOK, [Next]_vars
  PROVE  \/ UNCHANGED <<events, children>>
         \/ UNCHANGED children /\ \E x \in Entries \union Closings : Publish(x)
         \/ UNCHANGED children /\ \E s \in Closings : Consume(s)
         \/ \E e \in Entries : CreateChildJob(e)
<1> DEFINE Change == \/ UNCHANGED <<events, children>>
                     \/ UNCHANGED children /\ \E x \in Entries \union Closings : Publish(x)
                     \/ UNCHANGED children /\ \E s \in Closings : Consume(s)
                     \/ \E e \in Entries : CreateChildJob(e)
<1>1. ASSUME NEW a \in Agents, NEW e \in Entries,
             \/ RegisterEntry(a, e) \/ ExtractInline(a, e) \/ Dispatch(a, e)
             \/ RegisterFails(a, e) \/ DispatchFails(a, e)
      PROVE  Change
  BY <1>1 DEF RegisterEntry, ExtractInline, Dispatch, RegisterFails, DispatchFails, ExtractRest,
    jobVars
<1>2. ASSUME NEW a \in Agents, SendEntry(a) \/ SendEntryFails(a)
      PROVE  Change
  BY <1>2 DEF SendEntry, SendEntryFails, EntrySent, ExtractRest, jobVars
<1>3. ASSUME FanOut \/ IngestDone \/ IngestFails \/ ListFails \/ ExtractTimesOut
             \/ IngestDoneFails \/ IngestDies
      PROVE  Change
  BY <1>3 DEF FanOut, IngestDone, IngestFails, ListFails, ExtractTimesOut, IngestDoneFails,
    IngestDies, IngestGoes, jobVars, Closings
<1>4. ASSUME NEW w \in Consumers, PublishDiscoveredEntry(w) \/ Close(w)
      PROVE  Change
  <2>1. pc[w] # "idle" => Entry(w) \in Entries
    BY TypedHeld
  <2>2. verdict[w] \in Closings
    BY DEF TypeOK
  <2> QED BY <1>4, <2>1, <2>2 DEF PublishDiscoveredEntry, Close, ConsumerAt, ConsumerRest, jobVars
<1>5. ASSUME NEW w \in Consumers,
             \/ Extract(w) \/ ExtractFails(w) \/ NestedExtracted(w) \/ NestedDispatched(w)
             \/ Count(w) \/ DeleteMessage(w) \/ MarkProcessing(w) \/ MarkCompleted(w)
             \/ MarkFailed(w) \/ NestedFails(w) \/ CompletionThrows(w) \/ ConsumerDies(w)
             \/ LoseLease(w) \/ \E id \in queue : Take(w, id)
      PROVE  Change
  BY <1>5 DEF Extract, ExtractFails, NestedExtracted, NestedDispatched, MarkProcessing,
    MarkCompleted, MarkFailed, Count, DeleteMessage, NestedFails, CompletionThrows, ConsumerDies,
    LoseLease, Take, Leave, ConsumerRest, jobVars
<1>6. ASSUME \/ \E e \in Entries : CreateChildJob(e)
             \/ \E s \in Closings : OnStatusChanged(s)
             \/ UNCHANGED vars
      PROVE  Change
  BY <1>6 DEF OnStatusChanged, Repeat, vars, jobVars
<1> QED
  BY <1>1, <1>2, <1>3, <1>4, <1>5, <1>6 DEF Next, ExtractStep, IngestStep, ConsumerStep, Faults

LEMMA EventsTyped ==
  ASSUME TypeOK, [Next]_vars
  PROVE  events' \in [Entries \union Closings -> Nat] /\ children' \in [Entries -> Nat]
<1>1. events \in [Entries \union Closings -> Nat] /\ children \in [Entries -> Nat]
  BY DEF TypeOK
<1>2. CASE UNCHANGED children /\ \E x \in Entries \union Closings : Publish(x)
  BY <1>1, <1>2 DEF Publish
<1>3. CASE UNCHANGED children /\ \E s \in Closings : Consume(s)
  BY <1>1, <1>3 DEF Consume
<1>4. CASE \E e \in Entries : CreateChildJob(e)
  BY <1>1, <1>4 DEF CreateChildJob, Consume, Repeat
<1> QED BY <1>1, <1>2, <1>3, <1>4, EventsChange

-----------------------------------------------------------------------------
(***************************************************************************)
(* What happens to the consumers in a step: one goes on with its message,  *)
(* or takes one, or leaves it, or the queue takes it back.                 *)
(***************************************************************************)
Working == {"mark", "extract", "nested", "fan", "publish", "complete", "fail"}
Delivery == <<queue, held, leased>>

GoesOn(w, step) ==
  /\ pc' = [pc EXCEPT ![w] = step]
  /\ UNCHANGED Delivery
  /\ pc[w] # "idle"
  /\ pc[w] \in Working /\ step \notin Working =>
       \E s \in {"completed", "failed"} : MarkStatus(held[w], s)
  /\ step = "nested" => Entry(w) \in Archives
  /\ step = "fan" => pc[w] = "nested"
  /\ step = "complete" => pc[w] = "fan" \/ (pc[w] = "publish" /\ Publish(Entry(w)))

Leaves(w) ==
  /\ pc[w] # "idle"
  /\ pc' = [pc EXCEPT ![w] = "idle"]
  /\ held' = [held EXCEPT ![w] = 0]
  /\ leased' = [leased EXCEPT ![w] = FALSE]
  /\ \/ GiveBack(w) /\ (Throws \/ Accident)
     \/ UNCHANGED queue /\ pc[w] = "delete"

LEMMA ConsumersChange ==
  ASSUME [Next]_vars
  PROVE  \/ UNCHANGED <<pc, held, leased>> /\ (UNCHANGED queue \/ \E a \in Agents : SendEntry(a))
         \/ \E w \in Consumers : \/ \E step \in PcValues \ {"idle"} : GoesOn(w, step)
                                 \/ \E id \in queue : Take(w, id)
                                 \/ Leaves(w)
                                 \/ LoseLease(w)
<1> DEFINE Change == \/ UNCHANGED <<pc, held, leased>> /\ (UNCHANGED queue \/ \E a \in Agents : SendEntry(a))
                     \/ \E w \in Consumers : \/ \E step \in PcValues \ {"idle"} : GoesOn(w, step)
                                             \/ \E id \in queue : Take(w, id)
                                             \/ Leaves(w)
                                             \/ LoseLease(w)
           On(w) == \/ \E step \in PcValues \ {"idle"} : GoesOn(w, step)
                    \/ Leaves(w)
<1>1. ASSUME NEW a \in Agents, NEW e \in Entries,
             \/ RegisterEntry(a, e) \/ ExtractInline(a, e) \/ Dispatch(a, e) \/ RegisterFails(a, e)
      PROVE  Change
  BY <1>1 DEF RegisterEntry, ExtractInline, Dispatch, RegisterFails, ExtractRest, consumerVars
<1>2. ASSUME NEW a \in Agents, NEW e \in Entries, DispatchFails(a, e)
      PROVE  Change
  <2>1. CASE a # Ingest /\ pc[a] = "fan"
    <3>1. a \in Consumers
      BY <2>1 DEF Agents
    <3>2. GoesOn(a, "publish")
      BY <1>2, <2>1 DEF DispatchFails, GoesOn, Delivery, Working
    <3> QED BY <3>1, <3>2 DEF PcValues
  <2>2. CASE ~(a # Ingest /\ pc[a] = "fan")
    BY <1>2, <2>2 DEF DispatchFails
  <2> QED BY <2>1, <2>2
<1>3. ASSUME NEW a \in Agents, SendEntry(a) \/ SendEntryFails(a)
      PROVE  Change
  BY <1>3 DEF SendEntry, SendEntryFails, EntrySent, ExtractRest, consumerVars
<1>4. ASSUME FanOut \/ IngestDone \/ IngestFails \/ ListFails \/ ExtractTimesOut
             \/ IngestDoneFails \/ IngestDies
      PROVE  Change
  BY <1>4 DEF FanOut, IngestDone, IngestFails, ListFails, ExtractTimesOut, IngestDoneFails,
    IngestDies, IngestGoes, consumerVars
<1>5. ASSUME NEW w \in Consumers, MarkProcessing(w) \/ MarkCompleted(w) \/ MarkFailed(w)
      PROVE  On(w)
  <2>1. MarkProcessing(w) => GoesOn(w, "extract") \/ Leaves(w)
    BY DEF MarkProcessing, Leave, GoesOn, Leaves, ConsumerAt, Goto, ConsumerRest, Delivery, Working
  <2>2. MarkCompleted(w) => GoesOn(w, "count") \/ GoesOn(w, "fail")
    BY DEF MarkCompleted, GoesOn, ConsumerAt, Goto, ConsumerRest, Delivery, Working
  <2>3. MarkFailed(w) => GoesOn(w, "count failed") \/ Leaves(w)
    BY DEF MarkFailed, Leave, GoesOn, Leaves, ConsumerAt, Goto, ConsumerRest, Delivery, Working
  <2> QED BY <1>5, <2>1, <2>2, <2>3 DEF PcValues
<1>6. ASSUME NEW w \in Consumers, Extract(w) \/ ExtractFails(w) \/ NestedExtracted(w)
      PROVE  On(w)
  <2>1. Extract(w) => GoesOn(w, "nested") \/ GoesOn(w, "publish")
    BY DEF Extract, GoesOn, ConsumerAt, Goto, ConsumerRest, Delivery, Working
  <2>2. ExtractFails(w) => GoesOn(w, "fail")
    BY DEF ExtractFails, GoesOn, ConsumerAt, Goto, ConsumerRest, Delivery, Working
  <2>3. NestedExtracted(w) => GoesOn(w, "fan")
    BY DEF NestedExtracted, GoesOn, ConsumerAt, Goto, ConsumerRest, Delivery, Working
  <2> QED BY <1>6, <2>1, <2>2, <2>3 DEF PcValues
<1>7. ASSUME NEW w \in Consumers,
             NestedFails(w) \/ NestedDispatched(w) \/ PublishDiscoveredEntry(w)
      PROVE  On(w)
  <2>1. NestedFails(w) => GoesOn(w, "publish")
    BY DEF NestedFails, GoesOn, ConsumerAt, Goto, ConsumerRest, Delivery, Working
  <2>2. NestedDispatched(w) => GoesOn(w, "complete")
    BY DEF NestedDispatched, GoesOn, ConsumerAt, Goto, ConsumerRest, Delivery, Working
  <2>3. PublishDiscoveredEntry(w) => GoesOn(w, "complete") \/ GoesOn(w, "fail")
    BY DEF PublishDiscoveredEntry, GoesOn, ConsumerAt, Goto, ConsumerRest, Delivery, Working
  <2> QED BY <1>7, <2>1, <2>2, <2>3 DEF PcValues
<1>8. ASSUME NEW w \in Consumers, Count(w) \/ Close(w) \/ CompletionThrows(w)
      PROVE  On(w)
  <2>1. Count(w) => GoesOn(w, "delete") \/ GoesOn(w, "close") \/ GoesOn(w, "close failed")
    BY DEF Count, GoesOn, ConsumerAt, Goto, ConsumerRest, Delivery, Working
  <2>2. Close(w) => GoesOn(w, "delete")
    BY DEF Close, GoesOn, ConsumerAt, Goto, ConsumerRest, Delivery, Working
  <2>3. CompletionThrows(w) => GoesOn(w, "fail") \/ Leaves(w)
    BY DEF CompletionThrows, Leave, GoesOn, Leaves, Goto, ConsumerRest, Delivery, Working
  <2> QED BY <1>8, <2>1, <2>2, <2>3 DEF PcValues
<1>9. ASSUME NEW w \in Consumers, DeleteMessage(w) \/ ConsumerDies(w)
      PROVE  On(w)
  BY <1>9 DEF DeleteMessage, ConsumerDies, Leave, Leaves, ConsumerAt, Goto
<1>10. ASSUME \/ \E e \in Entries : CreateChildJob(e)
              \/ \E s \in Closings : OnStatusChanged(s)
              \/ UNCHANGED vars
       PROVE  Change
  BY <1>10 DEF CreateChildJob, OnStatusChanged, vars, consumerVars
<1>11. ASSUME NEW w \in Consumers, LoseLease(w) \/ \E id \in queue : Take(w, id)
       PROVE  Change
  BY <1>11
<1> HIDE DEF Change, On
<1>12. ASSUME NEW w \in Consumers, On(w)
       PROVE  Change
  BY <1>12 DEF Change, On
<1>13. Change
  BY <1>1, <1>2, <1>3, <1>4, <1>5, <1>6, <1>7, <1>8, <1>9, <1>10, <1>11, <1>12
     DEF Next, ExtractStep, IngestStep, ConsumerStep, Faults
<1> QED BY <1>13 DEF Change

-----------------------------------------------------------------------------
(***************************************************************************)
(* Every step keeps the types.                                             *)
(***************************************************************************)
Scalars ==
  /\ source \in Sources
  /\ parent \in {INGESTING, COMPLETED, FAILED}
  /\ deleted \subseteq Archives
  /\ ingest \in {"extract", "fanout", "failing", "failing again", "done"}
  /\ hasPending \in BOOLEAN
  /\ verdict \in [Consumers -> Closings]

Extraction ==
  /\ todo \in [Agents -> SUBSET Entries]
  /\ out \in [Agents -> SUBSET Entries]
  /\ fan \in [Agents -> SUBSET Entries]

LEMMA ScalarsStep ==
  ASSUME TypeInv, [Next]_vars
  PROVE  Scalars'
<1>0. Scalars
  BY DEF TypeInv, TypeOK, Scalars
<1>1. ASSUME NEW a \in Agents, NEW e \in Entries,
             \/ RegisterEntry(a, e) \/ ExtractInline(a, e) \/ Dispatch(a, e)
             \/ RegisterFails(a, e) \/ DispatchFails(a, e)
      PROVE  Scalars'
  BY <1>0, <1>1 DEF Scalars, RegisterEntry, ExtractInline, Dispatch, RegisterFails, DispatchFails,
    ExtractRest, jobVars, ingestVars, consumerVars
<1>2. ASSUME NEW a \in Agents, SendEntry(a) \/ SendEntryFails(a)
      PROVE  Scalars'
  BY <1>0, <1>2 DEF Scalars, SendEntry, SendEntryFails, EntrySent, ExtractRest, jobVars,
    ingestVars, consumerVars
<1>3. ASSUME FanOut \/ IngestDone \/ IngestFails \/ ListFails \/ ExtractTimesOut
             \/ IngestDoneFails \/ IngestDies
      PROVE  Scalars'
  BY <1>0, <1>3 DEF Scalars, FanOut, IngestDone, IngestFails, ListFails, ExtractTimesOut,
    IngestDoneFails, IngestDies, IngestGoes, jobVars, consumerVars
<1>4. ASSUME NEW w \in Consumers, NestedExtracted(w)
      PROVE  Scalars'
  <2>1. Entry(w) \in Archives
    BY <1>4 DEF TypeInv, NestedExtracted, ConsumerAt
  <2> QED BY <1>0, <1>4, <2>1 DEF Scalars, NestedExtracted, ConsumerRest, jobVars, ingestVars
<1>5. ASSUME NEW w \in Consumers,
             \/ Extract(w) \/ ExtractFails(w) \/ NestedDispatched(w) \/ PublishDiscoveredEntry(w)
             \/ Count(w) \/ Close(w) \/ MarkProcessing(w) \/ MarkCompleted(w) \/ MarkFailed(w)
      PROVE  Scalars'
  BY <1>0, <1>5 DEF Scalars, Extract, ExtractFails, NestedDispatched, PublishDiscoveredEntry, Count,
    Close, MarkProcessing, MarkCompleted, MarkFailed, Leave, ConsumerRest, jobVars, ingestVars,
    Closings
<1>6. ASSUME NEW w \in Consumers,
             \/ DeleteMessage(w) \/ NestedFails(w) \/ CompletionThrows(w) \/ ConsumerDies(w)
             \/ LoseLease(w) \/ \E id \in queue : Take(w, id)
      PROVE  Scalars'
  BY <1>0, <1>6 DEF Scalars, DeleteMessage, NestedFails, CompletionThrows, ConsumerDies, LoseLease,
    Take, Leave, ConsumerRest, jobVars, ingestVars
<1>7. ASSUME \/ \E e \in Entries : CreateChildJob(e)
             \/ \E s \in Closings : OnStatusChanged(s)
             \/ UNCHANGED vars
      PROVE  Scalars'
  BY <1>0, <1>7 DEF Scalars, CreateChildJob, OnStatusChanged, Closings, vars, jobVars, ingestVars,
    consumerVars
<1> QED
  BY <1>1, <1>2, <1>3, <1>4, <1>5, <1>6, <1>7 DEF Next, ExtractStep, IngestStep, ConsumerStep, Faults

LEMMA ExtractionStep ==
  ASSUME TypeInv, [Next]_vars
  PROVE  Extraction'
<1>0. Extraction
  BY DEF TypeInv, TypeOK, Extraction
<1>1. ASSUME NEW a \in Agents, NEW e \in Entries,
             RegisterEntry(a, e) \/ Dispatch(a, e) \/ DispatchFails(a, e)
      PROVE  Extraction'
  BY <1>0, <1>1 DEF Extraction, RegisterEntry, Dispatch, DispatchFails, Past, ExtractRest
<1>2. ASSUME NEW a \in Agents, NEW e \in Entries, ExtractInline(a, e) \/ RegisterFails(a, e)
      PROVE  Extraction'
  <2>1. UNCHANGED fan /\ Past(a, e) /\ (Returns(a, e) \/ UNCHANGED out)
    BY <1>2 DEF ExtractInline, RegisterFails, ExtractRest
  <2> QED BY <1>0, <2>1 DEF Extraction, Past, Returns
<1>3. ASSUME NEW a \in Agents, SendEntry(a) \/ SendEntryFails(a)
      PROVE  Extraction'
  <2>1. sending[a] \in DOMAIN rows
    BY <1>3 DEF TypeInv, TypeOK, Ids, SendEntry, SendEntryFails, EntrySent
  <2>2. rows[sending[a]].entry \in Entries
    BY <2>1, TypedRow, EntriesOfArchives DEF TypeInv
  <2>3. UNCHANGED <<todo, fan>> /\ Returns(a, rows[sending[a]].entry)
    BY <1>3 DEF SendEntry, SendEntryFails, EntrySent, ExtractRest
  <2> QED BY <1>0, <2>2, <2>3 DEF Extraction, Returns
<1>4. ASSUME FanOut \/ IngestDone \/ IngestFails \/ ListFails \/ ExtractTimesOut
             \/ IngestDoneFails \/ IngestDies
      PROVE  Extraction'
  <2>1. \/ UNCHANGED <<todo, fan>>
        \/ UNCHANGED todo /\ fan' = [fan EXCEPT ![Ingest] = out[Ingest]]
        \/ todo' = [todo EXCEPT ![Ingest] = {}] /\ UNCHANGED fan
        \/ todo' = [todo EXCEPT ![Ingest] = {}] /\ fan' = [fan EXCEPT ![Ingest] = {}]
    BY <1>4 DEF FanOut, IngestDone, IngestFails, ListFails, ExtractTimesOut, IngestDoneFails,
      IngestDies
  <2>2. UNCHANGED out
    BY <1>4 DEF FanOut, IngestDone, IngestFails, ListFails, ExtractTimesOut, IngestDoneFails,
      IngestDies
  <2>3. out[Ingest] \subseteq Entries
    BY <1>0 DEF Extraction, Agents
  <2> QED BY <1>0, <2>1, <2>2, <2>3 DEF Extraction
<1>5. ASSUME NEW w \in Consumers, Extract(w) \/ NestedExtracted(w)
      PROVE  Extraction'
  <2>1. out[w] \subseteq Entries
    BY <1>0 DEF Extraction, Agents
  <2>2. Entry(w) \in Archives => Inside[Entry(w)] \subseteq Entries
    BY EntriesOfArchives
  <2> QED BY <1>0, <1>5, <2>1, <2>2 DEF Extraction, Extract, NestedExtracted
<1>6. ASSUME NEW w \in Consumers,
             \/ ExtractFails(w) \/ NestedDispatched(w) \/ PublishDiscoveredEntry(w)
             \/ Count(w) \/ Close(w) \/ MarkProcessing(w) \/ MarkCompleted(w) \/ MarkFailed(w)
             \/ DeleteMessage(w) \/ CompletionThrows(w)
             \/ LoseLease(w) \/ \E id \in queue : Take(w, id)
      PROVE  Extraction'
  BY <1>0, <1>6 DEF Extraction, ExtractFails, NestedDispatched, PublishDiscoveredEntry, Count,
    Close, MarkProcessing, MarkCompleted, MarkFailed, DeleteMessage, CompletionThrows, LoseLease,
    Take, extractVars
<1>7. ASSUME NEW w \in Consumers, NestedFails(w) \/ ConsumerDies(w)
      PROVE  Extraction'
  BY <1>0, <1>7 DEF Extraction, NestedFails, ConsumerDies
<1>8. ASSUME \/ \E e \in Entries : CreateChildJob(e)
             \/ \E s \in Closings : OnStatusChanged(s)
             \/ UNCHANGED vars
      PROVE  Extraction'
  BY <1>0, <1>8 DEF Extraction, CreateChildJob, OnStatusChanged, vars, extractVars
<1> QED
  BY <1>1, <1>2, <1>3, <1>4, <1>5, <1>6, <1>7, <1>8
     DEF Next, ExtractStep, IngestStep, ConsumerStep, Faults

LEMMA SendingStep ==
  ASSUME TypeInv, [Next]_vars
  PROVE  sending' \in [Agents -> {0} \union DOMAIN rows']
<1>0. sending \in [Agents -> {0} \union DOMAIN rows']
  BY RowsStep, IdsStay DEF TypeInv
<1>1. ASSUME NEW a \in Agents, NEW e \in Entries, RegisterEntry(a, e)
      PROVE  sending' \in [Agents -> {0} \union DOMAIN rows']
  <2>1. Len(rows) + 1 \in DOMAIN rows'
    BY <1>1, RowCreated, TypedRow DEF RegisterEntry, TypeInv
  <2> QED BY <1>0, <1>1, <2>1 DEF RegisterEntry
<1>2. ASSUME NEW a \in Agents, NEW e \in Entries,
             ExtractInline(a, e) \/ Dispatch(a, e) \/ RegisterFails(a, e) \/ DispatchFails(a, e)
      PROVE  UNCHANGED sending
  BY <1>2 DEF ExtractInline, Dispatch, RegisterFails, DispatchFails
<1>3. ASSUME NEW a \in Agents, SendEntry(a) \/ SendEntryFails(a)
      PROVE  sending' = [sending EXCEPT ![a] = 0]
  BY <1>3 DEF SendEntry, SendEntryFails, EntrySent
<1>4. ASSUME FanOut \/ IngestDone \/ IngestFails \/ ListFails \/ ExtractTimesOut \/ IngestDoneFails
      PROVE  UNCHANGED sending
  BY <1>4 DEF FanOut, IngestDone, IngestFails, ListFails, ExtractTimesOut, IngestDoneFails,
    IngestGoes
<1>5. ASSUME IngestDies
      PROVE  sending' = [sending EXCEPT ![Ingest] = 0]
  BY <1>5 DEF IngestDies
<1>6. ASSUME NEW w \in Consumers,
             \/ MarkProcessing(w) \/ MarkCompleted(w) \/ MarkFailed(w)
             \/ Extract(w) \/ ExtractFails(w) \/ NestedExtracted(w) \/ NestedDispatched(w)
             \/ PublishDiscoveredEntry(w) \/ Count(w) \/ Close(w) \/ DeleteMessage(w)
             \/ NestedFails(w) \/ CompletionThrows(w) \/ LoseLease(w)
             \/ \E id \in queue : Take(w, id)
      PROVE  UNCHANGED sending
  BY <1>6 DEF MarkProcessing, MarkCompleted, MarkFailed, Extract, ExtractFails, NestedExtracted,
    NestedDispatched, PublishDiscoveredEntry, Count, Close, DeleteMessage, NestedFails,
    CompletionThrows, LoseLease, Take, extractVars
<1>7. ASSUME NEW w \in Consumers, ConsumerDies(w)
      PROVE  sending' = [sending EXCEPT ![w] = 0]
  BY <1>7 DEF ConsumerDies
<1>8. ASSUME \/ \E e \in Entries : CreateChildJob(e)
             \/ \E s \in Closings : OnStatusChanged(s)
             \/ UNCHANGED vars
      PROVE  UNCHANGED sending
  BY <1>8 DEF CreateChildJob, OnStatusChanged, vars, extractVars
<1>9. \/ UNCHANGED sending \/ \E a \in Agents, e \in Entries : RegisterEntry(a, e)
      \/ \E a \in Agents : sending' = [sending EXCEPT ![a] = 0]
  BY <1>2, <1>3, <1>4, <1>5, <1>6, <1>7, <1>8
     DEF Next, ExtractStep, IngestStep, ConsumerStep, Faults, Agents
<1> QED BY <1>0, <1>1, <1>9

ConsumersOK ==
  /\ pc \in [Consumers -> PcValues]
  /\ leased \in [Consumers -> BOOLEAN]
  /\ held \in [Consumers -> {0} \union DOMAIN rows]
  /\ queue \subseteq DOMAIN rows
  /\ \A w \in Consumers : (pc[w] = "idle") <=> (held[w] = 0)
  /\ \A w \in Consumers : leased[w] => pc[w] # "idle"

LEMMA ConsumersStep ==
  ASSUME TypeInv, [Next]_vars
  PROVE  ConsumersOK'
<1>0. ConsumersOK /\ ~(0 \in DOMAIN rows)
  BY TypedRow DEF TypeInv, TypeOK, ConsumersOK, Ids
<1>1. DOMAIN rows \subseteq DOMAIN rows'
  BY RowsStep DEF TypeInv, RowsKept
<1>2. ASSUME UNCHANGED <<pc, held, leased>>, UNCHANGED queue \/ \E a \in Agents : SendEntry(a)
      PROVE  ConsumersOK'
  <2>1. \A a \in Agents : sending[a] # 0 => sending[a] \in DOMAIN rows
    BY DEF TypeInv, TypeOK, Ids
  <2>2. queue' \subseteq DOMAIN rows
    BY <1>0, <1>2, <2>1 DEF SendEntry, EntrySent, ConsumersOK
  <2> QED BY <1>0, <1>1, <1>2, <2>2 DEF ConsumersOK
<1>3. ASSUME NEW w \in Consumers, NEW step \in PcValues \ {"idle"}, GoesOn(w, step)
      PROVE  ConsumersOK'
  BY <1>0, <1>1, <1>3 DEF ConsumersOK, GoesOn, Delivery
<1>4. ASSUME NEW w \in Consumers, NEW id \in queue, Take(w, id)
      PROVE  ConsumersOK'
  <2>1. id \in DOMAIN rows' /\ id # 0
    BY <1>0, <1>1, <1>4 DEF ConsumersOK
  <2> QED BY <1>0, <1>1, <1>4, <2>1 DEF ConsumersOK, Take, Goto, PcValues
<1>5. ASSUME NEW w \in Consumers, Leaves(w)
      PROVE  ConsumersOK'
  <2>1. held[w] \in DOMAIN rows'
    BY <1>0, <1>1, <1>5 DEF ConsumersOK, Leaves
  <2>2. queue' \subseteq queue \union {held[w]}
    BY <1>5 DEF Leaves, GiveBack
  <2> QED BY <1>0, <1>1, <1>5, <2>1, <2>2 DEF ConsumersOK, Leaves, PcValues
<1>6. ASSUME NEW w \in Consumers, LoseLease(w)
      PROVE  ConsumersOK'
  <2>1. held[w] \in DOMAIN rows'
    BY <1>0, <1>1, <1>6 DEF ConsumersOK, LoseLease
  <2> QED BY <1>0, <1>1, <1>6, <2>1 DEF ConsumersOK, LoseLease
<1> QED BY <1>2, <1>3, <1>4, <1>5, <1>6, ConsumersChange

\* A consumer that handles an archive keeps its row, and takes an archive up as one.
LEMMA ArchivesStep ==
  ASSUME TypeInv, [Next]_vars
  PROVE  \A w \in Consumers : pc'[w] \in {"nested", "fan"} => Entry(w)' \in Archives
<1> SUFFICES ASSUME NEW w \in Consumers, pc'[w] \in {"nested", "fan"}
             PROVE  Entry(w)' \in Archives
  OBVIOUS
<1>0. pc \in [Consumers -> PcValues] /\ RowsKept
  BY RowsStep DEF TypeInv, TypeOK
<1>1. ASSUME pc[w] # "idle", held'[w] = held[w], Entry(w) \in Archives
      PROVE  Entry(w)' \in Archives
  <2>1. held[w] \in DOMAIN rows
    BY <1>1, TypedHeld DEF TypeInv
  <2> QED BY <1>0, <1>1, <2>1 DEF RowsKept, Entry
<1>2. pc[w] \in {"nested", "fan"} => Entry(w) \in Archives /\ pc[w] # "idle"
  BY DEF TypeInv
<1>3. ASSUME NEW v \in Consumers, NEW step \in PcValues \ {"idle"}, GoesOn(v, step)
      PROVE  pc[w] # "idle" /\ held'[w] = held[w] /\ Entry(w) \in Archives
  <2>1. CASE v = w
    <3>1. step \in {"nested", "fan"}
      BY <1>0, <1>3, <2>1 DEF GoesOn
    <3> QED BY <1>2, <1>3, <2>1, <3>1 DEF GoesOn, Delivery
  <2>2. CASE v # w
    BY <1>0, <1>2, <1>3, <2>2 DEF GoesOn, Delivery
  <2> QED BY <2>1, <2>2
<1>4. ASSUME NEW v \in Consumers,
             (\E id \in queue : Take(v, id)) \/ Leaves(v) \/ LoseLease(v)
      PROVE  pc[w] # "idle" /\ held'[w] = held[w] /\ Entry(w) \in Archives
  BY <1>0, <1>2, <1>4 DEF Take, Leaves, LoseLease, Goto, TypeInv, TypeOK
<1>5. ASSUME UNCHANGED <<pc, held, leased>>
      PROVE  pc[w] # "idle" /\ held'[w] = held[w] /\ Entry(w) \in Archives
  BY <1>2, <1>5
<1> QED BY <1>1, <1>3, <1>4, <1>5, ConsumersChange

THEOREM TypeStep == TypeInv /\ [Next]_vars => TypeInv'
<1> SUFFICES ASSUME TypeInv, [Next]_vars
             PROVE  TypeInv'
  OBVIOUS
<1>1. rows' \in Seq([entry : Large, status : {"pending", "processing", "completed", "failed"}])
  BY RowsStep DEF TypeInv, Row, RowStatuses
<1>2. /\ failures' \in Nat /\ accidents' \in Nat /\ failures' + accidents' <= MaxFaults
      /\ events' \in [Entries \union Closings -> Nat] /\ children' \in [Entries -> Nat]
  BY Bounded, EventsTyped DEF TypeInv
<1>3. Scalars' /\ Extraction' /\ sending' \in [Agents -> {0} \union DOMAIN rows']
  BY ScalarsStep, ExtractionStep, SendingStep
<1>4. ConsumersOK'
  BY ConsumersStep
<1>5. TypeOK'
  BY <1>1, <1>2, <1>3, <1>4 DEF TypeOK, Scalars, Extraction, ConsumersOK, Ids
<1> QED BY <1>4, <1>5, ArchivesStep DEF TypeInv, ConsumersOK

THEOREM TypesHold == Spec => []TypeInv
BY TypeInit, TypeStep, PTL DEF Spec

\* Every variable keeps its type; messages, consumers and extractions refer to rows
\* that exist, for any archive, any number of consumers and any number of faults.
THEOREM TypeCorrect == Spec => []TypeOK
<1>1. TypeInv => TypeOK
  BY DEF TypeInv
<1> QED BY <1>1, TypesHold, PTL

-----------------------------------------------------------------------------
(***************************************************************************)
(* Completed rows.  What a consumer is about to mark as completed is known *)
(* to job-service, and what is known stays known: an event is only taken   *)
(* away by the step that makes the child job.                              *)
(***************************************************************************)
AnnouncedFirst ==
  \A w \in Consumers : pc[w] = "complete" /\ Entry(w) \notin Archives => Discovered(Entry(w))

CompletedInv == TypeInv /\ CompletedEntriesDiscovered /\ AnnouncedFirst

LEMMA DiscoveredStays ==
  ASSUME TypeOK, [Next]_vars, NEW e \in Entries, Discovered(e)
  PROVE  Discovered(e)'
<1>1. events \in [Entries \union Closings -> Nat] /\ children \in [Entries -> Nat]
  BY DEF TypeOK
<1>2. CASE UNCHANGED children /\ \E x \in Entries \union Closings : Publish(x)
  BY <1>1, <1>2 DEF Publish, Discovered
<1>3. CASE UNCHANGED children /\ \E s \in Closings : Consume(s)
  BY <1>1, <1>3, ArchiveAssumption DEF Consume, Discovered
<1>4. CASE \E f \in Entries : CreateChildJob(f)
  <2>1. PICK f \in Entries : CreateChildJob(f)
    BY <1>4
  <2>2. children' = [children EXCEPT ![f] = @ + 1]
    BY <2>1 DEF CreateChildJob
  <2>3. e # f => events'[e] = events[e]
    BY <1>1, <2>1 DEF CreateChildJob, Consume, Repeat
  <2>4. e = f => children'[e] > 0
    BY <1>1, <2>2
  <2> QED BY <1>1, <2>2, <2>3, <2>4 DEF Discovered
<1> QED BY <1>1, <1>2, <1>3, <1>4, EventsChange DEF Discovered

LEMMA AnnouncedStep ==
  ASSUME CompletedInv, [Next]_vars
  PROVE  AnnouncedFirst'
<1> SUFFICES ASSUME NEW w \in Consumers, pc'[w] = "complete", Entry(w)' \notin Archives
             PROVE  Discovered(Entry(w))'
  BY DEF AnnouncedFirst
<1>0. /\ TypeOK /\ pc \in [Consumers -> PcValues] /\ RowsKept
      /\ events \in [Entries \union Closings -> Nat]
  BY RowsStep DEF CompletedInv, TypeInv, TypeOK
<1>1. ASSUME pc[w] # "idle", held'[w] = held[w]
      PROVE  Entry(w)' = Entry(w) /\ Entry(w) \in Entries
  <2>1. held[w] \in DOMAIN rows
    BY <1>0, <1>1, TypedHeld
  <2> QED BY <1>0, <1>1, <2>1, TypedHeld DEF RowsKept, Entry
<1>2. ASSUME pc[w] = "complete", held'[w] = held[w]
      PROVE  Discovered(Entry(w))'
  <2>1. Discovered(Entry(w)) /\ Entry(w)' = Entry(w) /\ Entry(w) \in Entries
    BY <1>1, <1>2 DEF CompletedInv, AnnouncedFirst
  <2>2. ASSUME NEW e \in Entries, Discovered(e), Entry(w)' = e
        PROVE  Discovered(Entry(w))'
    BY <1>0, <2>2, DiscoveredStays DEF Discovered
  <2> QED BY <2>1, <2>2
<1>3. ASSUME NEW step \in PcValues \ {"idle"}, GoesOn(w, step)
      PROVE  Discovered(Entry(w))'
  <2>1. step = "complete" /\ pc[w] # "idle" /\ held'[w] = held[w]
    BY <1>0, <1>3 DEF GoesOn, Delivery
  <2>2. pc[w] # "fan"
    BY <1>1, <2>1 DEF CompletedInv, TypeInv
  <2>3. Publish(Entry(w)) /\ Entry(w)' = Entry(w) /\ Entry(w) \in Entries
    BY <1>1, <1>3, <2>1, <2>2 DEF GoesOn
  <2>4. events'[Entry(w)] > 0
    BY <1>0, <2>3 DEF Publish
  <2> QED BY <2>3, <2>4 DEF Discovered
<1>4. ASSUME NEW v \in Consumers, NEW step \in PcValues \ {"idle"}, GoesOn(v, step), v # w
      PROVE  pc[w] = "complete" /\ held'[w] = held[w]
  BY <1>0, <1>4 DEF GoesOn, Delivery
<1>5. ASSUME NEW v \in Consumers,
             (\E id \in queue : Take(v, id)) \/ Leaves(v) \/ LoseLease(v)
      PROVE  pc[w] = "complete" /\ held'[w] = held[w]
  BY <1>0, <1>5 DEF Take, Leaves, LoseLease, Goto, TypeOK
<1>6. ASSUME UNCHANGED <<pc, held, leased>>
      PROVE  pc[w] = "complete" /\ held'[w] = held[w]
  BY <1>6
<1> QED BY <1>2, <1>3, <1>4, <1>5, <1>6, ConsumersChange

LEMMA CompletedStep ==
  ASSUME CompletedInv, [Next]_vars
  PROVE  CompletedEntriesDiscovered'
<1> SUFFICES ASSUME NEW id \in Ids', rows'[id].status = "completed", rows'[id].entry \notin Archives
             PROVE  Discovered(rows[id].entry)'
  BY DEF CompletedEntriesDiscovered
<1>0. TypeOK /\ RowsKept /\ rows \in Seq(Row)
  BY RowsStep, TypedRow DEF CompletedInv, TypeInv
<1>1. ASSUME id \in Ids, rows[id].status = "completed"
      PROVE  Discovered(rows[id].entry)'
  <2>1. rows'[id].entry = rows[id].entry /\ rows[id].entry \in Entries
    BY <1>0, <1>1, TypedRow, EntriesOfArchives DEF RowsKept, Ids
  <2>2. Discovered(rows[id].entry)
    BY <1>1, <2>1 DEF CompletedInv, CompletedEntriesDiscovered
  <2>3. ASSUME NEW e \in Entries, Discovered(e), rows'[id].entry = e
        PROVE  Discovered(rows[id].entry)'
    BY <1>0, <2>3, DiscoveredStays DEF Discovered
  <2> QED BY <2>1, <2>2, <2>3
<1>2. CASE UNCHANGED rows
  BY <1>1, <1>2 DEF Ids
<1>3. CASE \E a \in Agents, e \in Large : Creates(a, e)
  <2>1. \A i \in DOMAIN rows' : \/ i \in DOMAIN rows /\ rows'[i] = rows[i]
                                \/ rows'[i].status = "pending"
    BY <1>0, <1>3, RowCreatedStatus DEF Creates
  <2> QED BY <1>1, <2>1 DEF Ids
<1>4. ASSUME NEW w \in Consumers, NEW s \in RowStatuses, Marks(w, s)
      PROVE  Discovered(rows[id].entry)'
  <2>1. held[w] \in DOMAIN rows /\ MarkStatus(held[w], s)
    BY <1>0, <1>4, TypedHeld DEF Marks
  <2>2. CASE id = held[w]
    <3>1. s = "completed" /\ pc[w] = "complete"
      BY <1>0, <1>4, <2>1, <2>2, RowMarked DEF Marks
    <3>2. rows'[id].entry = Entry(w) /\ Entry(w) \in Entries
      BY <1>0, <2>1, <2>2, <3>1, TypedHeld DEF RowsKept, Entry
    <3>3. Discovered(Entry(w))
      BY <3>1, <3>2 DEF CompletedInv, AnnouncedFirst
    <3>4. ASSUME NEW e \in Entries, Discovered(e), rows'[id].entry = e
          PROVE  Discovered(rows[id].entry)'
      BY <1>0, <3>4, DiscoveredStays DEF Discovered
    <3> QED BY <3>2, <3>3, <3>4
  <2>3. CASE id # held[w]
    BY <1>0, <1>1, <2>1, <2>3, RowMarked DEF Ids
  <2> QED BY <2>2, <2>3
<1> QED BY <1>2, <1>3, <1>4, RowsChange

LEMMA CompletedInit == Init => CompletedEntriesDiscovered /\ AnnouncedFirst
BY DEF Init, CompletedEntriesDiscovered, AnnouncedFirst, Ids

\* A row says "completed" only when job-service knows of the entry, whatever fails,
\* dies or comes twice, and however archives are nested.
THEOREM CompletedAreDiscovered == Spec => []CompletedEntriesDiscovered
<1>1. Init => CompletedInv
  BY TypeInit, CompletedInit DEF CompletedInv
<1>2. CompletedInv /\ [Next]_vars => CompletedInv'
  BY TypeStep, AnnouncedStep, CompletedStep DEF CompletedInv
<1>3. CompletedInv => CompletedEntriesDiscovered
  BY DEF CompletedInv
<1> QED BY <1>1, <1>2, <1>3, PTL DEF Spec

-----------------------------------------------------------------------------
(***************************************************************************)
(* Processing rows.  A consumer that leaves its message leaves it on the   *)
(* queue if it still has the lease of it.  It takes two faults to leave a  *)
(* row behind: one loses the lease, another cuts off the handler.          *)
(***************************************************************************)
OneFault == accidents = 0 \/ failures + accidents <= 1

LeasesHeld ==
  \A w \in Consumers : pc[w] # "idle" /\ ~leased[w] => accidents > 0

Owned(id) == id \in queue \/ \E w \in Consumers : held[w] = id /\ pc[w] \in Working
Marked(id) == rows[id].status \in {"completed", "failed"}

OwnedAtWork ==
  OneFault => \A id \in Ids : rows[id].status = "processing" => Owned(id)

OwnedInv == TypeInv /\ LeasesHeld /\ OwnedAtWork

LEMMA LeasesStep ==
  ASSUME TypeInv, LeasesHeld, [Next]_vars
  PROVE  LeasesHeld'
<1> SUFFICES ASSUME NEW w \in Consumers, pc'[w] # "idle", ~leased'[w]
             PROVE  accidents' > 0
  BY DEF LeasesHeld
<1>0. /\ pc \in [Consumers -> PcValues] /\ leased \in [Consumers -> BOOLEAN]
      /\ accidents \in Nat /\ accidents' \in Nat /\ accidents <= accidents'
  BY Bounded DEF TypeInv, TypeOK
<1>1. ASSUME pc[w] # "idle", ~leased[w]
      PROVE  accidents' > 0
  BY <1>0, <1>1 DEF LeasesHeld
<1>2. ASSUME NEW v \in Consumers, NEW step \in PcValues \ {"idle"}, GoesOn(v, step)
      PROVE  pc[w] # "idle" /\ ~leased[w]
  BY <1>0, <1>2 DEF GoesOn, Delivery
<1>3. ASSUME NEW v \in Consumers, (\E id \in queue : Take(v, id)) \/ Leaves(v)
      PROVE  pc[w] # "idle" /\ ~leased[w]
  BY <1>0, <1>3 DEF Take, Leaves, Goto
<1>4. ASSUME NEW v \in Consumers, LoseLease(v)
      PROVE  accidents' > 0
  BY <1>0, <1>4 DEF LoseLease, Accident
<1>5. ASSUME UNCHANGED <<pc, held, leased>>
      PROVE  pc[w] # "idle" /\ ~leased[w]
  BY <1>5
<1> QED BY <1>1, <1>2, <1>3, <1>4, <1>5, ConsumersChange

\* What was owned is owned after a step, or its row is marked.
LEMMA OwnerStays ==
  ASSUME TypeInv, LeasesHeld, [Next]_vars, OneFault', NEW id \in Ids, Owned(id)
  PROVE  Owned(id)' \/ Marked(id)'
<1>0. /\ TypeOK /\ pc \in [Consumers -> PcValues] /\ held \in [Consumers -> {0} \union Ids]
      /\ rows \in Seq(Row) /\ leased \in [Consumers -> BOOLEAN]
  BY TypedRow DEF TypeInv, TypeOK
<1> DEFINE Kept == Owned(id)' \/ Marked(id)'
<1>1. ASSUME UNCHANGED <<pc, held, leased>>, UNCHANGED queue \/ \E a \in Agents : SendEntry(a)
      PROVE  Kept
  BY <1>1 DEF SendEntry, Owned
<1>2. ASSUME NEW v \in Consumers, NEW step \in PcValues \ {"idle"}, GoesOn(v, step)
      PROVE  Kept
  <2>1. held' = held /\ queue' = queue /\ pc' = [pc EXCEPT ![v] = step]
    BY <1>2 DEF GoesOn, Delivery
  <2>2. CASE step \in Working \/ pc[v] \notin Working \/ held[v] # id
    BY <1>0, <2>1, <2>2 DEF Owned
  <2>3. CASE step \notin Working /\ pc[v] \in Working /\ held[v] = id
    <3>1. PICK s \in {"completed", "failed"} : MarkStatus(id, s)
      BY <1>2, <2>3 DEF GoesOn
    <3>2. rows'[id].status = s
      BY <1>0, <3>1, RowMarked DEF RowStatuses, Ids
    <3> QED BY <3>2 DEF Marked
  <2> QED BY <2>2, <2>3
<1>3. ASSUME NEW v \in Consumers, NEW x \in queue, Take(v, x)
      PROVE  Kept
  <2>1. pc[v] \notin Working /\ "mark" \in Working
    BY <1>3 DEF Take, ConsumerAt, Working
  <2>2. /\ queue' = queue \ {x} /\ pc' = [pc EXCEPT ![v] = "mark"]
        /\ held' = [held EXCEPT ![v] = x]
    BY <1>3 DEF Take, Goto
  <2> QED BY <1>0, <2>1, <2>2 DEF Owned
<1>4. ASSUME NEW v \in Consumers, Leaves(v)
      PROVE  Kept
  <2>1. CASE held[v] = id /\ pc[v] \in Working
    <3>1. GiveBack(v) /\ (Throws \/ Accident)
      BY <1>4, <2>1 DEF Leaves, Working
    <3>2. leased[v]
      <4>1. SUFFICES ASSUME ~leased[v] PROVE FALSE
        BY <1>0
      <4>2. accidents > 0 /\ accidents \in Nat /\ failures \in Nat
        BY <1>4, <4>1 DEF TypeInv, TypeOK, LeasesHeld, Leaves
      <4>3. accidents' > 0 /\ failures' + accidents' > 1
        BY <3>1, <4>2 DEF Throws, Accident
      <4> QED BY <4>3, <4>2, Bounded DEF OneFault, TypeInv
    <3> QED BY <2>1, <3>1, <3>2 DEF GiveBack, Owned
  <2>2. CASE ~(held[v] = id /\ pc[v] \in Working)
    <3>1. queue \subseteq queue'
      BY <1>4 DEF Leaves, GiveBack
    <3>2. \A w \in Consumers : w # v => held'[w] = held[w] /\ pc'[w] = pc[w]
      BY <1>0, <1>4 DEF Leaves
    <3> QED BY <2>2, <3>1, <3>2 DEF Owned
  <2> QED BY <2>1, <2>2
<1>5. ASSUME NEW v \in Consumers, LoseLease(v)
      PROVE  Kept
  BY <1>5 DEF LoseLease, Owned
<1> QED BY <1>1, <1>2, <1>3, <1>4, <1>5, ConsumersChange

LEMMA OwnedStep ==
  ASSUME OwnedInv, [Next]_vars
  PROVE  OwnedAtWork'
<1> SUFFICES ASSUME OneFault', NEW id \in Ids', rows'[id].status = "processing"
             PROVE  Owned(id)'
  BY DEF OwnedAtWork
<1>0. /\ TypeOK /\ rows \in Seq(Row) /\ pc \in [Consumers -> PcValues]
      /\ failures \in Nat /\ accidents \in Nat
  BY TypedRow DEF OwnedInv, TypeInv, TypeOK
<1>1. OneFault
  BY <1>0, Bounded DEF OneFault
<1>2. ASSUME id \in Ids, rows[id].status = "processing"
      PROVE  Owned(id)'
  BY <1>1, <1>2, OwnerStays DEF OwnedInv, OwnedAtWork, Marked
<1>3. CASE UNCHANGED rows
  BY <1>2, <1>3 DEF Ids
<1>4. CASE \E a \in Agents, e \in Large : Creates(a, e)
  BY <1>0, <1>2, <1>4, RowCreatedStatus DEF Ids, Creates
<1>5. ASSUME NEW w \in Consumers, NEW s \in RowStatuses, Marks(w, s)
      PROVE  Owned(id)'
  <2>1. held[w] \in DOMAIN rows /\ MarkStatus(held[w], s)
    BY <1>0, <1>5, TypedHeld DEF Marks
  <2>2. CASE id = held[w]
    <3>1. s = "processing"
      BY <1>0, <2>1, <2>2, RowMarked
    <3>2. pc'[w] = "extract" /\ held'[w] = id
      BY <1>0, <1>5, <2>2, <3>1 DEF Marks
    <3> QED BY <3>2 DEF Working, Owned
  <2>3. CASE id # held[w]
    BY <1>0, <1>2, <2>1, <2>3, RowMarked DEF Ids
  <2> QED BY <2>2, <2>3
<1> QED BY <1>3, <1>4, <1>5, RowsChange

LEMMA OwnedInit == Init => LeasesHeld /\ OwnedAtWork
BY DEF Init, LeasesHeld, OwnedAtWork, Ids

\* An entry that is "processing" is not abandoned: its message waits or is handled.  Any
\* number of calls may throw as long as no consumer dies and no message comes twice, or
\* one thing of any kind may go wrong.  Two may abandon a row: the lease of a message is
\* lost, the second delivery is worked off, and then the first handler is cut off after
\* it has set the row back to "processing".
THEOREM ProcessingHasAnOwner == Spec => [](OneFault => ProcessingIsOwned)
<1>1. Init => OwnedInv
  BY TypeInit, OwnedInit DEF OwnedInv
<1>2. OwnedInv /\ [Next]_vars => OwnedInv'
  BY TypeStep, LeasesStep, OwnedStep DEF OwnedInv
<1>3. OwnedInv => (OneFault => ProcessingIsOwned)
  BY DEF OwnedInv, OwnedAtWork, Owned, ProcessingIsOwned
<1> QED BY <1>1, <1>2, <1>3, PTL DEF Spec

-----------------------------------------------------------------------------
(***************************************************************************)
(* One job per entry.  As long as nothing goes wrong there is one token    *)
(* for every entry: it is a file of an extraction that is under way, then, *)
(* if it is large, a row whose message is sent, waits or is handled, and,  *)
(* if it is small, a result to dispatch.  Publishing the entry, or opening *)
(* the archive it is, takes the token.                                     *)
(***************************************************************************)
NoFault == failures = 0 /\ accidents = 0

Kinds == {"todo", "sending", "queue", "work", "out", "fan"}
Places == Agents \union Nat
AtWork == {"mark", "extract", "publish"}
Extracting(a) == IF a = Ingest THEN ingest = "extract" ELSE pc[a] = "nested"

Token(k, p, e) ==
  \/ k = "todo" /\ p \in Agents /\ e \in todo[p]
  \/ k = "sending" /\ p \in Agents /\ sending[p] # 0 /\ rows[sending[p]].entry = e
  \/ k = "queue" /\ p \in queue /\ rows[p].entry = e
  \/ k = "work" /\ p \in Consumers /\ pc[p] \in AtWork /\ Entry(p) = e
  \/ k = "out" /\ p \in Agents /\ e \in out[p] \ Large /\ Extracting(p)
  \/ k = "fan" /\ p \in Agents /\ e \in fan[p] \ Large

Live(e) == \E k \in Kinds, p \in Places : Token(k, p, e)
Jobs(e) == children[e] + events[e]
HasRow(e) == \E id \in Ids : rows[id].entry = e
Known(e) == Live(e) \/ Jobs(e) > 0 \/ HasRow(e)

\* What a step may do to the tokens of an entry: nothing, pass one on, publish one, or
\* make the first one, of a file in the archive that is opened.
Settled(e) ==
  /\ \A k \in Kinds, p \in Places : Token(k, p, e)' => Token(k, p, e)
  /\ Jobs(e)' = Jobs(e)

Passed(e, k, p, l, q) ==
  /\ Token(k, p, e)
  /\ \A m \in Kinds, r \in Places :
       Token(m, r, e)' => (m = l /\ r = q) \/ (Token(m, r, e) /\ ~(m = k /\ r = p))
  /\ Jobs(e)' = Jobs(e)

Published(e, k, p) ==
  /\ Token(k, p, e)
  /\ \A m \in Kinds, r \in Places : Token(m, r, e)' => Token(m, r, e) /\ ~(m = k /\ r = p)
  /\ Jobs(e)' = Jobs(e) + 1

Opened(e, w) ==
  /\ Entry(w) \in Archives /\ e \in Inside[Entry(w)]
  /\ Token("work", w, Entry(w))
  /\ pc'[w] = "nested"
  /\ \A x \in Entries : \A m \in Kinds, r \in Places :
       Token(m, r, x)' => (m = "todo" /\ r = w /\ x \in Inside[Entry(w)]) \/ Token(m, r, x)
  /\ Jobs(e)' = Jobs(e)

Moves(e) ==
  \/ Settled(e)
  \/ \E k, l \in Kinds, p, q \in Places : Passed(e, k, p, l, q)
  \/ \E k \in Kinds, p \in Places : Published(e, k, p)
  \/ \E w \in Consumers : Opened(e, w)

\* The rows of the tokens keep their entries.
LEMMA TokenEntries ==
  ASSUME TypeInv, [Next]_vars
  PROVE  /\ \A id \in queue : rows'[id].entry = rows[id].entry
         /\ \A a \in Agents : sending[a] # 0 => rows'[sending[a]].entry = rows[sending[a]].entry
         /\ \A w \in Consumers : pc[w] # "idle" => rows'[held[w]].entry = Entry(w)
<1>1. RowsKept
  BY RowsStep DEF TypeInv
<1> QED BY <1>1 DEF TypeInv, TypeOK, Ids, RowsKept, Entry

LEMMA SameJobs ==
  ASSUME NEW e \in Entries, UNCHANGED <<children, events>>
  PROVE  Jobs(e)' = Jobs(e)
BY DEF Jobs

LEMMA OneMoreJob ==
  ASSUME TypeInv, NEW e \in Entries, NEW f \in Entries, UNCHANGED children, Publish(f)
  PROVE  Jobs(e)' = IF e = f THEN Jobs(e) + 1 ELSE Jobs(e)
<1>1. events \in [Entries \union Closings -> Nat] /\ children \in [Entries -> Nat]
  BY DEF TypeInv, TypeOK
<1> QED BY <1>1 DEF Publish, Jobs

LEMMA StatusIsNoJob ==
  ASSUME TypeInv, NEW e \in Entries, NEW s \in Closings, UNCHANGED children, Publish(s) \/ Consume(s)
  PROVE  Jobs(e)' = Jobs(e)
<1>1. events \in [Entries \union Closings -> Nat] /\ children \in [Entries -> Nat] /\ e # s
  BY ArchiveAssumption DEF TypeInv, TypeOK
<1> QED BY <1>1 DEF Publish, Consume, Jobs

LEMMA NoFaultStep ==
  ASSUME TypeInv, [Next]_vars, NoFault'
  PROVE  NoFault /\ ~Throws /\ ~Accident
<1>1. failures \in Nat /\ accidents \in Nat
  BY DEF TypeInv, TypeOK
<1> QED BY <1>1, Bounded DEF NoFault, Throws, Accident, TypeInv

\* Steps of a consumer that neither opens its entry nor publishes it.
LEMMA ConsumerSettles ==
  ASSUME TypeInv, [Next]_vars, NoFault', NEW e \in Entries, NEW w \in Consumers,
         \/ MarkProcessing(w) \/ ExtractFails(w) \/ NestedDispatched(w) \/ MarkCompleted(w)
         \/ MarkFailed(w) \/ Count(w) \/ Close(w) \/ DeleteMessage(w)
  PROVE  Settled(e)
<1>0. /\ ~Throws /\ pc \in [Consumers -> PcValues] /\ held \in [Consumers -> {0} \union Ids]
      /\ Ingest \notin Consumers
  BY NoFaultStep, ArchiveAssumption DEF TypeInv, TypeOK
<1>1. UNCHANGED <<extractVars, queue, ingest>>
  BY <1>0 DEF MarkProcessing, ExtractFails, NestedDispatched, MarkCompleted, MarkFailed, Count, Close,
    DeleteMessage, ConsumerRest, ingestVars
<1>2. /\ UNCHANGED held \/ held' = [held EXCEPT ![w] = 0]
      /\ \E step \in PcValues \ {"publish", "mark", "nested"} :
           /\ pc' = [pc EXCEPT ![w] = step]
           /\ step \in AtWork => pc[w] \in AtWork /\ UNCHANGED held
  BY <1>0 DEF MarkProcessing, ExtractFails, NestedDispatched, MarkCompleted, MarkFailed, Count, Close,
    DeleteMessage, ConsumerRest, ConsumerAt, Goto, PcValues, AtWork
<1>3. \A v \in Consumers : pc'[v] \in AtWork => pc[v] \in AtWork /\ held'[v] = held[v]
  BY <1>0, <1>2
<1>4. \A a \in Agents : Extracting(a)' => Extracting(a)
  BY <1>0, <1>1, <1>2 DEF Extracting, Agents
<1>5. \A v \in Consumers : pc'[v] \in AtWork => Entry(v)' = Entry(v)
  BY <1>3, TokenEntries DEF Entry, AtWork
<1>6. ASSUME NEW k \in Kinds, NEW p \in Places, Token(k, p, e)'
      PROVE  Token(k, p, e)
  BY <1>1, <1>3, <1>4, <1>5, <1>6, TokenEntries DEF Token, extractVars
<1>7. Jobs(e)' = Jobs(e)
  <2>1. CASE UNCHANGED <<children, events>>
    BY <2>1, SameJobs
  <2>2. CASE Close(w)
    <3>1. verdict[w] \in Closings
      BY DEF TypeInv, TypeOK
    <3> QED BY <2>2, <3>1, StatusIsNoJob DEF Close, ConsumerRest, jobVars
  <2> QED BY <1>0, <2>1, <2>2 DEF MarkProcessing, ExtractFails, NestedDispatched, MarkCompleted,
            MarkFailed, Count, DeleteMessage, ConsumerRest, jobVars
<1> QED BY <1>6, <1>7 DEF Settled

LEMMA OthersSettle ==
  ASSUME TypeInv, [Next]_vars, NoFault', NEW e \in Entries,
         \/ IngestDone \/ IngestFails
         \/ \E f \in Entries : CreateChildJob(f)
         \/ \E s \in Closings : OnStatusChanged(s)
         \/ UNCHANGED vars
  PROVE  Settled(e)
<1>0. ~Throws /\ ~Accident /\ events \in [Entries \union Closings -> Nat]
      /\ children \in [Entries -> Nat] /\ COMPLETED \in Closings /\ FAILED \in Closings
  BY NoFaultStep DEF TypeInv, TypeOK, Closings
<1>1. /\ UNCHANGED <<extractVars, queue, consumerVars>>
      /\ ingest' = "extract" => ingest = "extract"
  BY <1>0 DEF IngestDone, IngestFails, IngestGoes, CreateChildJob, OnStatusChanged, vars, ingestVars,
    extractVars
<1>2. \A a \in Agents : Extracting(a)' => Extracting(a)
  BY <1>1 DEF Extracting, consumerVars
<1>3. \A v \in Consumers : pc'[v] \in AtWork => Entry(v)' = Entry(v)
  BY <1>1, TokenEntries DEF Entry, AtWork, consumerVars
<1>4. ASSUME NEW k \in Kinds, NEW p \in Places, Token(k, p, e)'
      PROVE  Token(k, p, e)
  BY <1>1, <1>2, <1>3, <1>4, TokenEntries DEF Token, extractVars, consumerVars
<1>5. Jobs(e)' = Jobs(e)
  <2>1. CASE UNCHANGED <<children, events>>
    BY <2>1, SameJobs
  <2>2. CASE UNCHANGED children /\ \E s \in Closings : Publish(s) \/ Consume(s)
    BY <2>2, StatusIsNoJob
  <2>3. ASSUME NEW f \in Entries, CreateChildJob(f)
        PROVE  Jobs(e)' = Jobs(e)
    <3>1. events[f] > 0 /\ events' = [events EXCEPT ![f] = @ - 1] /\ children' = [children EXCEPT ![f] = @ + 1]
      BY <1>0, <2>3 DEF CreateChildJob, Consume, Repeat
    <3> QED BY <1>0, <3>1 DEF Jobs
  <2> QED BY <1>0, <2>1, <2>2, <2>3 DEF IngestDone, IngestFails, IngestGoes, OnStatusChanged, Repeat,
            vars, jobVars
<1> QED BY <1>4, <1>5 DEF Settled

\* Steps that pass a token on.
LEMMA RegisterPasses ==
  ASSUME TypeInv, [Next]_vars, NoFault', NEW e \in Entries,
         NEW a \in Agents, NEW f \in Entries, RegisterEntry(a, f)
  PROVE  Settled(e) \/ Passed(e, "todo", a, "sending", a)
<1>0. /\ todo \in [Agents -> SUBSET Entries] /\ sending \in [Agents -> {0} \union Ids]
      /\ rows \in Seq(Row) /\ f \in Large
  BY TypedRow DEF RegisterEntry, TypeInv, TypeOK
<1>1. /\ UNCHANGED <<queue, out, fan, consumerVars, ingest, children, events>>
      /\ todo' = [todo EXCEPT ![a] = @ \ {f}]
      /\ sending' = [sending EXCEPT ![a] = Len(rows) + 1]
      /\ f \in todo[a] /\ CreatePendingEntry(f)
  BY DEF RegisterEntry, ExtractRest, ingestVars, jobVars, Turn, Past
<1>2. rows'[Len(rows) + 1].entry = f
  <2>1. rows'[Len(rows) + 1] = [entry |-> f, status |-> "pending"]
    BY <1>0, <1>1, RowCreated
  <2> QED BY <2>1
<1>3. \A v \in Consumers : pc'[v] \in AtWork => Entry(v)' = Entry(v)
  BY <1>1, TokenEntries DEF Entry, AtWork, consumerVars
<1>4. \A b \in Agents : Extracting(b)' = Extracting(b)
  BY <1>1 DEF Extracting, consumerVars
<1>5. ASSUME NEW k \in Kinds, NEW p \in Places, Token(k, p, e)', ~(k = "sending" /\ p = a /\ e = f)
      PROVE  Token(k, p, e) /\ ~(k = "todo" /\ p = a /\ e = f)
  <2>1. CASE k = "todo"
    BY <1>0, <1>1, <1>5, <2>1 DEF Token
  <2>2. CASE k = "sending"
    <3>1. p # a
      BY <1>0, <1>1, <1>2, <1>5, <2>2 DEF Token
    <3> QED BY <1>0, <1>1, <1>5, <2>2, <3>1, TokenEntries DEF Token
  <2>3. CASE k \in {"queue", "work", "out", "fan"}
    BY <1>1, <1>3, <1>4, <1>5, <2>3, TokenEntries DEF Token, consumerVars
  <2> QED BY <2>1, <2>2, <2>3 DEF Kinds
<1>6. Jobs(e)' = Jobs(e)
  BY <1>1, SameJobs
<1>7. CASE e = f
  BY <1>1, <1>5, <1>6, <1>7 DEF Passed, Token
<1>8. CASE e # f
  BY <1>5, <1>6, <1>8 DEF Settled
<1> QED BY <1>7, <1>8

LEMMA SendPasses ==
  ASSUME TypeInv, [Next]_vars, NoFault', NEW e \in Entries, NEW a \in Agents, SendEntry(a)
  PROVE  Settled(e) \/ Passed(e, "sending", a, "queue", sending[a])
<1>0. sending \in [Agents -> {0} \union Ids] /\ out \in [Agents -> SUBSET Entries]
  BY DEF TypeInv, TypeOK
<1>1. /\ UNCHANGED <<rows, todo, fan, consumerVars, ingest, children, events>>
      /\ sending' = [sending EXCEPT ![a] = 0]
      /\ sending[a] # 0 /\ sending[a] \in Ids
      /\ queue' = queue \union {sending[a]}
      /\ Returns(a, rows[sending[a]].entry)
  BY <1>0 DEF SendEntry, EntrySent, ExtractRest, ingestVars, jobVars
<1>2. rows[sending[a]].entry \in Large
  BY <1>1, TypedRow DEF TypeInv, Ids
<1>3. \A b \in Agents : out'[b] \ Large \subseteq out[b]
  BY <1>0, <1>1, <1>2 DEF Returns
<1>4. \A b \in Agents : Extracting(b)' = Extracting(b)
  BY <1>1 DEF Extracting, consumerVars
<1> DEFINE sent == sending[a]
<1>5. ASSUME NEW k \in Kinds, NEW p \in Places, Token(k, p, e)',
             ~(k = "queue" /\ p = sent /\ e = rows[sent].entry)
      PROVE  Token(k, p, e) /\ ~(k = "sending" /\ p = a)
  BY <1>0, <1>1, <1>3, <1>4, <1>5 DEF Token, Entry, consumerVars
<1>6. Jobs(e)' = Jobs(e)
  BY <1>1, SameJobs
<1>7. CASE e = rows[sent].entry
  BY <1>1, <1>5, <1>6, <1>7 DEF Passed, Token
<1>8. CASE e # rows[sent].entry
  BY <1>5, <1>6, <1>8 DEF Settled
<1> QED BY <1>7, <1>8

LEMMA InlinePasses ==
  ASSUME TypeInv, [Next]_vars, NoFault', NEW e \in Entries,
         NEW a \in Agents, NEW f \in Entries, ExtractInline(a, f)
  PROVE  Settled(e) \/ Passed(e, "todo", a, "out", a)
<1>0. /\ todo \in [Agents -> SUBSET Entries] /\ out \in [Agents -> SUBSET Entries]
      /\ ~Throws
  BY NoFaultStep DEF TypeInv, TypeOK
<1>1. /\ UNCHANGED <<rows, queue, sending, fan, consumerVars, ingest, children, events>>
      /\ todo' = [todo EXCEPT ![a] = @ \ {f}]
      /\ out' = [out EXCEPT ![a] = @ \union {f}]
      /\ f \in todo[a]
  BY <1>0 DEF ExtractInline, ExtractRest, ingestVars, jobVars, Turn, Past, Returns
<1>2. \A b \in Agents : Extracting(b)' = Extracting(b)
  BY <1>1 DEF Extracting, consumerVars
<1>3. ASSUME NEW k \in Kinds, NEW p \in Places, Token(k, p, e)', ~(k = "out" /\ p = a /\ e = f)
      PROVE  Token(k, p, e) /\ ~(k = "todo" /\ p = a /\ e = f)
  <2>1. CASE k = "todo"
    BY <1>0, <1>1, <1>3, <2>1 DEF Token
  <2>2. CASE k = "out"
    BY <1>0, <1>1, <1>2, <1>3, <2>2 DEF Token
  <2>3. CASE k \in {"sending", "queue", "work", "fan"}
    BY <1>1, <1>3, <2>3 DEF Token, Entry, consumerVars
  <2> QED BY <2>1, <2>2, <2>3 DEF Kinds
<1>4. Jobs(e)' = Jobs(e)
  BY <1>1, SameJobs
<1>5. CASE e = f
  BY <1>1, <1>3, <1>4, <1>5 DEF Passed, Token
<1>6. CASE e # f
  BY <1>3, <1>4, <1>6 DEF Settled
<1> QED BY <1>5, <1>6

LEMMA DispatchPublishes ==
  ASSUME TypeInv, [Next]_vars, NoFault', NEW e \in Entries,
         NEW a \in Agents, NEW f \in Entries, Dispatch(a, f)
  PROVE  Settled(e) \/ Published(e, "fan", a)
<1>0. fan \in [Agents -> SUBSET Entries]
  BY DEF TypeInv, TypeOK
<1>1. /\ UNCHANGED <<queue, todo, sending, out, consumerVars, ingest, children>>
      /\ fan' = [fan EXCEPT ![a] = @ \ {f}]
      /\ f \in fan[a]
      /\ IF f \in Large THEN UNCHANGED events ELSE Publish(f)
  BY DEF Dispatch, IsPending, jobVars
<1>2. \A b \in Agents : Extracting(b)' = Extracting(b)
  BY <1>1 DEF Extracting, consumerVars
<1>3. \A v \in Consumers : pc'[v] \in AtWork => Entry(v)' = Entry(v)
  BY <1>1, TokenEntries DEF Entry, AtWork, consumerVars
<1>4. ASSUME NEW k \in Kinds, NEW p \in Places, Token(k, p, e)'
      PROVE  Token(k, p, e) /\ ~(k = "fan" /\ p = a /\ e = f)
  <2>1. CASE k = "fan"
    BY <1>0, <1>1, <1>4, <2>1 DEF Token
  <2>2. CASE k \in {"todo", "sending", "queue", "work", "out"}
    BY <1>1, <1>2, <1>3, <1>4, <2>2, TokenEntries DEF Token, consumerVars
  <2> QED BY <2>1, <2>2 DEF Kinds
<1>5. CASE f \in Large
  <2>1. Jobs(e)' = Jobs(e)
    BY <1>1, <1>5, SameJobs
  <2> QED BY <1>4, <2>1 DEF Settled
<1>6. CASE f \notin Large
  <2>1. Jobs(e)' = IF e = f THEN Jobs(e) + 1 ELSE Jobs(e)
    BY <1>1, <1>6, OneMoreJob
  <2>2. CASE e = f
    BY <1>1, <1>4, <1>6, <2>1, <2>2 DEF Published, Token
  <2>3. CASE e # f
    BY <1>4, <2>1, <2>3 DEF Settled
  <2> QED BY <2>2, <2>3
<1> QED BY <1>5, <1>6

LEMMA FanOutPasses ==
  ASSUME TypeInv, [Next]_vars, NoFault', NEW e \in Entries, FanOut
  PROVE  Settled(e) \/ Passed(e, "out", Ingest, "fan", Ingest)
<1>0. fan \in [Agents -> SUBSET Entries] /\ Ingest \in Agents
  BY DEF TypeInv, TypeOK, Agents
<1>1. /\ UNCHANGED <<rows, queue, todo, sending, out, consumerVars, children, events>>
      /\ fan' = [fan EXCEPT ![Ingest] = out[Ingest]]
      /\ ingest = "extract" /\ ingest' # "extract"
  BY DEF FanOut, IngestGoes, jobVars
<1>2. \A b \in Agents : Extracting(b)' => Extracting(b) /\ b # Ingest
  BY <1>1 DEF Extracting, consumerVars
<1>3. ASSUME NEW k \in Kinds, NEW p \in Places, Token(k, p, e)',
             ~(k = "fan" /\ p = Ingest /\ e \in out[Ingest] \ Large)
      PROVE  Token(k, p, e) /\ ~(k = "out" /\ p = Ingest)
  <2>1. CASE k = "fan"
    BY <1>0, <1>1, <1>3, <2>1 DEF Token
  <2>2. CASE k \in {"todo", "sending", "queue", "work", "out"}
    BY <1>1, <1>2, <1>3, <2>2 DEF Token, Entry, consumerVars
  <2> QED BY <2>1, <2>2 DEF Kinds
<1>4. Jobs(e)' = Jobs(e)
  BY <1>1, SameJobs
<1>5. CASE e \in out[Ingest] \ Large
  <2>1. Token("out", Ingest, e)
    BY <1>0, <1>1, <1>5 DEF Token, Extracting
  <2> QED BY <1>3, <1>4, <2>1 DEF Passed
<1>6. CASE e \notin out[Ingest] \ Large
  BY <1>3, <1>4, <1>6 DEF Settled
<1> QED BY <1>5, <1>6

LEMMA TakePasses ==
  ASSUME TypeInv, [Next]_vars, NoFault', NEW e \in Entries,
         NEW w \in Consumers, NEW id \in queue, Take(w, id)
  PROVE  Settled(e) \/ Passed(e, "queue", id, "work", w)
<1>0. /\ pc \in [Consumers -> PcValues] /\ held \in [Consumers -> {0} \union Ids]
      /\ id \in Nat /\ Ingest \notin Consumers
  BY TypedRow, ArchiveAssumption DEF TypeInv, TypeOK, Ids
<1>1. /\ UNCHANGED <<rows, todo, sending, out, fan, ingest, children, events>>
      /\ queue' = queue \ {id}
      /\ held' = [held EXCEPT ![w] = id]
      /\ pc' = [pc EXCEPT ![w] = "mark"] /\ pc[w] = "idle"
  BY DEF Take, ConsumerAt, Goto, jobVars, extractVars, ingestVars
<1>2. \A b \in Agents : Extracting(b)' => Extracting(b)
  BY <1>0, <1>1 DEF Extracting, Agents
<1>3. ASSUME NEW k \in Kinds, NEW p \in Places, Token(k, p, e)',
             ~(k = "work" /\ p = w /\ e = rows[id].entry)
      PROVE  Token(k, p, e) /\ ~(k = "queue" /\ p = id)
  <2>1. CASE k = "work"
    BY <1>0, <1>1, <1>3, <2>1 DEF Token, Entry
  <2>2. CASE k \in {"todo", "sending", "queue", "fan", "out"}
    BY <1>1, <1>2, <1>3, <2>2 DEF Token
  <2> QED BY <2>1, <2>2 DEF Kinds
<1>4. Jobs(e)' = Jobs(e)
  BY <1>1, SameJobs
<1>5. CASE e = rows[id].entry
  BY <1>3, <1>4, <1>5 DEF Passed, Token
<1>6. CASE e # rows[id].entry
  BY <1>3, <1>4, <1>6 DEF Settled
<1> QED BY <1>5, <1>6

LEMMA NestedPasses ==
  ASSUME TypeInv, [Next]_vars, NoFault', NEW e \in Entries, NEW w \in Consumers, NestedExtracted(w)
  PROVE  Settled(e) \/ Passed(e, "out", w, "fan", w)
<1>0. /\ fan \in [Agents -> SUBSET Entries] /\ pc \in [Consumers -> PcValues]
      /\ w \in Agents /\ w # Ingest
  BY ArchiveAssumption DEF TypeInv, TypeOK, Agents
<1>1. /\ UNCHANGED <<rows, queue, todo, sending, out, held, ingest, children, events>>
      /\ fan' = [fan EXCEPT ![w] = @ \union out[w]]
      /\ pc' = [pc EXCEPT ![w] = "fan"] /\ pc[w] = "nested"
  BY DEF NestedExtracted, ConsumerAt, Goto, ConsumerRest, jobVars, ingestVars
<1>2. \A b \in Agents : Extracting(b)' => Extracting(b) /\ b # w
  BY <1>0, <1>1 DEF Extracting, Agents
<1>3. ASSUME NEW k \in Kinds, NEW p \in Places, Token(k, p, e)',
             ~(k = "fan" /\ p = w /\ e \in out[w] \ Large)
      PROVE  Token(k, p, e) /\ ~(k = "out" /\ p = w)
  <2>1. CASE k = "fan"
    BY <1>0, <1>1, <1>3, <2>1 DEF Token
  <2>2. CASE k = "work"
    BY <1>0, <1>1, <1>3, <2>2 DEF Token, Entry, AtWork
  <2>3. CASE k \in {"todo", "sending", "queue", "out"}
    BY <1>1, <1>2, <1>3, <2>3 DEF Token
  <2> QED BY <2>1, <2>2, <2>3 DEF Kinds
<1>4. Jobs(e)' = Jobs(e)
  BY <1>1, SameJobs
<1>5. CASE e \in out[w] \ Large
  <2>1. Token("out", w, e)
    BY <1>0, <1>1, <1>5 DEF Token, Extracting
  <2> QED BY <1>3, <1>4, <2>1 DEF Passed
<1>6. CASE e \notin out[w] \ Large
  BY <1>3, <1>4, <1>6 DEF Settled
<1> QED BY <1>5, <1>6

LEMMA PublishPublishes ==
  ASSUME TypeInv, [Next]_vars, NoFault', NEW e \in Entries,
         NEW w \in Consumers, PublishDiscoveredEntry(w)
  PROVE  Settled(e) \/ Published(e, "work", w)
<1>0. ~Throws /\ pc \in [Consumers -> PcValues] /\ Ingest \notin Consumers
  BY NoFaultStep, ArchiveAssumption DEF TypeInv, TypeOK
<1>1. /\ UNCHANGED <<rows, queue, extractVars, held, ingest, children>>
      /\ Publish(Entry(w))
      /\ pc' = [pc EXCEPT ![w] = "complete"] /\ pc[w] = "publish"
  BY <1>0 DEF PublishDiscoveredEntry, ConsumerAt, Goto, ConsumerRest, jobVars, ingestVars
<1>2. \A b \in Agents : Extracting(b)' => Extracting(b)
  BY <1>0, <1>1 DEF Extracting, Agents
<1>3. ASSUME NEW k \in Kinds, NEW p \in Places, Token(k, p, e)'
      PROVE  Token(k, p, e) /\ ~(k = "work" /\ p = w)
  <2>1. CASE k = "work"
    BY <1>0, <1>1, <1>3, <2>1 DEF Token, Entry, AtWork
  <2>2. CASE k \in {"todo", "sending", "queue", "fan", "out"}
    BY <1>1, <1>2, <1>3, <2>2 DEF Token, extractVars
  <2> QED BY <2>1, <2>2 DEF Kinds
<1>4. Entry(w) \in Entries
  BY <1>1, TypedHeld DEF TypeInv
<1>5. Jobs(e)' = IF e = Entry(w) THEN Jobs(e) + 1 ELSE Jobs(e)
  BY <1>1, <1>4, OneMoreJob
<1>6. CASE e = Entry(w)
  <2>1. Token("work", w, e)
    BY <1>1, <1>6 DEF Token, AtWork
  <2> QED BY <1>3, <1>5, <1>6, <2>1 DEF Published
<1>7. CASE e # Entry(w)
  BY <1>3, <1>5, <1>7 DEF Settled
<1> QED BY <1>6, <1>7

LEMMA ExtractOpens ==
  ASSUME TypeInv, [Next]_vars, NoFault', NEW e \in Entries, NEW w \in Consumers, Extract(w)
  PROVE  Settled(e) \/ Opened(e, w)
<1>0. /\ todo \in [Agents -> SUBSET Entries] /\ out \in [Agents -> SUBSET Entries]
      /\ pc \in [Consumers -> PcValues] /\ w \in Agents /\ w # Ingest /\ Ingest \notin Consumers
  BY ArchiveAssumption DEF TypeInv, TypeOK, Agents
<1>1. /\ UNCHANGED <<rows, queue, sending, fan, held, ingest, children, events>>
      /\ pc[w] = "extract"
  BY DEF Extract, ConsumerAt, ConsumerRest, jobVars, ingestVars
<1>2. Jobs(e)' = Jobs(e)
  BY <1>1, SameJobs
<1>3. CASE Entry(w) \notin Archives
  <2>1. UNCHANGED <<todo, out>> /\ pc' = [pc EXCEPT ![w] = "publish"]
    BY <1>3 DEF Extract, Goto
  <2>2. \A b \in Agents : Extracting(b)' => Extracting(b)
    BY <1>0, <1>1, <2>1 DEF Extracting, Agents
  <2>3. ASSUME NEW k \in Kinds, NEW p \in Places, Token(k, p, e)'
        PROVE  Token(k, p, e)
    BY <1>0, <1>1, <2>1, <2>2, <2>3 DEF Token, Entry, AtWork
  <2> QED BY <1>2, <2>3 DEF Settled
<1>4. CASE Entry(w) \in Archives
  <2>1. /\ todo' = [todo EXCEPT ![w] = Inside[Entry(w)]]
        /\ out' = [out EXCEPT ![w] = {}]
        /\ pc' = [pc EXCEPT ![w] = "nested"]
    BY <1>4 DEF Extract, Goto
  <2>2. \A b \in Agents : b # w => Extracting(b)' = Extracting(b)
    BY <1>0, <1>1, <2>1 DEF Extracting, Agents
  <2>3. ASSUME NEW x \in Entries, NEW k \in Kinds, NEW p \in Places, Token(k, p, x)',
               ~(k = "todo" /\ p = w /\ x \in Inside[Entry(w)])
        PROVE  Token(k, p, x)
    <3>1. CASE k = "todo"
      BY <1>0, <2>1, <2>3, <3>1 DEF Token
    <3>2. CASE k = "out"
      BY <1>0, <2>1, <2>2, <2>3, <3>2 DEF Token
    <3>3. CASE k = "work"
      BY <1>0, <1>1, <2>1, <2>3, <3>3 DEF Token, Entry, AtWork
    <3>4. CASE k \in {"sending", "queue", "fan"}
      BY <1>1, <2>3, <3>4 DEF Token
    <3> QED BY <3>1, <3>2, <3>3, <3>4 DEF Kinds
  <2>4. Token("work", w, Entry(w)) /\ pc'[w] = "nested"
    BY <1>0, <1>1, <2>1 DEF Token, AtWork
  <2>5. CASE e \in Inside[Entry(w)]
    BY <1>2, <1>4, <2>3, <2>4, <2>5 DEF Opened
  <2>6. CASE e \notin Inside[Entry(w)]
    BY <1>2, <2>3, <2>6 DEF Settled
  <2> QED BY <2>5, <2>6
<1> QED BY <1>3, <1>4

LEMMA TokensMove ==
  ASSUME TypeInv, [Next]_vars, NoFault', NEW e \in Entries
  PROVE  Moves(e)
<1>0. ~Throws /\ ~Accident
  BY NoFaultStep
<1>1. ASSUME NEW a \in Agents, a \in Places, NEW f \in Entries,
             RegisterEntry(a, f) \/ ExtractInline(a, f) \/ Dispatch(a, f)
      PROVE  Moves(e)
  BY <1>1, RegisterPasses, InlinePasses, DispatchPublishes DEF Moves, Kinds
<1>2. ASSUME NEW a \in Agents, a \in Places, SendEntry(a)
      PROVE  Moves(e)
  <2>1. sending[a] \in Places
    BY <1>2, TypedRow DEF SendEntry, EntrySent, TypeInv, TypeOK, Ids, Places
  <2> QED BY <1>2, <2>1, SendPasses DEF Moves, Kinds
<1>3. ASSUME FanOut, Ingest \in Places
      PROVE  Moves(e)
  BY <1>3, FanOutPasses DEF Moves, Kinds
<1>4. ASSUME NEW w \in Consumers, w \in Places, NEW id \in queue, Take(w, id)
      PROVE  Moves(e)
  <2>1. id \in Places
    BY TypedRow DEF TypeInv, TypeOK, Ids, Places
  <2> QED BY <1>4, <2>1, TakePasses DEF Moves, Kinds
<1>5. ASSUME NEW w \in Consumers, w \in Places,
             NestedExtracted(w) \/ PublishDiscoveredEntry(w) \/ Extract(w)
      PROVE  Moves(e)
  BY <1>5, NestedPasses, PublishPublishes, ExtractOpens DEF Moves, Kinds
<1>6. ASSUME NEW w \in Consumers,
             \/ MarkProcessing(w) \/ ExtractFails(w) \/ NestedDispatched(w) \/ MarkCompleted(w)
             \/ MarkFailed(w) \/ Count(w) \/ Close(w) \/ DeleteMessage(w)
      PROVE  Moves(e)
  BY <1>6, ConsumerSettles DEF Moves
<1>7. ASSUME \/ IngestDone \/ IngestFails
             \/ \E f \in Entries : CreateChildJob(f)
             \/ \E s \in Closings : OnStatusChanged(s)
             \/ UNCHANGED vars
      PROVE  Moves(e)
  BY <1>7, OthersSettle DEF Moves
<1>8. ~Faults
  BY <1>0 DEF Faults, SendEntryFails, RegisterFails, DispatchFails, ListFails, ExtractTimesOut,
    IngestDoneFails, IngestDies, NestedFails, CompletionThrows, ConsumerDies, LoseLease
<1>9. Agents \subseteq Places /\ Consumers \subseteq Places /\ Ingest \in Places
  BY DEF Places, Agents
<1> HIDE DEF Moves
<1> QED
  BY <1>1, <1>2, <1>3, <1>4, <1>5, <1>6, <1>7, <1>8, <1>9 DEF Next, ExtractStep, IngestStep, ConsumerStep

-----------------------------------------------------------------------------
\* An entry has one token or one job; the files in an archive that waits are unknown;
\* a file is known only once its archive had a row; so is a large result.
OneTokenEach ==
  \A e \in Entries :
    /\ \A k, l \in Kinds, p, q \in Places : Token(k, p, e) /\ Token(l, q, e) => k = l /\ p = q
    /\ Live(e) => Jobs(e) = 0
    /\ Jobs(e) <= 1

ContentsUnknown == \A x \in Archives : Live(x) => \A e \in Inside[x] : ~Known(e)
OpenedHaveRows == \A x \in Archives : \A e \in Inside[x] : Known(e) => HasRow(x)
ResultsHaveRows == \A a \in Agents, e \in Large : e \in out[a] \union fan[a] => HasRow(e)

TokenState == OneTokenEach /\ ContentsUnknown /\ OpenedHaveRows /\ ResultsHaveRows
TokenInv == TypeInv /\ (NoFault => TokenState)

LEMMA JobsTyped ==
  ASSUME TypeInv, NEW e \in Entries
  PROVE  Jobs(e) \in Nat
<1>1. events \in [Entries \union Closings -> Nat] /\ children \in [Entries -> Nat]
  BY DEF TypeInv, TypeOK
<1>2. events[e] \in Nat /\ children[e] \in Nat
  BY <1>1
<1> QED BY <1>2 DEF Jobs

LEMMA RowsRemain ==
  ASSUME TypeInv, [Next]_vars, NEW e, HasRow(e)
  PROVE  HasRow(e)'
<1>1. RowsKept
  BY RowsStep DEF TypeInv
<1> QED BY <1>1 DEF RowsKept, HasRow, Ids

LEMMA ResultsStep ==
  ASSUME TypeInv, [Next]_vars, NoFault', ResultsHaveRows
  PROVE  ResultsHaveRows'
<1>0. /\ out \in [Agents -> SUBSET Entries] /\ fan \in [Agents -> SUBSET Entries] /\ ~Throws
      /\ Consumers \subseteq Agents /\ Ingest \in Agents
  BY NoFaultStep DEF TypeInv, TypeOK, Agents
<1> SUFFICES ASSUME NEW a \in Agents, NEW e \in Large, e \in out'[a] \union fan'[a]
             PROVE  HasRow(e)
  BY RowsRemain DEF ResultsHaveRows
<1>1. ASSUME NEW b \in Agents, e \in out[b] \union fan[b]
      PROVE  HasRow(e)
  BY <1>1 DEF ResultsHaveRows
<1>2. ASSUME NEW b \in Agents, NEW f \in Entries,
             RegisterEntry(b, f) \/ ExtractInline(b, f) \/ Dispatch(b, f)
      PROVE  e \in out[a] \union fan[a]
  BY <1>0, <1>2 DEF RegisterEntry, ExtractInline, Returns, ExtractRest, Dispatch
<1>3. ASSUME NEW b \in Agents, SendEntry(b)
      PROVE  HasRow(e)
  <2>1. /\ UNCHANGED fan /\ Returns(b, rows[sending[b]].entry)
        /\ sending[b] \in Ids
    BY <1>3 DEF SendEntry, EntrySent, ExtractRest, TypeInv, TypeOK
  <2>2. e \in out[a] \union fan[a] \/ e = rows[sending[b]].entry
    BY <1>0, <2>1 DEF Returns
  <2> QED BY <1>1, <2>1, <2>2 DEF HasRow
<1>4. ASSUME FanOut
      PROVE  e \in out[a] \union fan[a]
  BY <1>0, <1>4 DEF FanOut
<1>5. ASSUME NEW w \in Consumers, NestedExtracted(w) \/ Extract(w)
      PROVE  e \in out[a] \union fan[a]
  BY <1>0, <1>5 DEF NestedExtracted, Extract
<1>6. ASSUME NEW w \in Consumers,
             \/ MarkProcessing(w) \/ ExtractFails(w) \/ NestedDispatched(w) \/ MarkCompleted(w)
             \/ MarkFailed(w) \/ Count(w) \/ Close(w) \/ DeleteMessage(w)
             \/ PublishDiscoveredEntry(w) \/ \E id \in queue : Take(w, id)
      PROVE  e \in out[a] \union fan[a]
  BY <1>6 DEF MarkProcessing, ExtractFails, NestedDispatched, MarkCompleted, MarkFailed, Count, Close,
    DeleteMessage, PublishDiscoveredEntry, Take, extractVars
<1>7. ASSUME \/ IngestDone \/ IngestFails
             \/ \E f \in Entries : CreateChildJob(f)
             \/ \E s \in Closings : OnStatusChanged(s)
             \/ UNCHANGED vars
      PROVE  e \in out[a] \union fan[a]
  BY <1>7 DEF IngestDone, IngestFails, CreateChildJob, OnStatusChanged, vars, extractVars
<1>8. ~Faults
  BY NoFaultStep DEF Faults, SendEntryFails, RegisterFails, DispatchFails, ListFails,
    ExtractTimesOut, IngestDoneFails, IngestDies, NestedFails, CompletionThrows, ConsumerDies,
    LoseLease
<1> QED
  BY <1>1, <1>2, <1>3, <1>4, <1>5, <1>6, <1>7, <1>8 DEF Next, ExtractStep, IngestStep, ConsumerStep

\* A row is made of an entry that is known already.
LEMMA RowsAreKnown ==
  ASSUME TypeInv, [Next]_vars, NoFault', ResultsHaveRows, NEW e \in Entries, HasRow(e)'
  PROVE  Known(e)
<1>0. rows \in Seq(Row) /\ RowsKept /\ Agents \subseteq Places
  BY RowsStep, TypedRow DEF TypeInv, Places
<1>1. PICK id \in DOMAIN rows' : rows'[id].entry = e
  BY DEF HasRow, Ids
<1>2. ASSUME id \in DOMAIN rows
      PROVE  Known(e)
  BY <1>0, <1>1, <1>2 DEF Known, HasRow, RowsKept, Ids
<1>3. ASSUME NEW a \in Agents, NEW f \in Large, Creates(a, f)
      PROVE  Known(e)
  <2>1. DOMAIN rows' = DOMAIN rows \union {Len(rows) + 1}
        /\ rows'[Len(rows) + 1] = [entry |-> f, status |-> "pending"]
    BY <1>0, <1>3, RowCreated DEF Creates
  <2>2. id \in DOMAIN rows \/ e = f
    BY <1>1, <2>1
  <2>3. CASE e = f /\ RegisterEntry(a, f)
    <3>1. Token("todo", a, e)
      BY <2>3 DEF RegisterEntry, Turn, Token
    <3> QED BY <1>0, <3>1 DEF Known, Live, Kinds
  <2>4. CASE e = f /\ Dispatch(a, f)
    BY <2>4 DEF Dispatch, ResultsHaveRows, Known
  <2> QED BY <1>2, <1>3, <2>2, <2>3, <2>4 DEF Creates
<1>4. ASSUME NEW w \in Consumers, NEW s \in RowStatuses, Marks(w, s)
      PROVE  DOMAIN rows' = DOMAIN rows
  BY <1>0, <1>4, RowMarked, TypedHeld DEF Marks, TypeInv
<1> QED BY <1>1, <1>2, <1>3, <1>4, RowsChange

LEMMA KnownStep ==
  ASSUME TypeInv, [Next]_vars, NoFault', ResultsHaveRows, NEW e \in Entries, Known(e)'
  PROVE  Known(e) \/ \E w \in Consumers : Opened(e, w)
<1> SUFFICES ASSUME ~\E w \in Consumers : Opened(e, w)
             PROVE  Known(e)
  OBVIOUS
<1>0. Jobs(e) \in Nat
  BY JobsTyped
<1>1. ASSUME NEW k \in Kinds, NEW p \in Places, Token(k, p, e)
      PROVE  Known(e)
  BY <1>1 DEF Known, Live
<1>2. CASE Settled(e)
  <2>1. Live(e)' => Live(e)
    BY <1>2 DEF Settled, Live
  <2>2. Jobs(e)' = Jobs(e)
    BY <1>2 DEF Settled
  <2> QED BY <2>1, <2>2, RowsAreKnown DEF Known
<1> QED BY <1>1, <1>2, TokensMove DEF Moves, Passed, Published

LEMMA OneTokenStep ==
  ASSUME TypeInv, [Next]_vars, NoFault', TokenState, NEW e \in Entries
  PROVE  /\ \A k, l \in Kinds, p, q \in Places : Token(k, p, e)' /\ Token(l, q, e)' => k = l /\ p = q
         /\ Live(e)' => Jobs(e)' = 0
         /\ Jobs(e)' <= 1
<1>0. /\ Jobs(e) \in Nat
      /\ \A k, l \in Kinds, p, q \in Places : Token(k, p, e) /\ Token(l, q, e) => k = l /\ p = q
      /\ \A k \in Kinds, p \in Places : Token(k, p, e) => Jobs(e) = 0
      /\ Jobs(e) <= 1
  BY JobsTyped DEF TokenState, OneTokenEach, Live
<1>1. CASE Settled(e)
  BY <1>0, <1>1 DEF Settled, Live
<1>2. ASSUME NEW k \in Kinds, NEW l \in Kinds, NEW p \in Places, NEW q \in Places,
             Passed(e, k, p, l, q)
      PROVE  /\ \A m \in Kinds, r \in Places : Token(m, r, e)' => m = l /\ r = q
             /\ Jobs(e)' = 0
  BY <1>0, <1>2 DEF Passed
<1>3. ASSUME NEW k \in Kinds, NEW p \in Places, Published(e, k, p)
      PROVE  /\ \A m \in Kinds, r \in Places : ~Token(m, r, e)'
             /\ Jobs(e)' = 1
  BY <1>0, <1>3 DEF Published
<1>4. ASSUME NEW w \in Consumers, Opened(e, w)
      PROVE  /\ \A m \in Kinds, r \in Places : Token(m, r, e)' => m = "todo" /\ r = w
             /\ Jobs(e)' = 0
  <2>1. Live(Entry(w))
    BY <1>4 DEF Opened, Live, Kinds, Places, Agents
  <2>2. ~Known(e)
    BY <1>4, <2>1 DEF Opened, TokenState, ContentsUnknown
  <2> QED BY <1>0, <1>4, <2>2 DEF Opened, Known, Live
<1> QED BY <1>1, <1>2, <1>3, <1>4, TokensMove DEF Moves, Live

\* An archive that has a token had one before, or it is a file of the one that is opened.
LEMMA LiveStep ==
  ASSUME TypeInv, [Next]_vars, NoFault', NEW e \in Entries, Live(e)'
  PROVE  Live(e) \/ \E w \in Consumers : Opened(e, w)
<1>1. Settled(e) => Live(e)
  BY DEF Settled, Live
<1> QED BY <1>1, TokensMove DEF Moves, Passed, Published, Live

\* Opening an archive takes its token.
LEMMA OpeningEnds ==
  ASSUME TypeInv, [Next]_vars, NoFault', TokenState, NEW e \in Entries, NEW w \in Consumers,
         Opened(e, w)
  PROVE  /\ ~Known(e)
         /\ \E x \in Archives : e \in Inside[x] /\ HasRow(x) /\ Live(x) /\ ~Live(x)'
<1>1. Entry(w) \in Archives /\ e \in Inside[Entry(w)] /\ Token("work", w, Entry(w))
  BY DEF Opened
<1>2. Live(Entry(w)) /\ "work" \in Kinds /\ w \in Places
  BY <1>1 DEF Live, Kinds, Places, Agents
<1>3. \A f \in Inside[Entry(w)] : ~Known(f)
  BY <1>1, <1>2 DEF TokenState, ContentsUnknown
<1>4. PICK x \in Archives : x = Entry(w)
  BY <1>1
<1>5. x \in Entries /\ x \notin Inside[x]
  BY <1>2, <1>3, <1>4, EntriesOfArchives DEF Known
<1>6. ASSUME NEW k \in Kinds, NEW p \in Places, Token(k, p, x)'
      PROVE  k = "work" /\ p = w
  <2>1. Token(k, p, x)
    BY <1>4, <1>5, <1>6 DEF Opened
  <2> QED BY <1>1, <1>2, <1>4, <1>5, <2>1 DEF TokenState, OneTokenEach
<1>7. ~Token("work", w, x)'
  BY DEF Opened, Token, AtWork
<1>8. \A k \in Kinds, p \in Places : ~Token(k, p, x)'
  BY <1>6, <1>7
<1>9. HasRow(x)
  <2>1. held[w] \in Ids
    BY <1>1, TypedHeld DEF Token, TypeInv, Ids, AtWork
  <2> QED BY <1>4, <2>1 DEF HasRow, Entry
<1> QED BY <1>1, <1>2, <1>3, <1>4, <1>8, <1>9 DEF Live

LEMMA ContentsStep ==
  ASSUME TypeInv, [Next]_vars, NoFault', TokenState
  PROVE  ContentsUnknown'
<1> SUFFICES ASSUME NEW x \in Archives, Live(x)', NEW e \in Inside[x], Known(e)'
             PROVE  FALSE
  BY DEF ContentsUnknown
<1>0. x \in Entries /\ e \in Entries /\ ResultsHaveRows
  BY EntriesOfArchives DEF TokenState
<1>1. CASE Live(x)
  <2>1. ~Known(e)
    BY <1>1 DEF TokenState, ContentsUnknown
  <2>2. PICK w \in Consumers : Opened(e, w)
    BY <1>0, <2>1, KnownStep
  <2>3. PICK y \in Archives : e \in Inside[y] /\ ~Live(y)'
    BY <1>0, <2>2, OpeningEnds
  <2>4. y = x
    BY <2>3, ContainerAssumption
  <2> QED BY <2>3, <2>4
<1>2. CASE ~Live(x)
  <2>1. PICK v \in Consumers : Opened(x, v)
    BY <1>0, <1>2, LiveStep
  <2>2. ~Known(x)
    BY <1>0, <2>1, OpeningEnds
  <2>3. ~Known(e)
    BY <2>2 DEF TokenState, OpenedHaveRows, Known
  <2>4. PICK w \in Consumers : Opened(e, w)
    BY <1>0, <2>3, KnownStep
  <2>5. PICK y \in Archives : e \in Inside[y] /\ HasRow(y)
    BY <1>0, <2>4, OpeningEnds
  <2>6. y = x
    BY <2>5, ContainerAssumption
  <2> QED BY <2>2, <2>5, <2>6 DEF Known
<1> QED BY <1>1, <1>2

LEMMA OpenedStep ==
  ASSUME TypeInv, [Next]_vars, NoFault', TokenState
  PROVE  OpenedHaveRows'
<1> SUFFICES ASSUME NEW x \in Archives, NEW e \in Inside[x], Known(e)'
             PROVE  HasRow(x)
  BY RowsRemain DEF OpenedHaveRows
<1>0. e \in Entries /\ ResultsHaveRows
  BY EntriesOfArchives DEF TokenState
<1>1. CASE Known(e)
  BY <1>1 DEF TokenState, OpenedHaveRows
<1>2. ASSUME NEW w \in Consumers, Opened(e, w)
      PROVE  HasRow(x)
  <2>1. PICK y \in Archives : e \in Inside[y] /\ HasRow(y)
    BY <1>0, <1>2, OpeningEnds
  <2>2. y = x
    BY <2>1, ContainerAssumption
  <2> QED BY <2>1, <2>2
<1> QED BY <1>0, <1>1, <1>2, KnownStep

\* At first the only tokens are the files of the archive.
LEMMA TokenInit == Init => TokenState
<1> SUFFICES ASSUME Init
             PROVE  TokenState
  OBVIOUS
<1>0. /\ source \in Sources /\ Ids = {} /\ Ingest \notin Consumers
  BY ArchiveAssumption DEF Init, Ids
<1>1. ASSUME NEW e \in Entries, NEW k \in Kinds, NEW p \in Places, Token(k, p, e)
      PROVE  k = "todo" /\ p = Ingest /\ e \in source
  BY <1>1 DEF Init, Token, AtWork
<1>2. \A e \in Entries : Jobs(e) = 0
  BY DEF Init, Jobs
<1>3. \A e \in Entries : ~HasRow(e)
  BY <1>0 DEF HasRow
<1>4. \A x \in Archives : \A e \in Inside[x] : e \in Entries /\ e \notin source
  BY <1>0, EntriesOfArchives, ContainerAssumption
<1>5. \A e \in Entries : Known(e) => e \in source
  BY <1>1, <1>2, <1>3 DEF Known, Live
<1>6. OneTokenEach
  BY <1>1, <1>2 DEF OneTokenEach
<1>7. ContentsUnknown /\ OpenedHaveRows
  BY <1>4, <1>5 DEF ContentsUnknown, OpenedHaveRows
<1>8. ResultsHaveRows
  BY DEF Init, ResultsHaveRows
<1> QED BY <1>6, <1>7, <1>8 DEF TokenState

LEMMA TokenStep == TokenInv /\ [Next]_vars => TokenInv'
<1> SUFFICES ASSUME TokenInv, [Next]_vars
             PROVE  TokenInv'
  OBVIOUS
<1>1. TypeInv /\ TypeInv'
  BY TypeStep DEF TokenInv
<1>2. ASSUME NoFault'
      PROVE  TokenState'
  <2>1. TokenState
    BY <1>1, <1>2, NoFaultStep DEF TokenInv
  <2>2. OneTokenEach'
    BY <1>1, <1>2, <2>1, OneTokenStep DEF OneTokenEach
  <2>3. ContentsUnknown' /\ OpenedHaveRows' /\ ResultsHaveRows'
    BY <1>1, <1>2, <2>1, ContentsStep, OpenedStep, ResultsStep DEF TokenState
  <2> QED BY <2>2, <2>3 DEF TokenState
<1> QED BY <1>1, <1>2 DEF TokenInv

\* Without a fault an entry becomes one job, never two, although ingest and the consumers
\* work on the same rows and messages at once, however many consumers there are and however
\* deep the archives are nested.
THEOREM EntriesBecomeOneJob == Spec => []OneJobPerEntry
<1>1. Init => TokenInv
  BY TypeInit, TokenInit DEF TokenInv
<1>2. TokenInv => OneJobPerEntry
  BY DEF TokenInv, NoFault, TokenState, OneTokenEach, OneJobPerEntry, Jobs
<1> QED BY <1>1, <1>2, TokenStep, PTL DEF Spec

-----------------------------------------------------------------------------
(***************************************************************************)
(* No entry is lost.  As long as no call throws and one accident at most   *)
(* happens, every file of an archive that is opened is covered, or in the  *)
(* hands of the process that opened it: a small file is covered when it is *)
(* discovered, a large one when its message is owned or has been worked    *)
(* off.  A consumer that is done with an archive has covered all of it.    *)
(***************************************************************************)
OneAccident == failures = 0 /\ accidents <= 1

Covered(e) ==
  IF e \in Large THEN \E id \in Ids : rows[id].entry = e /\ (Owned(id) \/ Marked(id))
  ELSE Discovered(e)

InHand(a, e) ==
  \/ e \in todo[a]
  \/ sending[a] # 0 /\ rows[sending[a]].entry = e
  \/ e \notin Large /\ (e \in fan[a] \/ (e \in out[a] /\ Extracting(a)))

\* Ingest dispatches nothing before it has extracted all, and extracts nothing after.
IngestInOrder == IF ingest = "extract" THEN fan[Ingest] = {} ELSE Extracted(Ingest)

SourceCovered ==
  /\ \A e \in source : Covered(e) \/ InHand(Ingest, e)
  /\ IngestInOrder

NestedCovered ==
  \A w \in Consumers :
    /\ pc[w] = "nested" => \A e \in Inside[Entry(w)] : Covered(e) \/ InHand(w, e)
    /\ pc[w] = "fan" => \A e \in Inside[Entry(w)] : Covered(e) \/ (e \notin Large /\ e \in fan[w])
    /\ pc[w] = "complete" /\ Entry(w) \in Archives => \A e \in Inside[Entry(w)] : Covered(e)
    /\ pc[w] = "publish" => Entry(w) \notin Archives
    /\ pc[w] = "fail" => Entry(w) \notin source

ContentsCovered ==
  \A id \in Ids :
    /\ rows[id].status = "completed" /\ rows[id].entry \in Archives =>
         \A e \in Inside[rows[id].entry] : Covered(e)
    /\ rows[id].status = "failed" => rows[id].entry \notin source

CoverState == SourceCovered /\ NestedCovered /\ ContentsCovered
CoverInv == CompletedInv /\ LeasesHeld /\ (OneAccident => CoverState)

LEMMA OneAccidentStep ==
  ASSUME TypeInv, [Next]_vars, OneAccident'
  PROVE  OneAccident /\ OneFault' /\ ~Throws
<1>1. failures \in Nat /\ accidents \in Nat /\ failures' \in Nat /\ accidents' \in Nat
      /\ failures <= failures' /\ accidents <= accidents'
  BY Bounded DEF TypeInv, TypeOK
<1>2. failures' = 0 /\ accidents' <= 1
  BY DEF OneAccident
<1>3. OneAccident
  BY <1>1, <1>2 DEF OneAccident
<1>4. failures' + accidents' <= 1
  <2>1. \A f, a \in Nat : f = 0 /\ a <= 1 => f + a <= 1
    OBVIOUS
  <2> QED BY <1>1, <1>2, <2>1
<1>5. ~Throws
  BY <1>1, <1>2 DEF Throws
<1> QED BY <1>3, <1>4, <1>5 DEF OneFault

\* The entries of the archive do not change, and none of them lies in another archive.
LEMMA SourceFixed ==
  ASSUME [Next]_vars
  PROVE  source' = source
<1>1. ASSUME NEW a \in Agents, NEW e \in Entries,
             \/ RegisterEntry(a, e) \/ ExtractInline(a, e) \/ Dispatch(a, e)
             \/ RegisterFails(a, e) \/ DispatchFails(a, e)
      PROVE  source' = source
  BY <1>1 DEF RegisterEntry, ExtractInline, Dispatch, RegisterFails, DispatchFails, ExtractRest,
    jobVars
<1>2. ASSUME NEW a \in Agents, SendEntry(a) \/ SendEntryFails(a)
      PROVE  source' = source
  BY <1>2 DEF SendEntry, SendEntryFails, EntrySent, ExtractRest, jobVars
<1>3. ASSUME FanOut \/ IngestDone \/ IngestFails \/ ListFails \/ ExtractTimesOut
             \/ IngestDoneFails \/ IngestDies
      PROVE  source' = source
  BY <1>3 DEF FanOut, IngestDone, IngestFails, ListFails, ExtractTimesOut, IngestDoneFails,
    IngestDies, IngestGoes, jobVars
<1>4. ASSUME NEW w \in Consumers,
             \/ MarkProcessing(w) \/ MarkCompleted(w) \/ MarkFailed(w)
             \/ Extract(w) \/ ExtractFails(w) \/ NestedExtracted(w) \/ NestedDispatched(w)
             \/ PublishDiscoveredEntry(w) \/ Count(w) \/ Close(w) \/ DeleteMessage(w)
             \/ NestedFails(w) \/ CompletionThrows(w) \/ ConsumerDies(w) \/ LoseLease(w)
             \/ \E id \in queue : Take(w, id)
      PROVE  source' = source
  BY <1>4 DEF MarkProcessing, MarkCompleted, MarkFailed, Extract, ExtractFails, NestedExtracted,
    NestedDispatched, PublishDiscoveredEntry, Count, Close, DeleteMessage, NestedFails,
    CompletionThrows, ConsumerDies, LoseLease, Take, Leave, ConsumerRest, jobVars
<1>5. ASSUME \/ \E e \in Entries : CreateChildJob(e)
             \/ \E s \in Closings : OnStatusChanged(s)
             \/ UNCHANGED vars
      PROVE  source' = source
  BY <1>5 DEF CreateChildJob, OnStatusChanged, vars, jobVars
<1> QED
  BY <1>1, <1>2, <1>3, <1>4, <1>5 DEF Next, ExtractStep, IngestStep, ConsumerStep, Faults

LEMMA SourceReachable ==
  ASSUME TypeInv, NEW e \in source
  PROVE  Reachable(e) /\ e \in Entries
BY ArchiveAssumption, ContainerAssumption DEF TypeInv, TypeOK, Reachable

\* What is covered stays covered.
LEMMA MessageStays ==
  ASSUME TypeInv, LeasesHeld, [Next]_vars, OneFault', NEW id \in Ids, Owned(id) \/ Marked(id)
  PROVE  Owned(id)' \/ Marked(id)'
<1>0. rows \in Seq(Row) /\ TypeOK
  BY TypedRow DEF TypeInv
<1>1. CASE Owned(id)
  BY <1>1, OwnerStays
<1>2. CASE Marked(id)
  <2>1. CASE UNCHANGED rows
    BY <1>2, <2>1 DEF Marked
  <2>2. CASE \E a \in Agents, e \in Large : Creates(a, e)
    <3>1. rows'[id] = rows[id]
      BY <1>0, <2>2, RowCreated DEF Creates, Ids
    <3> QED BY <1>2, <3>1 DEF Marked
  <2>3. ASSUME NEW w \in Consumers, NEW s \in RowStatuses, Marks(w, s)
        PROVE  Owned(id)' \/ Marked(id)'
    <3>1. held[w] \in DOMAIN rows /\ MarkStatus(held[w], s) /\ held' = held
      BY <1>0, <2>3, TypedHeld DEF Marks
    <3>2. CASE id # held[w]
      <4>1. rows'[id] = rows[id]
        BY <1>0, <3>1, <3>2, RowMarked DEF Ids
      <4> QED BY <1>2, <4>1 DEF Marked
    <3>3. CASE id = held[w] /\ s = "processing"
      <4>1. pc'[w] = "extract"
        BY <2>3, <3>3 DEF Marks, TypeInv, TypeOK
      <4> QED BY <3>1, <3>3, <4>1 DEF Owned, Working
    <3>4. CASE id = held[w] /\ s # "processing"
      <4>1. rows'[id].status = s /\ s \in {"completed", "failed"}
        BY <1>0, <2>3, <3>1, <3>4, RowMarked DEF Marks
      <4> QED BY <4>1 DEF Marked
    <3> QED BY <3>2, <3>3, <3>4
  <2> QED BY <2>1, <2>2, <2>3, RowsChange
<1> QED BY <1>1, <1>2

LEMMA CoverStays ==
  ASSUME TypeInv, LeasesHeld, [Next]_vars, OneFault', NEW e \in Entries, Covered(e)
  PROVE  Covered(e)'
<1>1. CASE e \in Large
  <2>1. PICK id \in Ids : rows[id].entry = e /\ (Owned(id) \/ Marked(id))
    BY <1>1 DEF Covered
  <2>2. id \in Ids' /\ rows'[id].entry = e
    BY <2>1, RowsStep DEF TypeInv, RowsKept, Ids
  <2> QED BY <1>1, <2>1, <2>2, MessageStays DEF Covered
<1>2. CASE e \notin Large
  BY <1>2, DiscoveredStays DEF Covered, TypeInv
<1> QED BY <1>1, <1>2

\* What a process has in hand, it keeps, or covers, or it dies.
LEMMA HandStep ==
  ASSUME TypeInv, [Next]_vars, ~Throws, NEW a \in Agents, NEW e \in Entries, InHand(a, e),
         IF a = Ingest THEN IngestInOrder ELSE pc[a] = "nested"
  PROVE  Covered(e)' \/ InHand(a, e)' \/ (a # Ingest /\ pc'[a] = "idle")
<1> DEFINE Goal == Covered(e)' \/ InHand(a, e)' \/ (a # Ingest /\ pc'[a] = "idle")
<1>0. /\ todo \in [Agents -> SUBSET Entries] /\ sending \in [Agents -> {0} \union Ids]
      /\ out \in [Agents -> SUBSET Entries] /\ fan \in [Agents -> SUBSET Entries]
      /\ pc \in [Consumers -> PcValues] /\ Agents = Consumers \union {Ingest}
      /\ Ingest \notin Consumers
  BY ArchiveAssumption DEF TypeInv, TypeOK, Agents
<1>1. ASSUME NEW b \in Agents, NEW f \in Entries, RegisterEntry(b, f)
      PROVE  Goal
  <2>1. /\ UNCHANGED <<out, fan, pc, ingest>> /\ todo' = [todo EXCEPT ![b] = @ \ {f}]
        /\ sending' = [sending EXCEPT ![b] = Len(rows) + 1]
        /\ sending[b] = 0 /\ f \in todo[b] /\ f \in Large /\ CreatePendingEntry(f)
    BY <1>1 DEF RegisterEntry, ExtractRest, ingestVars, consumerVars, Turn, Past
  <2>2. rows'[Len(rows) + 1].entry = f /\ Len(rows) + 1 # 0
    <3>1. rows'[Len(rows) + 1] = [entry |-> f, status |-> "pending"] /\ Len(rows) + 1 \in Nat \ {0}
      BY <2>1, RowCreated, TypedRow DEF TypeInv
    <3> QED BY <3>1
  <2>3. Extracting(a)' = Extracting(a)
    BY <2>1 DEF Extracting
  <2>4. CASE b = a
    BY <1>0, <2>1, <2>2, <2>3, <2>4 DEF InHand
  <2>5. CASE b # a
    BY <1>0, <2>1, <2>3, <2>5, TokenEntries DEF InHand
  <2> QED BY <2>4, <2>5
<1>2. ASSUME NEW b \in Agents, NEW f \in Entries, ExtractInline(b, f)
      PROVE  Goal
  <2>1. /\ UNCHANGED <<rows, sending, fan, pc, ingest>> /\ todo' = [todo EXCEPT ![b] = @ \ {f}]
        /\ out' = [out EXCEPT ![b] = @ \union {f}]
        /\ f \in todo[b] /\ f \notin Large
    BY <1>2 DEF ExtractInline, ExtractRest, ingestVars, consumerVars, Turn, Past, Returns
  <2>2. Extracting(a)' = Extracting(a)
    BY <2>1 DEF Extracting
  <2>3. b = a => Extracting(a)
    BY <1>0, <2>1 DEF Extracting, Extracted, IngestInOrder
  <2>4. CASE b = a
    BY <1>0, <2>1, <2>2, <2>3, <2>4 DEF InHand
  <2>5. CASE b # a
    BY <1>0, <2>1, <2>2, <2>5 DEF InHand
  <2> QED BY <2>4, <2>5
<1>3. ASSUME NEW b \in Agents, SendEntry(b)
      PROVE  Goal
  <2>1. /\ UNCHANGED <<rows, todo, fan, pc, ingest>> /\ sending' = [sending EXCEPT ![b] = 0]
        /\ out' = [out EXCEPT ![b] = @ \union {rows[sending[b]].entry}]
        /\ sending[b] \in Ids /\ queue' = queue \union {sending[b]}
    BY <1>0, <1>3 DEF SendEntry, EntrySent, ExtractRest, ingestVars, consumerVars, Returns
  <2>2. rows[sending[b]].entry \in Large
    BY <2>1, TypedRow DEF TypeInv, Ids
  <2>3. Extracting(a)' = Extracting(a)
    BY <2>1 DEF Extracting
  <2>4. CASE rows[sending[b]].entry = e
    <3>1. PICK id \in Ids : id = sending[b]
      BY <2>1
    <3>2. id \in queue' /\ id \in Ids' /\ rows'[id].entry = e
      BY <2>1, <2>4, <3>1 DEF Ids
    <3> QED BY <2>2, <2>4, <3>2 DEF Covered, Owned
  <2>5. CASE rows[sending[b]].entry # e
    BY <1>0, <2>1, <2>3, <2>5 DEF InHand
  <2> QED BY <2>4, <2>5
<1>4. ASSUME NEW b \in Agents, NEW f \in Entries, Dispatch(b, f)
      PROVE  Goal
  <2>1. /\ UNCHANGED <<todo, sending, out, pc, ingest, children>>
        /\ fan' = [fan EXCEPT ![b] = @ \ {f}]
        /\ f \notin Large => Publish(f)
    BY <1>4 DEF Dispatch, IsPending, jobVars, consumerVars
  <2>2. Extracting(a)' = Extracting(a)
    BY <2>1 DEF Extracting
  <2>3. CASE f = e /\ e \notin Large
    <3>0. events \in [Entries \union Closings -> Nat]
      BY DEF TypeInv, TypeOK
    <3>1. events'[e] > 0
      BY <2>1, <2>3, <3>0 DEF Publish
    <3> QED BY <2>3, <3>1 DEF Covered, Discovered
  <2>4. CASE ~(f = e /\ e \notin Large)
    BY <1>0, <2>1, <2>2, <2>4, TokenEntries DEF InHand
  <2> QED BY <2>3, <2>4
<1>5. ASSUME FanOut
      PROVE  Goal
  <2>1. /\ UNCHANGED <<rows, todo, sending, out, pc>> /\ Extracted(Ingest) /\ ingest = "extract"
        /\ fan' = [fan EXCEPT ![Ingest] = out[Ingest]]
    BY <1>5 DEF FanOut, IngestGoes, consumerVars
  <2>2. CASE a = Ingest
    BY <1>0, <2>1, <2>2 DEF InHand, Extracted, IngestInOrder
  <2>3. CASE a # Ingest
    BY <1>0, <2>1, <2>3 DEF InHand, Extracting
  <2> QED BY <2>2, <2>3
<1>6. ASSUME NEW w \in Consumers, NestedExtracted(w)
      PROVE  Goal
  <2>1. /\ UNCHANGED <<rows, todo, sending, out, ingest>> /\ Extracted(w)
        /\ fan' = [fan EXCEPT ![w] = @ \union out[w]]
        /\ pc' = [pc EXCEPT ![w] = "fan"]
    BY <1>6 DEF NestedExtracted, Goto, ConsumerRest, ingestVars
  <2>2. CASE a = w
    BY <1>0, <2>1, <2>2 DEF InHand, Extracted, IngestInOrder
  <2>3. CASE a # w
    BY <1>0, <2>1, <2>3 DEF InHand, Extracting
  <2> QED BY <2>2, <2>3
<1>7. ASSUME NEW w \in Consumers, Extract(w)
      PROVE  Goal
  <2>1. /\ UNCHANGED <<rows, sending, fan, ingest>> /\ pc[w] = "extract"
        /\ \A b \in Agents : b # w => todo'[b] = todo[b] /\ out'[b] = out[b]
        /\ \A v \in Consumers : v # w => pc'[v] = pc[v]
    BY <1>0, <1>7 DEF Extract, ConsumerAt, Goto, ConsumerRest, ingestVars
  <2>2. a # w
    BY <1>0, <2>1
  <2> QED BY <1>0, <2>1, <2>2 DEF InHand, Extracting
<1>8. ASSUME NEW w \in Consumers, ConsumerDies(w)
      PROVE  Goal
  <2>1. /\ UNCHANGED <<rows, out, ingest>> /\ pc' = [pc EXCEPT ![w] = "idle"]
        /\ \A b \in Agents : b # w => todo'[b] = todo[b] /\ sending'[b] = sending[b] /\ fan'[b] = fan[b]
    BY <1>0, <1>8 DEF ConsumerDies, Leave, Goto, ingestVars
  <2> QED BY <1>0, <2>1 DEF InHand, Extracting
<1>9. ASSUME NEW w \in Consumers,
             \/ MarkProcessing(w) \/ ExtractFails(w) \/ NestedDispatched(w) \/ MarkCompleted(w)
             \/ MarkFailed(w) \/ Count(w) \/ Close(w) \/ DeleteMessage(w)
             \/ PublishDiscoveredEntry(w) \/ LoseLease(w) \/ \E id \in queue : Take(w, id)
      PROVE  Goal
  <2>1. UNCHANGED <<extractVars, ingest>>
    BY <1>9 DEF MarkProcessing, ExtractFails, NestedDispatched, MarkCompleted, MarkFailed, Count,
      Close, DeleteMessage, PublishDiscoveredEntry, LoseLease, Take, ConsumerRest, Leave, ingestVars
  <2>2. pc' = pc \/ (pc[w] # "nested" /\ \A v \in Consumers : v # w => pc'[v] = pc[v])
    BY <1>0, <1>9 DEF MarkProcessing, ExtractFails, NestedDispatched, MarkCompleted, MarkFailed, Count,
      Close, DeleteMessage, PublishDiscoveredEntry, LoseLease, Take, ConsumerAt, Goto, Leave
  <2>3. Extracting(a)' = Extracting(a)
    BY <1>0, <2>1, <2>2 DEF Extracting
  <2> QED BY <2>1, <2>3, TokenEntries DEF InHand, extractVars
<1>10. ASSUME \/ IngestDone \/ IngestFails
              \/ \E f \in Entries : CreateChildJob(f)
              \/ \E s \in Closings : OnStatusChanged(s)
              \/ UNCHANGED vars
       PROVE  Goal
  <2>1. UNCHANGED <<extractVars, pc>> /\ (ingest = "extract" <=> ingest' = "extract")
    BY <1>10 DEF IngestDone, IngestFails, IngestGoes, CreateChildJob, OnStatusChanged, vars,
      consumerVars, extractVars, ingestVars
  <2>2. Extracting(a)' = Extracting(a)
    BY <2>1 DEF Extracting
  <2> QED BY <2>1, <2>2, TokenEntries DEF InHand, extractVars
<1>11. Faults => \E w \in Consumers : ConsumerDies(w) \/ LoseLease(w)
  BY DEF Faults, SendEntryFails, RegisterFails, DispatchFails, ListFails, ExtractTimesOut,
    IngestDoneFails, IngestDies, NestedFails, CompletionThrows
<1> HIDE DEF Goal
<1>12. Goal
  BY <1>1, <1>2, <1>3, <1>4, <1>5, <1>6, <1>7, <1>8, <1>9, <1>10, <1>11
     DEF Next, ExtractStep, IngestStep, ConsumerStep
<1> QED BY <1>12 DEF Goal

LEMMA IngestOrderStep ==
  ASSUME TypeInv, [Next]_vars, ~Throws, IngestInOrder
  PROVE  IngestInOrder'
<1>0. /\ todo \in [Agents -> SUBSET Entries] /\ sending \in [Agents -> {0} \union Ids]
      /\ fan \in [Agents -> SUBSET Entries] /\ Ingest \in Agents /\ Ingest \notin Consumers
  BY ArchiveAssumption DEF TypeInv, TypeOK, Agents
<1>1. ASSUME NEW b \in Agents, NEW f \in Entries,
             RegisterEntry(b, f) \/ ExtractInline(b, f) \/ Dispatch(b, f)
      PROVE  IngestInOrder'
  <2>1. CASE b = Ingest
    BY <1>0, <1>1, <2>1 DEF IngestInOrder, Extracted, RegisterEntry, ExtractInline, Dispatch, ExtractRest,
      ingestVars, Turn
  <2>2. CASE b # Ingest
    BY <1>0, <1>1, <2>2 DEF IngestInOrder, Extracted, RegisterEntry, ExtractInline, Dispatch, ExtractRest,
      ingestVars, Past
  <2> QED BY <2>1, <2>2
<1>2. ASSUME NEW b \in Agents, SendEntry(b)
      PROVE  IngestInOrder'
  BY <1>0, <1>2 DEF IngestInOrder, Extracted, SendEntry, EntrySent, ExtractRest, ingestVars
<1>3. ASSUME FanOut \/ IngestDone \/ IngestFails
      PROVE  IngestInOrder'
  BY <1>0, <1>3 DEF IngestInOrder, Extracted, FanOut, IngestDone, IngestFails, IngestGoes
<1>4. ASSUME NEW w \in Consumers, NestedExtracted(w) \/ Extract(w) \/ ConsumerDies(w)
      PROVE  IngestInOrder'
  BY <1>0, <1>4 DEF IngestInOrder, Extracted, NestedExtracted, Extract, ConsumerDies, Leave,
    ConsumerRest, ingestVars
<1>5. ASSUME NEW w \in Consumers,
             \/ MarkProcessing(w) \/ ExtractFails(w) \/ NestedDispatched(w) \/ MarkCompleted(w)
             \/ MarkFailed(w) \/ Count(w) \/ Close(w) \/ DeleteMessage(w)
             \/ PublishDiscoveredEntry(w) \/ LoseLease(w) \/ \E id \in queue : Take(w, id)
      PROVE  IngestInOrder'
  BY <1>5 DEF IngestInOrder, Extracted, MarkProcessing, ExtractFails, NestedDispatched, MarkCompleted,
    MarkFailed, Count, Close, DeleteMessage, PublishDiscoveredEntry, LoseLease, Take, ConsumerRest,
    Leave, ingestVars, extractVars
<1>6. ASSUME \/ \E f \in Entries : CreateChildJob(f)
             \/ \E s \in Closings : OnStatusChanged(s)
             \/ UNCHANGED vars
      PROVE  IngestInOrder'
  BY <1>6 DEF IngestInOrder, Extracted, CreateChildJob, OnStatusChanged, vars, extractVars, ingestVars
<1>7. Faults => \E w \in Consumers : ConsumerDies(w) \/ LoseLease(w)
  BY DEF Faults, SendEntryFails, RegisterFails, DispatchFails, ListFails, ExtractTimesOut,
    IngestDoneFails, IngestDies, NestedFails, CompletionThrows
<1> QED
  BY <1>1, <1>2, <1>3, <1>4, <1>5, <1>6, <1>7 DEF Next, ExtractStep, IngestStep, ConsumerStep

\* How a consumer comes to where it is, when no call throws.
LEMMA ConsumerPath ==
  ASSUME TypeInv, [Next]_vars, ~Throws, NEW w \in Consumers
  PROVE  \/ pc'[w] = pc[w] /\ held'[w] = held[w]
         \/ pc'[w] \notin {"nested", "fan", "publish", "complete", "fail"}
         \/ Extract(w) \/ NestedExtracted(w) \/ NestedDispatched(w) \/ PublishDiscoveredEntry(w)
         \/ ExtractFails(w) /\ ~Reachable(Entry(w))
<1> DEFINE Goal == \/ pc'[w] = pc[w] /\ held'[w] = held[w]
                   \/ pc'[w] \notin {"nested", "fan", "publish", "complete", "fail"}
                   \/ Extract(w) \/ NestedExtracted(w) \/ NestedDispatched(w)
                   \/ PublishDiscoveredEntry(w)
                   \/ ExtractFails(w) /\ ~Reachable(Entry(w))
<1>0. pc \in [Consumers -> PcValues] /\ held \in [Consumers -> {0} \union Ids]
  BY DEF TypeInv, TypeOK
<1>1. ASSUME NEW b \in Agents, NEW f \in Entries,
             RegisterEntry(b, f) \/ ExtractInline(b, f) \/ Dispatch(b, f)
      PROVE  UNCHANGED <<pc, held>>
  BY <1>1 DEF RegisterEntry, ExtractInline, Dispatch, ExtractRest, consumerVars
<1>2. ASSUME \/ FanOut \/ IngestDone \/ IngestFails
             \/ \E f \in Entries : CreateChildJob(f)
             \/ \E s \in Closings : OnStatusChanged(s)
             \/ \E b \in Agents : SendEntry(b)
             \/ UNCHANGED vars
      PROVE  UNCHANGED <<pc, held>>
  BY <1>2 DEF FanOut, IngestDone, IngestFails, IngestGoes, CreateChildJob, OnStatusChanged, SendEntry,
    EntrySent, ExtractRest, vars, consumerVars
<1>3. ASSUME NEW v \in Consumers, v # w, 
             \/ Extract(v) \/ NestedExtracted(v) \/ ConsumerDies(v)
             \/ MarkProcessing(v) \/ ExtractFails(v) \/ NestedDispatched(v) \/ MarkCompleted(v)
             \/ MarkFailed(v) \/ Count(v) \/ Close(v) \/ DeleteMessage(v)
             \/ PublishDiscoveredEntry(v) \/ LoseLease(v) \/ \E id \in queue : Take(v, id)
      PROVE  pc'[w] = pc[w] /\ held'[w] = held[w]
  BY <1>0, <1>3 DEF Extract, NestedExtracted, ConsumerDies, MarkProcessing, ExtractFails,
    NestedDispatched, MarkCompleted, MarkFailed, Count, Close, DeleteMessage, PublishDiscoveredEntry,
    LoseLease, Take, ConsumerRest, Leave, Goto
<1>4. ASSUME \/ ConsumerDies(w) \/ MarkProcessing(w) \/ MarkCompleted(w) \/ MarkFailed(w)
             \/ Count(w) \/ Close(w) \/ DeleteMessage(w) \/ \E id \in queue : Take(w, id)
      PROVE  pc'[w] \notin {"nested", "fan", "publish", "complete", "fail"}
  BY <1>0, <1>4 DEF ConsumerDies, MarkProcessing, MarkCompleted, MarkFailed, Count, Close,
    DeleteMessage, Take, Leave, Goto
<1>5. LoseLease(w) => UNCHANGED <<pc, held>>
  BY DEF LoseLease
<1>6. ExtractFails(w) => ~Reachable(Entry(w))
  BY DEF ExtractFails
<1>7. Faults => \E v \in Consumers : ConsumerDies(v) \/ LoseLease(v)
  BY DEF Faults, SendEntryFails, RegisterFails, DispatchFails, ListFails, ExtractTimesOut,
    IngestDoneFails, IngestDies, NestedFails, CompletionThrows
<1>8. ASSUME NEW v \in Consumers,
             \/ ConsumerStep(v) \/ ConsumerDies(v) \/ LoseLease(v) \/ \E id \in queue : Take(v, id)
      PROVE  Goal
  <2>1. CASE v = w
    BY <1>4, <1>5, <1>6, <1>8, <2>1 DEF ConsumerStep
  <2>2. CASE v # w
    BY <1>3, <1>8, <2>2 DEF ConsumerStep
  <2> QED BY <2>1, <2>2
<1>9. UNCHANGED <<pc, held>> => Goal
  OBVIOUS
<1> HIDE DEF Goal
<1>10. ASSUME NEW b \in Agents, ExtractStep(b)
       PROVE  Goal
  BY <1>1, <1>2, <1>9, <1>10 DEF ExtractStep
<1>11. IngestStep => Goal
  BY <1>2, <1>9 DEF IngestStep
<1>12. Faults => Goal
  BY <1>7, <1>8
<1>13. Goal
  BY <1>2, <1>8, <1>9, <1>10, <1>11, <1>12 DEF Next
<1> QED BY <1>13 DEF Goal

LEMMA SourceStep ==
  ASSUME TypeInv, LeasesHeld, [Next]_vars, OneAccident', CoverState
  PROVE  SourceCovered'
<1>0. ~Throws /\ OneFault' /\ IngestInOrder /\ Ingest \in Agents
  BY OneAccidentStep DEF CoverState, SourceCovered, Agents
<1>1. ASSUME NEW e \in source
      PROVE  Covered(e)' \/ InHand(Ingest, e)'
  <2>1. e \in Entries
    BY SourceReachable
  <2>2. CASE Covered(e)
    BY <1>0, <2>1, <2>2, CoverStays
  <2>3. CASE InHand(Ingest, e)
    BY <1>0, <2>1, <2>3, HandStep
  <2> QED BY <2>2, <2>3 DEF CoverState, SourceCovered
<1> QED BY <1>0, <1>1, SourceFixed, IngestOrderStep DEF SourceCovered

\* One consumer that stays where it is.
LEMMA SameEntry ==
  ASSUME TypeInv, [Next]_vars, NEW w \in Consumers, pc[w] # "idle", held'[w] = held[w]
  PROVE  Entry(w)' = Entry(w) /\ Entry(w) \in Entries
<1>1. held[w] \in DOMAIN rows /\ Entry(w) \in Entries
  BY TypedHeld DEF TypeInv
<1>2. rows'[held[w]].entry = rows[held[w]].entry
  BY <1>1, RowsStep DEF TypeInv, RowsKept
<1> QED BY <1>1, <1>2 DEF Entry

\* A small result is dispatched, which publishes it.
LEMMA FanStep ==
  ASSUME TypeInv, [Next]_vars, ~Throws, NEW w \in Consumers, NEW e \in Entries, e \notin Large,
         e \in fan[w], pc[w] = "fan", pc'[w] = "fan"
  PROVE  Covered(e)' \/ e \in fan'[w]
<1> DEFINE Goal == Covered(e)' \/ e \in fan'[w]
<1>0. /\ fan \in [Agents -> SUBSET Entries] /\ events \in [Entries \union Closings -> Nat]
      /\ pc \in [Consumers -> PcValues] /\ Ingest \notin Consumers /\ w \in Agents
  BY ArchiveAssumption DEF TypeInv, TypeOK, Agents
<1>1. ASSUME NEW b \in Agents, NEW f \in Entries, Dispatch(b, f)
      PROVE  Goal
  <2>1. /\ UNCHANGED children /\ fan' = [fan EXCEPT ![b] = @ \ {f}]
        /\ f \notin Large => Publish(f)
    BY <1>1 DEF Dispatch, IsPending, jobVars
  <2>2. CASE f = e
    <3>1. events'[e] > 0
      BY <1>0, <2>1, <2>2 DEF Publish
    <3> QED BY <3>1 DEF Covered, Discovered
  <2>3. CASE f # e
    BY <1>0, <2>1, <2>3
  <2> QED BY <2>2, <2>3
<1>2. ASSUME NEW b \in Agents, NEW f \in Entries,
             RegisterEntry(b, f) \/ ExtractInline(b, f) \/ SendEntry(b)
      PROVE  UNCHANGED fan
  BY <1>2 DEF RegisterEntry, ExtractInline, SendEntry, EntrySent, ExtractRest
<1>3. ASSUME FanOut
      PROVE  fan'[w] = fan[w]
  BY <1>0, <1>3 DEF FanOut
<1>4. ASSUME NEW v \in Consumers, NestedExtracted(v) \/ ConsumerDies(v)
      PROVE  Goal
  BY <1>0, <1>4 DEF NestedExtracted, ConsumerDies, ConsumerAt, Leave, Goto
<1>5. ASSUME NEW v \in Consumers,
             \/ MarkProcessing(v) \/ ExtractFails(v) \/ NestedDispatched(v) \/ MarkCompleted(v)
             \/ MarkFailed(v) \/ Count(v) \/ Close(v) \/ DeleteMessage(v) \/ Extract(v)
             \/ PublishDiscoveredEntry(v) \/ LoseLease(v) \/ \E id \in queue : Take(v, id)
      PROVE  UNCHANGED fan
  BY <1>5 DEF MarkProcessing, ExtractFails, NestedDispatched, MarkCompleted, MarkFailed, Count, Close,
    DeleteMessage, Extract, PublishDiscoveredEntry, LoseLease, Take, extractVars
<1>6. ASSUME \/ IngestDone \/ IngestFails
             \/ \E f \in Entries : CreateChildJob(f)
             \/ \E s \in Closings : OnStatusChanged(s)
             \/ UNCHANGED vars
      PROVE  UNCHANGED fan
  BY <1>6 DEF IngestDone, IngestFails, CreateChildJob, OnStatusChanged, vars, extractVars
<1>7. Faults => \E v \in Consumers : ConsumerDies(v) \/ LoseLease(v)
  BY DEF Faults, SendEntryFails, RegisterFails, DispatchFails, ListFails, ExtractTimesOut,
    IngestDoneFails, IngestDies, NestedFails, CompletionThrows
<1>8. fan'[w] = fan[w] => Goal
  OBVIOUS
<1> HIDE DEF Goal
<1>9. ASSUME NEW b \in Agents, ExtractStep(b)
      PROVE  Goal
  BY <1>1, <1>2, <1>8, <1>9, ArchiveAssumption DEF ExtractStep
<1>10. ASSUME NEW v \in Consumers,
              \/ ConsumerStep(v) \/ ConsumerDies(v) \/ LoseLease(v) \/ \E id \in queue : Take(v, id)
       PROVE  Goal
  BY <1>4, <1>5, <1>8, <1>10 DEF ConsumerStep
<1>11. Goal
  BY <1>3, <1>6, <1>7, <1>8, <1>9, <1>10 DEF Next, IngestStep
<1> QED BY <1>11 DEF Goal

\* What NestedCovered says of a consumer that is at a step, with an entry x.
NestedAt(w, step, x) ==
  /\ step = "nested" => \A e \in Inside[x] : Covered(e) \/ InHand(w, e)
  /\ step = "fan" => \A e \in Inside[x] : Covered(e) \/ (e \notin Large /\ e \in fan[w])
  /\ step = "complete" /\ x \in Archives => \A e \in Inside[x] : Covered(e)
  /\ step = "publish" => x \notin Archives
  /\ step = "fail" => x \notin source

LEMMA NestedStep ==
  ASSUME TypeInv, LeasesHeld, [Next]_vars, OneAccident', CoverState,
         NEW w \in Consumers, NEW x \in Large, x = Entry(w), pc[w] # "idle",
         NEW step, step = pc'[w], step \in {"nested", "fan", "publish", "complete", "fail"}
  PROVE  NestedAt(w, step, x)'
<1>0. /\ ~Throws /\ OneFault' /\ w \in Agents /\ w # Ingest /\ Ingest \notin Consumers
      /\ todo \in [Agents -> SUBSET Entries] /\ fan \in [Agents -> SUBSET Entries]
      /\ pc \in [Consumers -> PcValues]
      /\ x \in Archives => Inside[x] \subseteq Entries
  BY OneAccidentStep, ArchiveAssumption, EntriesOfArchives DEF Agents, TypeInv, TypeOK
<1>1. NestedAt(w, pc[w], x)
  BY DEF CoverState, NestedCovered, NestedAt
<1>2. \A e \in Entries : Covered(e) => Covered(e)'
  BY <1>0, CoverStays
<1>3. pc[w] \in {"nested", "fan"} => x \in Archives
  BY DEF TypeInv
<1>4. CASE pc'[w] = pc[w]
  <2>1. CASE pc[w] = "nested"
    <3>1. ASSUME NEW e \in Entries, InHand(w, e)
          PROVE  Covered(e)' \/ InHand(w, e)'
      BY <1>0, <1>4, <2>1, <3>1, HandStep
    <3> QED BY <1>0, <1>1, <1>2, <1>3, <1>4, <2>1, <3>1 DEF NestedAt
  <2>2. CASE pc[w] = "fan"
    <3>1. ASSUME NEW e \in Entries, e \notin Large, e \in fan[w]
          PROVE  Covered(e)' \/ e \in fan'[w]
      BY <1>0, <1>4, <2>2, <3>1, FanStep
    <3> QED BY <1>0, <1>1, <1>2, <1>3, <1>4, <2>2, <3>1 DEF NestedAt
  <2>3. CASE pc[w] = "complete"
    BY <1>0, <1>1, <1>2, <1>4, <2>3 DEF NestedAt
  <2>4. CASE pc[w] = "publish" \/ pc[w] = "fail"
    BY <1>1, <1>4, <2>4, SourceFixed DEF NestedAt
  <2> QED BY <1>4, <2>1, <2>2, <2>3, <2>4
<1>5. CASE Extract(w)
  <2>1. CASE x \in Archives
    <3>1. todo'[w] = Inside[x] /\ step = "nested"
      BY <1>0, <1>5, <2>1 DEF Extract, Goto
    <3> QED BY <3>1 DEF NestedAt, InHand
  <2>2. CASE x \notin Archives
    <3>1. step = "publish"
      BY <1>0, <1>5, <2>2 DEF Extract, Goto
    <3> QED BY <2>2, <3>1 DEF NestedAt
  <2> QED BY <2>1, <2>2
<1>6. CASE NestedExtracted(w)
  <2>1. /\ pc[w] = "nested" /\ step = "fan" /\ fan'[w] = fan[w] \union out[w] /\ Extracted(w)
    BY <1>0, <1>6 DEF NestedExtracted, ConsumerAt, Goto
  <2>2. \A e \in Inside[x] : InHand(w, e) => e \notin Large /\ e \in fan'[w]
    BY <2>1 DEF InHand, Extracted
  <2>3. \A e \in Inside[x] : Covered(e)' \/ (e \notin Large /\ e \in fan'[w])
    BY <1>0, <1>1, <1>2, <1>3, <2>1, <2>2 DEF NestedAt
  <2> QED BY <2>1, <2>3 DEF NestedAt
<1>7. CASE NestedDispatched(w)
  <2>1. pc[w] = "fan" /\ step = "complete" /\ fan[w] = {}
    BY <1>0, <1>7 DEF NestedDispatched, ConsumerAt, Goto
  <2>2. \A e \in Inside[x] : Covered(e)'
    BY <1>0, <1>1, <1>2, <1>3, <2>1 DEF NestedAt
  <2> QED BY <2>1, <2>2 DEF NestedAt
<1>8. CASE PublishDiscoveredEntry(w)
  <2>1. pc[w] = "publish" /\ step = "complete"
    BY <1>0, <1>8 DEF PublishDiscoveredEntry, ConsumerAt, Goto
  <2> QED BY <1>1, <2>1 DEF NestedAt
<1>9. CASE ExtractFails(w) /\ ~Reachable(Entry(w))
  <2>1. step = "fail"
    BY <1>0, <1>9 DEF ExtractFails, Goto
  <2>2. x \notin source
    BY <1>9, SourceReachable
  <2> QED BY <2>1, <2>2, SourceFixed DEF NestedAt
<1> QED BY <1>0, <1>4, <1>5, <1>6, <1>7, <1>8, <1>9, ConsumerPath

LEMMA NestedCoveredStep ==
  ASSUME TypeInv, LeasesHeld, [Next]_vars, OneAccident', CoverState
  PROVE  NestedCovered'
<1> SUFFICES ASSUME NEW w \in Consumers, NEW step, step = pc'[w],
                    step \in {"nested", "fan", "publish", "complete", "fail"}
             PROVE  NestedAt(w, step, Entry(w))'
  BY DEF NestedCovered, NestedAt
<1>1. /\ held'[w] = held[w] /\ pc[w] # "idle"
  <2>1. pc \in [Consumers -> PcValues] /\ held \in [Consumers -> {0} \union Ids] /\ ~Throws
    BY OneAccidentStep DEF TypeInv, TypeOK
  <2>2. CASE pc'[w] = pc[w] /\ held'[w] = held[w]
    BY <2>2
  <2>3. CASE \/ Extract(w) \/ NestedExtracted(w) \/ NestedDispatched(w) \/ PublishDiscoveredEntry(w)
             \/ ExtractFails(w)
    BY <2>3 DEF Extract, NestedExtracted, NestedDispatched, PublishDiscoveredEntry, ExtractFails,
      ConsumerAt, ConsumerRest
  <2> QED BY <2>1, <2>2, <2>3, ConsumerPath
<1>2. PICK x \in Large : x = Entry(w)
  BY <1>1, TypedHeld DEF TypeInv
<1>3. Entry(w)' = x
  BY <1>1, <1>2, SameEntry
<1>4. NestedAt(w, step, x)'
  BY <1>1, <1>2, NestedStep
<1> QED BY <1>3, <1>4 DEF NestedAt

LEMMA ContentsCoveredStep ==
  ASSUME TypeInv, LeasesHeld, [Next]_vars, OneAccident', CoverState
  PROVE  ContentsCovered'
<1>0. /\ rows \in Seq(Row) /\ RowsKept /\ OneFault' /\ TypeOK
      /\ \A x \in Archives : Inside[x] \subseteq Entries
  BY RowsStep, TypedRow, OneAccidentStep, EntriesOfArchives DEF TypeInv
<1>1. \A e \in Entries : Covered(e) => Covered(e)'
  BY <1>0, CoverStays
<1>2. SUFFICES ASSUME NEW id \in Ids', NEW x, x = rows'[id].entry
               PROVE  /\ rows'[id].status = "completed" /\ x \in Archives =>
                           \A e \in Inside[x] : Covered(e)'
                      /\ rows'[id].status = "failed" => x \notin source
  BY SourceFixed DEF ContentsCovered
<1>3. ASSUME id \in Ids, rows'[id] = rows[id]
      PROVE  /\ rows'[id].status = "completed" /\ x \in Archives => \A e \in Inside[x] : Covered(e)'
             /\ rows'[id].status = "failed" => x \notin source
  BY <1>0, <1>1, <1>2, <1>3 DEF CoverState, ContentsCovered
<1>4. CASE UNCHANGED rows
  BY <1>3, <1>4 DEF Ids
<1>5. CASE \E a \in Agents, e \in Large : Creates(a, e)
  BY <1>0, <1>3, <1>5, RowCreatedStatus DEF Creates, Ids
<1>6. ASSUME NEW w \in Consumers, NEW s \in RowStatuses, Marks(w, s)
      PROVE  /\ rows'[id].status = "completed" /\ x \in Archives => \A e \in Inside[x] : Covered(e)'
             /\ rows'[id].status = "failed" => x \notin source
  <2>1. held[w] \in DOMAIN rows /\ MarkStatus(held[w], s)
    BY <1>0, <1>6, TypedHeld DEF Marks
  <2>2. CASE id # held[w]
    BY <1>0, <1>3, <2>1, <2>2, RowMarked DEF Ids
  <2>3. CASE id = held[w]
    <3>1. rows'[id].status = s /\ x = Entry(w)
      BY <1>0, <1>2, <2>1, <2>3, RowMarked DEF RowsKept, Entry
    <3>2. s = "completed" => pc[w] = "complete"
      BY <1>6 DEF Marks
    <3>3. s = "failed" => pc[w] = "fail"
      BY <1>6 DEF Marks
    <3> QED BY <1>0, <1>1, <3>1, <3>2, <3>3 DEF CoverState, NestedCovered
  <2> QED BY <2>2, <2>3
<1> QED BY <1>4, <1>5, <1>6, RowsChange

LEMMA CoverInit == Init => CoverState
<1> SUFFICES ASSUME Init
             PROVE  CoverState
  OBVIOUS
<1>1. SourceCovered
  BY DEF Init, SourceCovered, IngestInOrder, InHand, Agents
<1>2. NestedCovered /\ ContentsCovered
  BY DEF Init, NestedCovered, ContentsCovered, Ids
<1> QED BY <1>1, <1>2 DEF CoverState

LEMMA CoverStep == CoverInv /\ [Next]_vars => CoverInv'
<1> SUFFICES ASSUME CoverInv, [Next]_vars
             PROVE  CoverInv'
  OBVIOUS
<1>1. TypeInv /\ LeasesHeld
  BY DEF CoverInv, CompletedInv
<1>2. CompletedInv'
  BY TypeStep, AnnouncedStep, CompletedStep DEF CoverInv, CompletedInv
<1>3. ASSUME OneAccident'
      PROVE  CoverState'
  <2>1. CoverState
    BY <1>1, <1>3, OneAccidentStep DEF CoverInv
  <2> QED BY <1>1, <1>3, <2>1, SourceStep, NestedCoveredStep, ContentsCoveredStep DEF CoverState
<1> QED BY <1>1, <1>2, <1>3, LeasesStep DEF CoverInv

LEMMA QuietCovered ==
  ASSUME CoverInv, OneAccident, Quiet, NEW e \in Entries \ Archives, Covered(e)
  PROVE  children[e] > 0 \/ \E id \in Ids : rows[id] = [entry |-> e, status |-> "failed"]
<1>0. /\ \A x \in Entries \union Closings : events[x] = 0
      /\ queue = {} /\ \A w \in Consumers : pc[w] = "idle"
  BY DEF Quiet, CoverInv, CompletedInv, TypeInv, TypeOK
<1>1. Discovered(e) => children[e] > 0
  BY <1>0 DEF Discovered
<1>2. CASE e \in Large
  <2>1. PICK id \in Ids : rows[id].entry = e /\ (Owned(id) \/ Marked(id))
    BY <1>2 DEF Covered
  <2>2. Marked(id)
    BY <1>0, <2>1 DEF Owned, Working
  <2>3. CASE rows[id].status = "completed"
    BY <1>1, <2>1, <2>3 DEF CoverInv, CompletedInv, CompletedEntriesDiscovered
  <2>4. CASE rows[id].status = "failed"
    <3>1. rows[id] \in Row
      BY TypedRow DEF CoverInv, CompletedInv, TypeInv, Ids
    <3>2. rows[id] = [entry |-> e, status |-> "failed"]
      BY <2>1, <2>4, <3>1 DEF Row
    <3> QED BY <3>2
  <2> QED BY <2>2, <2>3, <2>4 DEF Marked
<1>3. CASE e \notin Large
  BY <1>1, <1>3 DEF Covered
<1> QED BY <1>2, <1>3

LEMMA CoverSuffices ==
  ASSUME CoverInv, accidents <= 1
  PROVE  NoEntryLost
<1> SUFFICES ASSUME Quiet, failures = 0,
                    NEW e \in (source \union UNION {Inside[a] : a \in source \intersect Archives})
                              \ Archives
             PROVE  children[e] > 0 \/ \E id \in Ids : rows[id] = [entry |-> e, status |-> "failed"]
  BY DEF NoEntryLost
<1>0. OneAccident /\ CoverState /\ TypeInv /\ Ingest \in Agents
  BY DEF OneAccident, CoverInv, CompletedInv, Agents
<1>1. \A x \in source : Covered(x)
  <2>1. todo[Ingest] = {} /\ sending[Ingest] = 0 /\ fan[Ingest] = {} /\ ingest = "done"
    BY <1>0 DEF Quiet, Extracted
  <2> QED BY <1>0, <2>1 DEF CoverState, SourceCovered, InHand, Extracting
<1>2. CASE e \in source
  BY <1>0, <1>1, <1>2, SourceReachable, QuietCovered
<1>3. ASSUME NEW x \in source \intersect Archives, e \in Inside[x]
      PROVE  Covered(e) /\ e \in Entries
  <2>1. PICK id \in Ids : rows[id].entry = x /\ (Owned(id) \/ Marked(id))
    BY <1>1, <1>3, EntriesOfArchives DEF Covered
  <2>2. queue = {} /\ \A w \in Consumers : pc[w] = "idle"
    BY DEF Quiet
  <2>3. Marked(id)
    BY <2>1, <2>2 DEF Owned, Working
  <2>4. rows[id].status = "completed"
    BY <1>0, <2>1, <2>3 DEF Marked, CoverState, ContentsCovered
  <2> QED BY <1>0, <1>3, <2>1, <2>4, EntriesOfArchives DEF CoverState, ContentsCovered
<1> QED BY <1>0, <1>2, <1>3, QuietCovered

\* No entry vanishes: when all is quiet, every file of the archive, and of an archive in
\* it, has a child job or a row that says it failed.  No call has thrown, and one consumer
\* has died or one message has come twice at most.  Two accidents may lose a file that
\* cannot be extracted, because its archive is deleted: the second delivery marks it as
\* failed, the first sets it back to "processing" and dies.
THEOREM EntriesAreNotLost == Spec => [](accidents <= 1 => NoEntryLost)
<1>1. Init => CoverInv
  BY TypeInit, CompletedInit, OwnedInit, CoverInit DEF CoverInv, CompletedInv
<1>2. CoverInv => (accidents <= 1 => NoEntryLost)
  BY CoverSuffices
<1> QED BY <1>1, <1>2, CoverStep, PTL DEF Spec
=============================================================================
