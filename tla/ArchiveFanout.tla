--------------------------- MODULE ArchiveFanout ---------------------------
(***************************************************************************)
(* One RAR archive: ingest extracts it and fans it out, the archive-entry   *)
(* consumer extracts its large entries one message at a time, job-service   *)
(* makes a child job of every entry discovered and closes the parent.       *)
(*                                                                          *)
(* RarExtractor.extract goes through the files of an archive: a large one   *)
(* gets a row in pending_archive_entries and a message, a small one is      *)
(* extracted on the spot.  Ingest runs it on the source, a consumer on an   *)
(* entry that is an archive itself; "todo" and "sending" are its progress,  *)
(* by who runs it.  What it returns ("out") is then dispatched: a small     *)
(* entry is published, a large one gets a row once more.                    *)
(*                                                                          *)
(* A row's id is its place in "rows": every createPendingArchiveEntry makes *)
(* up a new one.  Transitions of the parent are one step (see Pipeline).    *)
(***************************************************************************)
EXTENDS JobStatus, Integers, Sequences, FiniteSets

CONSTANTS Entries,       \* files of the archive, and of the archives in it
          Large,         \* those above LARGE_FILE_THRESHOLD_BYTES
          Inside,        \* what a large entry contains, if it is an archive
          Sources,       \* which entries the archive itself may have
          Consumers,     \* concurrently handled entry messages
          Ingest,        \* the process that runs handleArchive
          MaxFaults      \* bound: calls that throw, deaths, second deliveries

Archives == {e \in Large : Inside[e] # {}}
Closings == {COMPLETED, FAILED}

ASSUME ArchiveAssumption ==
  /\ Large \subseteq Entries
  /\ Entries \intersect Closings = {}
  /\ Inside \in [Large -> SUBSET Entries]
  /\ Sources \subseteq SUBSET Entries
  /\ Ingest \notin Consumers
  /\ MaxFaults \in Nat

\* An entry is one file of one archive.
ASSUME ContainerAssumption ==
  /\ \A x, y \in Archives : x # y => Inside[x] \intersect Inside[y] = {}
  /\ \A s \in Sources, x \in Archives : s \intersect Inside[x] = {}

Agents == Consumers \union {Ingest}

VARIABLES
  source,     \* the entries of the archive
  parent,     \* the archive's own status in parse_jobs
  rows,       \* pending_archive_entries
  queue,      \* ids of the entry messages that wait
  events,     \* copies of each event that wait for job-service
  children,   \* child jobs made of each entry
  deleted,    \* archives inside the archive whose object is deleted
  ingest,     \* where handleArchive is
  todo, sending, out, fan,
  hasPending, \* a large entry was dispatched
  pc,         \* where each consumer is
  held,       \* the row of its message
  leased,     \* does the queue still hold the message for it?
  verdict,    \* the status it publishes for the parent
  failures,   \* calls of this archive's handlers that threw, or were cut off
  accidents   \* deaths of consumers, second deliveries

jobVars      == <<source, parent, children>>
extractVars  == <<todo, sending, out, fan>>
ingestVars   == <<ingest, hasPending>>
consumerVars == <<pc, held, leased, verdict>>
bounds       == <<failures, accidents>>
vars == <<jobVars, rows, queue, events, deleted, extractVars, ingestVars,
          consumerVars, bounds>>

Init ==
  /\ source \in Sources
  /\ parent = INGESTING
  /\ rows = <<>>
  /\ queue = {}
  /\ events = [x \in Entries \union Closings |-> 0]
  /\ children = [e \in Entries |-> 0]
  /\ deleted = {}
  /\ ingest = "extract"
  /\ todo = [a \in Agents |-> IF a = Ingest THEN source ELSE {}]
  /\ sending = [a \in Agents |-> 0]
  /\ out = [a \in Agents |-> {}]
  /\ fan = [a \in Agents |-> {}]
  /\ hasPending = FALSE
  /\ pc = [w \in Consumers |-> "idle"]
  /\ held = [w \in Consumers |-> 0]
  /\ leased = [w \in Consumers |-> FALSE]
  /\ verdict = [w \in Consumers |-> COMPLETED]
  /\ failures = 0 /\ accidents = 0

MayFail == failures + accidents < MaxFaults
Throws == MayFail /\ failures' = failures + 1 /\ UNCHANGED accidents
Accident == MayFail /\ accidents' = accidents + 1 /\ UNCHANGED failures
Goes == UNCHANGED bounds

Publish(x) == events' = [events EXCEPT ![x] = @ + 1]
CreatePendingEntry(e) == rows' = Append(rows, [entry |-> e, status |-> "pending"])
MarkStatus(id, s) == rows' = [rows EXCEPT ![id].status = s]
-----------------------------------------------------------------------------
(* RarExtractor.extract, file by file.                                      *)
Turn(a, e) == e \in todo[a] /\ sending[a] = 0
Past(a, e) == todo' = [todo EXCEPT ![a] = @ \ {e}]
Returns(a, e) == out' = [out EXCEPT ![a] = @ \union {e}]
ExtractRest == UNCHANGED <<jobVars, deleted, fan, ingestVars, consumerVars>>

\* routeRarFileToAsync: the row, then the message.
RegisterEntry(a, e) ==
  /\ Turn(a, e) /\ e \in Large
  /\ CreatePendingEntry(e)
  /\ sending' = [sending EXCEPT ![a] = Len(rows) + 1]
  /\ Past(a, e)
  /\ Goes /\ ExtractRest /\ UNCHANGED <<queue, events, out>>

RegisterFails(a, e) ==
  /\ Turn(a, e) /\ e \in Large
  /\ Past(a, e)
  /\ Returns(a, e)
  /\ Throws /\ ExtractRest /\ UNCHANGED <<rows, queue, events, sending>>

EntrySent(a) ==
  /\ sending[a] # 0
  /\ sending' = [sending EXCEPT ![a] = 0]
  /\ Returns(a, rows[sending[a]].entry)
  /\ ExtractRest /\ UNCHANGED <<rows, events, todo>>

SendEntry(a) == EntrySent(a) /\ queue' = queue \union {sending[a]} /\ Goes
SendEntryFails(a) == EntrySent(a) /\ Throws /\ UNCHANGED queue

\* extractRarFileInline; a file that cannot be extracted is left out.
ExtractInline(a, e) ==
  /\ Turn(a, e) /\ e \notin Large
  /\ Past(a, e)
  /\ \/ Returns(a, e) /\ Goes
     \/ Throws /\ UNCHANGED out
  /\ ExtractRest /\ UNCHANGED <<rows, queue, events, sending>>

Extracted(a) == todo[a] = {} /\ sending[a] = 0
NothingYet(a, files) == todo[a] = files /\ sending[a] = 0 /\ out[a] = {}

\* entry.pending
PendingIgnored(e) == FALSE
IsPending(e) == e \in Large

\* What extract returned, entry by entry: processArchiveEntry of ingest and the
\* Promise.all of handleNestedArchive.
Dispatch(a, e) ==
  /\ e \in fan[a]
  /\ fan' = [fan EXCEPT ![a] = @ \ {e}]
  /\ IF IsPending(e)
     THEN /\ CreatePendingEntry(e)
          /\ hasPending' = (hasPending \/ a = Ingest)
          /\ UNCHANGED events
     ELSE Publish(e) /\ UNCHANGED <<rows, hasPending>>
  /\ Goes
  /\ UNCHANGED <<jobVars, queue, deleted, todo, sending, out, ingest, consumerVars>>

\* The first rejection ends the wait of a consumer, the other calls run on.
DispatchFails(a, e) ==
  /\ e \in fan[a]
  /\ fan' = [fan EXCEPT ![a] = @ \ {e}]
  /\ pc' = IF a # Ingest /\ pc[a] = "fan" THEN [pc EXCEPT ![a] = "publish"] ELSE pc
  /\ Throws
  /\ UNCHANGED <<jobVars, rows, queue, events, deleted, todo, sending, out,
                 ingestVars, held, leased, verdict>>
-----------------------------------------------------------------------------
(* handleArchive of ingest.                                                 *)
IngestGoes(step) ==
  /\ ingest' = step
  /\ UNCHANGED <<jobVars, rows, queue, deleted, sending, hasPending, consumerVars>>

FanOut ==
  /\ ingest = "extract"
  /\ Extracted(Ingest)
  /\ fan' = [fan EXCEPT ![Ingest] = out[Ingest]]
  /\ IngestGoes(IF out[Ingest] = {} THEN "failing" ELSE "fanout")
  /\ Goes /\ UNCHANGED <<events, todo, out>>

\* The archive cannot be downloaded or listed.
ListFails ==
  /\ ingest = "extract"
  /\ NothingYet(Ingest, source)
  /\ todo' = [todo EXCEPT ![Ingest] = {}]
  /\ IngestGoes("failing")
  /\ Throws /\ UNCHANGED <<events, out, fan>>

\* withTimeout gives up; extract runs on.
ExtractTimesOut ==
  /\ ingest = "extract"
  /\ IngestGoes("failing")
  /\ Throws /\ UNCHANGED <<events, todo, out, fan>>

\* A parent with large entries is left to the consumers.
IngestDone ==
  /\ ingest = "fanout"
  /\ fan[Ingest] = {}
  /\ IF hasPending THEN UNCHANGED events ELSE Publish(COMPLETED)
  /\ IngestGoes("done")
  /\ Goes /\ UNCHANGED <<todo, out, fan>>

IngestDoneFails ==
  /\ ingest = "fanout"
  /\ fan[Ingest] = {} /\ ~hasPending
  /\ IngestGoes("failing")
  /\ Throws /\ UNCHANGED <<events, todo, out, fan>>

\* handleArchiveError, and handleIngestError when that throws.
IngestFails ==
  /\ ingest \in {"failing", "failing again"}
  /\ \/ Publish(FAILED) /\ IngestGoes("done") /\ Goes
     \/ IngestGoes(IF ingest = "failing" THEN "failing again" ELSE "done")
        /\ Throws /\ UNCHANGED events
  /\ UNCHANGED <<todo, out, fan>>

\* Its message comes back, and the claim then refuses a job that is INGESTING.
IngestDies ==
  /\ ingest # "done"
  /\ ingest' = "done"
  /\ todo' = [todo EXCEPT ![Ingest] = {}]
  /\ sending' = [sending EXCEPT ![Ingest] = 0]
  /\ fan' = [fan EXCEPT ![Ingest] = {}]
  /\ Throws
  /\ UNCHANGED <<jobVars, rows, queue, events, deleted, out, hasPending, consumerVars>>
-----------------------------------------------------------------------------
(* processEntry of the archive-entry consumer.                              *)
Entry(w) == rows[held[w]].entry
ConsumerAt(w, step) == pc[w] = step
Goto(w, step) == pc' = [pc EXCEPT ![w] = step]
ConsumerRest == UNCHANGED <<jobVars, ingestVars, held, leased>>

Take(w, id) ==
  /\ ConsumerAt(w, "idle")
  /\ id \in queue
  /\ queue' = queue \ {id}
  /\ held' = [held EXCEPT ![w] = id]
  /\ leased' = [leased EXCEPT ![w] = TRUE]
  /\ Goto(w, "mark")
  /\ Goes
  /\ UNCHANGED <<jobVars, rows, events, deleted, extractVars, ingestVars, verdict>>

\* The message stays on the queue unless another delivery of it is under way.
GiveNothingBack(w) == UNCHANGED queue
GiveBack(w) == queue' = IF leased[w] THEN queue \union {held[w]} ELSE queue

Leave(w) ==
  /\ GiveBack(w)
  /\ leased' = [leased EXCEPT ![w] = FALSE]
  /\ held' = [held EXCEPT ![w] = 0]
  /\ Goto(w, "idle")
  /\ UNCHANGED <<jobVars, rows, events, deleted, ingestVars, verdict>>

MarkProcessing(w) ==
  /\ ConsumerAt(w, "mark")
  /\ \/ /\ MarkStatus(held[w], "processing")
        /\ Goto(w, "extract")
        /\ Goes /\ ConsumerRest /\ UNCHANGED <<queue, events, deleted, verdict>>
     \/ Leave(w) /\ Throws
  /\ UNCHANGED extractVars

\* The object the message names is there: no archive around it was deleted.
Reachable(e) == \A d \in deleted : e \notin Inside[d]

Extract(w) ==
  /\ ConsumerAt(w, "extract")
  /\ Reachable(Entry(w))
  /\ IF Entry(w) \in Archives
     THEN /\ todo' = [todo EXCEPT ![w] = Inside[Entry(w)]]
          /\ out' = [out EXCEPT ![w] = {}]
          /\ Goto(w, "nested")
     ELSE Goto(w, "publish") /\ UNCHANGED <<todo, out>>
  /\ Goes /\ ConsumerRest
  /\ UNCHANGED <<rows, queue, events, deleted, sending, fan, verdict>>

ExtractFails(w) ==
  /\ ConsumerAt(w, "extract")
  /\ Goto(w, "fail")
  /\ IF Reachable(Entry(w)) THEN Throws ELSE Goes
  /\ ConsumerRest
  /\ UNCHANGED <<rows, queue, events, deleted, extractVars, verdict>>

\* handleNestedArchive: extract, delete the archive, dispatch.
NestedExtracted(w) ==
  /\ ConsumerAt(w, "nested")
  /\ Extracted(w)
  /\ fan' = [fan EXCEPT ![w] = @ \union out[w]]
  /\ \/ deleted' = deleted \union {Entry(w)} /\ Goes
     \/ Throws /\ UNCHANGED deleted
  /\ Goto(w, "fan")
  /\ ConsumerRest /\ UNCHANGED <<rows, queue, events, todo, sending, out, verdict>>

\* Its header cannot be read, or it cannot be listed: it is taken for a file.
NestedFails(w) ==
  /\ ConsumerAt(w, "nested")
  /\ NothingYet(w, Inside[Entry(w)])
  /\ todo' = [todo EXCEPT ![w] = {}]
  /\ Goto(w, "publish")
  /\ Throws /\ ConsumerRest
  /\ UNCHANGED <<rows, queue, events, deleted, sending, out, fan, verdict>>

NestedDispatched(w) ==
  /\ ConsumerAt(w, "fan")
  /\ fan[w] = {}
  /\ Goto(w, "complete")
  /\ Goes /\ ConsumerRest
  /\ UNCHANGED <<rows, queue, events, deleted, extractVars, verdict>>

PublishSwallowed(w) ==
  /\ ConsumerAt(w, "publish")
  /\ Goto(w, "complete")
  /\ \/ Publish(Entry(w)) /\ Goes
     \/ Throws /\ UNCHANGED events
  /\ ConsumerRest /\ UNCHANGED <<rows, queue, deleted, extractVars, verdict>>

PublishDiscoveredEntry(w) ==
  /\ ConsumerAt(w, "publish")
  /\ \/ Publish(Entry(w)) /\ Goto(w, "complete") /\ Goes
     \/ Goto(w, "fail") /\ Throws /\ UNCHANGED events
  /\ ConsumerRest /\ UNCHANGED <<rows, queue, deleted, extractVars, verdict>>

\* markPendingEntryCompleted and markPendingEntryFailed.
MarkCompleted(w) ==
  /\ ConsumerAt(w, "complete")
  /\ \/ MarkStatus(held[w], "completed") /\ Goto(w, "count") /\ Goes
     \/ Goto(w, "fail") /\ Throws /\ UNCHANGED rows
  /\ ConsumerRest /\ UNCHANGED <<queue, events, deleted, extractVars, verdict>>

FailureRethrown(w) == ConsumerAt(w, "fail") /\ Leave(w) /\ Goes /\ UNCHANGED extractVars
MarkFailed(w) ==
  /\ ConsumerAt(w, "fail")
  /\ \/ /\ MarkStatus(held[w], "failed")
        /\ Goto(w, "count failed")
        /\ Goes /\ ConsumerRest /\ UNCHANGED <<queue, events, deleted, verdict>>
     \/ Leave(w) /\ Throws
  /\ UNCHANGED extractVars

RowsAre(s) == \E id \in DOMAIN rows : rows[id].status = s

\* attemptParentCompletion: count, then publish.  When it throws, an entry that
\* is completed already is marked failed, and a failed one is left on the queue.
Count(w) ==
  /\ \/ ConsumerAt(w, "count") \/ ConsumerAt(w, "count failed")
  /\ IF RowsAre("pending") THEN Goto(w, "delete") /\ UNCHANGED verdict
     ELSE /\ verdict' = [verdict EXCEPT ![w] = IF RowsAre("failed") THEN FAILED ELSE COMPLETED]
          /\ Goto(w, IF pc[w] = "count" THEN "close" ELSE "close failed")
  /\ Goes /\ ConsumerRest /\ UNCHANGED <<rows, queue, events, deleted, extractVars>>

Close(w) ==
  /\ \/ ConsumerAt(w, "close") \/ ConsumerAt(w, "close failed")
  /\ Publish(verdict[w])
  /\ Goto(w, "delete")
  /\ Goes /\ ConsumerRest /\ UNCHANGED <<rows, queue, deleted, extractVars, verdict>>

CompletionThrows(w) ==
  /\ Throws
  /\ \/ /\ pc[w] \in {"count", "close"}
        /\ Goto(w, "fail")
        /\ ConsumerRest /\ UNCHANGED <<rows, queue, events, deleted, verdict>>
     \/ pc[w] \in {"count failed", "close failed"} /\ Leave(w)
  /\ UNCHANGED extractVars

DeleteMessage(w) ==
  /\ ConsumerAt(w, "delete")
  /\ \/ /\ leased' = [leased EXCEPT ![w] = FALSE]
        /\ held' = [held EXCEPT ![w] = 0]
        /\ Goto(w, "idle")
        /\ Goes
        /\ UNCHANGED <<jobVars, rows, queue, events, deleted, ingestVars, verdict>>
     \/ Leave(w) /\ Throws
  /\ UNCHANGED extractVars

ConsumerDies(w) ==
  /\ ~ConsumerAt(w, "idle")
  /\ Leave(w)
  /\ todo' = [todo EXCEPT ![w] = {}]
  /\ sending' = [sending EXCEPT ![w] = 0]
  /\ fan' = [fan EXCEPT ![w] = {}]
  /\ Accident /\ UNCHANGED out

LoseLease(w) ==
  /\ leased[w]
  /\ leased' = [leased EXCEPT ![w] = FALSE]
  /\ queue' = queue \union {held[w]}
  /\ Accident
  /\ UNCHANGED <<jobVars, rows, events, deleted, extractVars, ingestVars, pc, held, verdict>>
-----------------------------------------------------------------------------
(* job-service.                                                             *)
Consume(x) == events[x] > 0 /\ events' = [events EXCEPT ![x] = @ - 1] /\ Goes
Repeat(x) == events[x] > 0 /\ Accident /\ UNCHANGED events

CreateChildJob(e) ==
  /\ Consume(e) \/ Repeat(e)
  /\ children' = [children EXCEPT ![e] = @ + 1]
  /\ UNCHANGED <<source, parent, rows, queue, deleted, extractVars, ingestVars, consumerVars>>

OnStatusChanged(s) ==
  /\ Consume(s) \/ Repeat(s)
  /\ parent' = IF s \in ValidTransitions[parent] /\ ~IsTerminal(parent) THEN s ELSE parent
  /\ UNCHANGED <<source, children, rows, queue, deleted, extractVars, ingestVars, consumerVars>>
-----------------------------------------------------------------------------
ExtractStep(a) ==
  \/ \E e \in Entries : RegisterEntry(a, e) \/ ExtractInline(a, e) \/ Dispatch(a, e)
  \/ SendEntry(a)

IngestStep == FanOut \/ IngestDone \/ IngestFails

ConsumerStep(w) ==
  \/ MarkProcessing(w) \/ Extract(w) \/ ExtractFails(w)
  \/ NestedExtracted(w) \/ NestedDispatched(w) \/ PublishDiscoveredEntry(w)
  \/ MarkCompleted(w) \/ MarkFailed(w) \/ Count(w) \/ Close(w) \/ DeleteMessage(w)

Faults ==
  \/ \E a \in Agents : \/ SendEntryFails(a)
                       \/ \E e \in Entries : RegisterFails(a, e) \/ DispatchFails(a, e)
  \/ ListFails \/ ExtractTimesOut \/ IngestDoneFails \/ IngestDies
  \/ \E w \in Consumers :
       NestedFails(w) \/ CompletionThrows(w) \/ ConsumerDies(w) \/ LoseLease(w)

Next ==
  \/ \E a \in Agents : ExtractStep(a)
  \/ IngestStep
  \/ \E w \in Consumers : ConsumerStep(w) \/ \E id \in queue : Take(w, id)
  \/ \E e \in Entries : CreateChildJob(e)
  \/ \E s \in Closings : OnStatusChanged(s)
  \/ Faults

Spec == Init /\ [][Next]_vars

\* Every handler that runs goes on, and messages are delivered in the end.
Fairness ==
  /\ \A a \in Agents : WF_vars(ExtractStep(a))
  /\ WF_vars(IngestStep)
  /\ \A w \in Consumers : WF_vars(ConsumerStep(w))
  /\ WF_vars(\E w \in Consumers, id \in queue : Take(w, id))
  /\ \A e \in Entries : WF_vars(CreateChildJob(e))
  /\ \A s \in Closings : WF_vars(OnStatusChanged(s))

FairSpec == Spec /\ Fairness
-----------------------------------------------------------------------------
Ids == DOMAIN rows
PcValues ==
  {"idle", "mark", "extract", "nested", "fan", "publish", "complete", "fail", "count",
   "close", "count failed", "close failed", "delete"}

\* Every variable keeps its type; messages and consumers refer to rows that exist.
TypeOK ==
  /\ source \in Sources
  /\ parent \in {INGESTING, COMPLETED, FAILED}
  /\ rows \in Seq([entry : Large, status : {"pending", "processing", "completed", "failed"}])
  /\ queue \subseteq Ids
  /\ events \in [Entries \union Closings -> Nat]
  /\ children \in [Entries -> Nat]
  /\ deleted \subseteq Archives
  /\ ingest \in {"extract", "fanout", "failing", "failing again", "done"}
  /\ todo \in [Agents -> SUBSET Entries] /\ out \in [Agents -> SUBSET Entries]
  /\ fan \in [Agents -> SUBSET Entries]
  /\ sending \in [Agents -> {0} \union Ids]
  /\ hasPending \in BOOLEAN
  /\ pc \in [Consumers -> PcValues]
  /\ held \in [Consumers -> {0} \union Ids]
  /\ leased \in [Consumers -> BOOLEAN]
  /\ verdict \in [Consumers -> Closings]
  /\ \A w \in Consumers : pc[w] = "idle" <=> held[w] = 0
  /\ failures \in Nat /\ accidents \in Nat /\ failures + accidents <= MaxFaults

Discovered(e) == events[e] > 0 \/ children[e] > 0

\* A row says "completed" only when job-service knows of the entry: the event is
\* published before the row is marked, however often the message is delivered.
CompletedEntriesDiscovered ==
  \A id \in Ids :
    rows[id].status = "completed" /\ rows[id].entry \notin Archives =>
      Discovered(rows[id].entry)

Quiet ==
  /\ ingest = "done" /\ queue = {}
  /\ \A a \in Agents : Extracted(a) /\ fan[a] = {}
  /\ \A w \in Consumers : pc[w] = "idle"
  /\ \A x \in DOMAIN events : events[x] = 0

\* No entry vanishes: when all is quiet, every file of the archive, however deep, has
\* a child job or a row that says it failed.  A consumer may have died or a message may
\* have come twice, but no call has thrown: a publication that throws in the fan-out is
\* only logged.
NoEntryLost ==
  Quiet /\ failures = 0 =>
    \A e \in (source \union UNION {Inside[a] : a \in source \intersect Archives}) \ Archives :
      children[e] > 0 \/ \E id \in Ids : rows[id] = [entry |-> e, status |-> "failed"]

\* Without a fault an entry becomes one job, never two, although ingest and the
\* consumers work on the same rows and messages at once.
OneJobPerEntry ==
  failures = 0 /\ accidents = 0 => \A e \in Entries : children[e] + events[e] <= 1

\* An entry that is "processing" is not abandoned: its message waits or is handled.
ProcessingIsOwned ==
  \A id \in Ids :
    rows[id].status = "processing" => id \in queue \/ \E w \in Consumers : held[w] = id

\* Every message is worked off: the archive comes to rest.
ComesToRest == <>[]Quiet
=============================================================================
