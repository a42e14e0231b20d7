------------------------------ MODULE Pipeline ------------------------------
(***************************************************************************)
(* The life of parse jobs: the parse_jobs rows, the queues of QueueService *)
(* and every handler that moves a job from one stage to the next: the REST *)
(* operations and the event consumer of job-service, ingest,               *)
(* detect-bootstrap, stream-parser, load and report.                       *)
(*                                                                         *)
(* A worker is one running handler: a message (or a REST call) and the     *)
(* point it has reached.  Handlers run concurrently and every await of     *)
(* theirs on the row or on a queue is a step of its own, so any handlers   *)
(* interleave there.  Two subroutines are shared by all of them and are    *)
(* driven by a table each: StateMachine.transition (TransitionCalls: read  *)
(* the row, check the table, compare-and-set) and sending a message        *)
(* (SendCalls).                                                            *)
(***************************************************************************)
EXTENDS JobStatus, Naturals

CONSTANTS
  Jobs,                 \* job ids; together they are one batch
  Workers,              \* concurrently running handlers, of whatever service
  FileKinds,            \* what a source may contain, see AllFileKinds
  RetryTargets,         \* stages the user may ask a retry from
  Redeliverable,        \* kinds of message the queue may deliver again
  MaxRedeliveries,      \* bound: leases lost while the handler still runs
  MaxCrashes,           \* bound: handlers killed half way
  MaxSendFailures,      \* bound: sends that fail after withRetry gave up
  MaxRetries,           \* bound: retry and release-hold calls
  MaxForceFails,        \* bound: force-fail calls
  MaxPasswords,         \* bound: passwords the user submits
  MaxTogether,          \* bound: all of the above together
  MaxPasswordAttempts   \* settings.ARCHIVE_PASSWORD_MAX_ATTEMPTS

\* "rows": lines parse, few fail; "dirty": lines parse, more than
\* FAILED_LINE_RATIO_THRESHOLD of them fail; "empty": no line parses;
\* "archive": a container (or a prefix) whose entries become jobs of their own;
\* "large": one that also has an entry left to archive_entry_consumer.
Archives     == {"archive", "large"}
AllFileKinds == {"rows", "dirty", "empty"} \cup Archives

ASSUME FileKindsAssumption == FileKinds \subseteq AllFileKinds

ASSUME BoundsAssumption ==
  /\ MaxRedeliveries \in Nat
  /\ MaxCrashes \in Nat
  /\ MaxSendFailures \in Nat
  /\ MaxRetries \in Nat
  /\ MaxForceFails \in Nat
  /\ MaxPasswords \in Nat
  /\ MaxTogether \in Nat
  /\ MaxPasswordAttempts \in Nat

\* The targets retryJob knows; RetryQueue is the queue it sends to.
RetryQueue ==
  [ t \in {INGESTING, DETECTING, PARSING, SAVING_TO_DATABASE, REPORTING} |->
      CASE t = INGESTING          -> "ingest"
        [] t = DETECTING          -> "classify"
        [] t = PARSING            -> "parse"
        [] t = SAVING_TO_DATABASE -> "load"
        [] t = REPORTING          -> "report" ]

ASSUME RetryTargetsAssumption == RetryTargets \subseteq DOMAIN RetryQueue
-----------------------------------------------------------------------------
(***************************************************************************)
(* Messages.  "arg" is the part of a payload some handler depends on:      *)
(* whether a load message has output_paths, whether a report message has   *)
(* counts, the new_status of a JOB_STATUS_CHANGED event.                   *)
(***************************************************************************)
BareKinds ==
  { "ingest", "provide_password", "classify", "parse", "parsing_completed",
    "loading_completed", "reporting_completed", "error_occurred" }

Message ==
  [kind : BareKinds, job : Jobs, arg : {"none"}]
    \cup [kind : {"load"}, job : Jobs, arg : {"paths", "none"}]
    \cup [kind : {"report"}, job : Jobs, arg : {"counts", "none"}]
    \cup [kind : {"job_status_changed"}, job : Jobs,
          arg : {NEEDS_PASSWORD, COMPLETED, FAILED}]

MessageKinds == BareKinds \cup {"load", "report", "job_status_changed"}

ASSUME RedeliverableAssumption == Redeliverable \subseteq MessageKinds

\* REST calls of job-service, and the ENTRY_DISCOVERED event that creates a
\* child job.  They are not redelivered.
Call ==
  [kind : {"create", "child", "release"}, job : Jobs, arg : {"none"}]
    \cup [kind : {"retry"}, job : Jobs, arg : DOMAIN RetryQueue]

NoMessage == [kind |-> "idle"]

Budgets == {"redelivery", "crash", "send_failure", "retry", "force_fail", "password"}

VARIABLES
  status,        \* parse_jobs.status
  file,          \* what the job's source contains
  output_paths,  \* parse_jobs.output_paths # []
  headers,       \* parse_jobs.headers # []
  attempts,      \* passwordState.attempts
  loads,         \* bulk loads of the job's merged parts into parsed_records
  reported,      \* reports/<job>/report.json is written
  rollup,        \* reports/batches/<batch>/rollup.json is written
  queue,         \* queue[m]: copies of m waiting for delivery
  pc,            \* where each worker is
  msg,           \* what each worker handles
  seen,          \* status read by the transition a worker is in
  leased,        \* does the queue still hold the worker's message for it?
  spent          \* how much of each bound is used

rowVars    == <<status, output_paths, headers, attempts>>
effectVars == <<loads, reported, rollup>>
workerVars == <<pc, msg, seen, leased>>
vars == <<rowVars, file, effectVars, queue, workerVars, spent>>
-----------------------------------------------------------------------------
(***************************************************************************)
(* StateMachine.transition, by call site: the status asked for ("arg" for  *)
(* a status that comes with the message) and where the handler goes on     *)
(* when it won the compare-and-set, when it lost the race (null), and when *)
(* transition threw because the table has no such edge.                    *)
(***************************************************************************)
TransitionCall(to, won, lost, threw) ==
  [to |-> to, won |-> won, lost |-> lost, threw |-> threw]

TransitionCalls ==
  [ apply_status |-> TransitionCall("arg", "ack", "ack", "nack"),
    apply_error  |-> TransitionCall(FAILED, "ack", "ack", "nack"),
    to_merging   |-> TransitionCall(MERGING_OUTPUT, "finalize", "ack", "nack"),
    fin_failed   |-> TransitionCall(FAILED, "ack", "ack", "fin_catch"),
    to_hold      |-> TransitionCall(ON_HOLD, "ack", "ack", "fin_catch"),
    to_saving    |-> TransitionCall(SAVING_TO_DATABASE, "send_load", "send_load", "fin_catch"),
    fin_catch    |-> TransitionCall(FAILED, "ack", "ack", "nack"),
    to_reporting |-> TransitionCall(REPORTING, "send_report", "ack", "nack"),
    to_completed |-> TransitionCall(COMPLETED, "ack", "ack", "nack"),
    to_detecting |-> TransitionCall(DETECTING, "probe", "probe", "detect_fail"),
    to_parsing   |-> TransitionCall(PARSING, "send_parse", "send_parse", "detect_fail"),
    detect_fail  |-> TransitionCall(FAILED, "emit_detect_error", "emit_detect_error", "emit_detect_error"),
    retry        |-> TransitionCall("arg", "send_retry", "send_retry", "ack"),
    release      |-> TransitionCall(SAVING_TO_DATABASE, "send_release", "send_release", "ack") ]

(***************************************************************************)
(* Sends, by call site: the message, where the handler goes on when the    *)
(* send succeeded, and where it may go on when the send threw.  A message  *)
(* whose handler throws stays on its queue ("nack"): the pool of a pull    *)
(* service does not delete it, the server of a push service answers 500.   *)
(* ingest catches what its handlers throw: pulling it leaves the message   *)
(* undeleted, pushed it answers 200, which acknowledges it.                *)
(***************************************************************************)
SendCall(kind, arg, sent, failed) ==
  [kind |-> kind, arg |-> arg, sent |-> sent, failed |-> failed]

SendCalls ==
  [ send_created        |-> SendCall("ingest", "none", "ack", {"ack"}),
    send_child          |-> SendCall("classify", "none", "ack", {"nack"}),
    send_classify       |-> SendCall("classify", "none", "ack", {"emit_ingest_failed"}),
    emit_archive_done   |-> SendCall("job_status_changed", COMPLETED, "ack", {"emit_archive_failed"}),
    emit_archive_failed |-> SendCall("job_status_changed", FAILED, "ack", {"emit_ingest_failed"}),
    emit_ingest_failed  |-> SendCall("job_status_changed", FAILED, "ack", {"ack", "nack"}),
    emit_needs_password |-> SendCall("job_status_changed", NEEDS_PASSWORD, "ack", {"ack", "nack"}),
    send_again          |-> SendCall("ingest", "none", "ack", {"ack", "nack"}),
    send_parse          |-> SendCall("parse", "none", "ack", {"detect_fail"}),
    emit_detect_error   |-> SendCall("error_occurred", "none", "ack", {"nack"}),
    emit_parsed         |-> SendCall("parsing_completed", "none", "ack", {"emit_parse_error"}),
    emit_gate_failed    |-> SendCall("job_status_changed", FAILED, "ack", {"emit_parse_error"}),
    emit_parse_error    |-> SendCall("error_occurred", "none", "emit_parse_failed", {"emit_parse_rethrow"}),
    emit_parse_failed   |-> SendCall("job_status_changed", FAILED, "ack", {"nack"}),
    emit_parse_rethrow  |-> SendCall("job_status_changed", FAILED, "nack", {"nack"}),
    send_load           |-> SendCall("load", "output_paths", "ack", {"fin_catch"}),
    emit_loaded         |-> SendCall("loading_completed", "none", "ack", {"emit_load_error"}),
    emit_load_error     |-> SendCall("error_occurred", "none", "ack", {"nack"}),
    send_report         |-> SendCall("report", "counts", "ack", {"nack"}),
    emit_reported       |-> SendCall("reporting_completed", "none", "ack", {"emit_report_error"}),
    emit_report_error   |-> SendCall("error_occurred", "none", "ack", {"nack"}),
    send_retry          |-> SendCall("retry", "none", "ack", {"ack"}),
    send_release        |-> SendCall("load", "none", "ack", {"ack"}) ]

\* Where the handler of a message starts.  (EntrySwapped mixes up two events.)
EntrySwapped ==
  [ ingest |-> "ingest_claim", provide_password |-> "send_again",
    classify |-> "to_detecting", parse |-> "parse", load |-> "load_rows",
    report |-> "report", job_status_changed |-> "read_status",
    error_occurred |-> "read_error", parsing_completed |-> "read_parsing",
    loading_completed |-> "read_reporting", reporting_completed |-> "read_loading" ]

Entry ==
  [ ingest              |-> "ingest_claim",
    provide_password    |-> "send_again",
    classify            |-> "to_detecting",
    parse               |-> "parse",
    load                |-> "load_rows",
    report              |-> "report",
    job_status_changed  |-> "read_status",
    error_occurred      |-> "read_error",
    parsing_completed   |-> "read_parsing",
    loading_completed   |-> "read_loading",
    reporting_completed |-> "read_reporting" ]

\* The steps a handler of each kind of message, or REST call, can be at.
StepsOf ==
  [ ingest              |-> {"ingest_claim", "ingest_resolve", "ask_password",
                             "send_classify", "emit_archive_done", "emit_archive_failed",
                             "emit_ingest_failed", "emit_needs_password", "ack", "nack"},
    provide_password    |-> {"send_again", "ack", "nack"},
    classify            |-> {"to_detecting", "probe", "to_parsing", "send_parse",
                             "detect_fail", "emit_detect_error", "ack", "nack"},
    parse               |-> {"parse", "emit_parsed", "emit_gate_failed", "emit_parse_error",
                             "emit_parse_failed", "emit_parse_rethrow", "ack", "nack"},
    load                |-> {"load_rows", "emit_loaded", "emit_load_error", "ack", "nack"},
    report              |-> {"report", "emit_reported", "emit_report_error", "ack", "nack"},
    job_status_changed  |-> {"read_status", "apply_status", "ack", "nack"},
    error_occurred      |-> {"read_error", "apply_error", "ack", "nack"},
    parsing_completed   |-> {"read_parsing", "to_merging", "finalize", "save_paths",
                             "fin_failed", "to_hold", "to_saving", "fin_catch",
                             "send_load", "ack", "nack"},
    loading_completed   |-> {"read_loading", "to_reporting", "send_report", "ack", "nack"},
    reporting_completed |-> {"read_reporting", "to_completed", "ack", "nack"},
    create              |-> {"send_created", "ack"},
    child               |-> {"send_child", "ack", "nack"},
    retry               |-> {"retry", "send_retry", "ack"},
    release             |-> {"release", "send_release", "ack"},
    idle                |-> {"idle"} ]

Steps == UNION {StepsOf[k] : k \in DOMAIN StepsOf}
-----------------------------------------------------------------------------
DataOK ==
  /\ status \in [Jobs -> ColumnValues]
  /\ file \in [Jobs -> AllFileKinds]
  /\ output_paths \in [Jobs -> BOOLEAN]
  /\ headers \in [Jobs -> BOOLEAN]
  /\ attempts \in [Jobs -> Nat]
  /\ loads \in [Jobs -> Nat]
  /\ reported \in [Jobs -> BOOLEAN]
  /\ rollup \in BOOLEAN
  /\ queue \in [Message -> Nat]
  /\ seen \in [Workers -> ColumnValues]
  /\ leased \in [Workers -> BOOLEAN]
  /\ spent \in [Budgets -> Nat]

WorkersOK ==
  /\ msg \in [Workers -> Message \cup Call \cup {NoMessage}]
  /\ pc \in [Workers -> Steps]
  /\ \A w \in Workers : pc[w] \in StepsOf[msg[w].kind]

\* Types; and a handler is only ever at a step of the message it handles.
TypeOK == DataOK /\ WorkersOK

Init ==
  /\ status = [j \in Jobs |-> NoRow]
  /\ file \in [Jobs -> FileKinds]
  /\ output_paths = [j \in Jobs |-> FALSE]
  /\ headers = [j \in Jobs |-> FALSE]
  /\ attempts = [j \in Jobs |-> 0]
  /\ loads = [j \in Jobs |-> 0]
  /\ reported = [j \in Jobs |-> FALSE]
  /\ rollup = FALSE
  /\ queue = [m \in Message |-> 0]
  /\ msg = [w \in Workers |-> NoMessage]
  /\ pc = [w \in Workers |-> "idle"]
  /\ seen = [w \in Workers |-> NoRow]
  /\ leased = [w \in Workers |-> FALSE]
  /\ spent = [b \in Budgets |-> 0]
-----------------------------------------------------------------------------
Idle(w) == pc[w] = "idle"
Job(w) == msg[w].job

Goto(w, step) == pc' = [pc EXCEPT ![w] = step]

Start(w, m, step, held) ==
  /\ Idle(w)
  /\ msg' = [msg EXCEPT ![w] = m]
  /\ leased' = [leased EXCEPT ![w] = held]
  /\ Goto(w, step)

Finish(w) ==
  /\ msg' = [msg EXCEPT ![w] = NoMessage]
  /\ leased' = [leased EXCEPT ![w] = FALSE]
  /\ seen' = [seen EXCEPT ![w] = NoRow]
  /\ Goto(w, "idle")

Together ==
  spent["redelivery"] + spent["crash"] + spent["send_failure"]
    + spent["retry"] + spent["force_fail"] + spent["password"]

Spend(b, bound) ==
  /\ spent[b] < bound /\ Together < MaxTogether
  /\ spent' = [spent EXCEPT ![b] = @ + 1]

Put(m) == queue' = [queue EXCEPT ![m] = @ + 1]

-----------------------------------------------------------------------------
(***************************************************************************)
(* Delivery.  Queues are unordered and deliver at least once: a lease that *)
(* expires while its handler still runs puts a second copy of the message  *)
(* on the queue, and the handler's own delete then no longer removes it.   *)
(***************************************************************************)
Receive(w, m) ==
  /\ queue[m] > 0
  /\ queue' = [queue EXCEPT ![m] = @ - 1]
  /\ Start(w, m, Entry[m.kind], TRUE)
  /\ UNCHANGED <<rowVars, file, effectVars, seen, spent>>

Redeliver(w) ==
  /\ leased[w]
  /\ msg[w].kind \in Redeliverable
  /\ Spend("redelivery", MaxRedeliveries)
  /\ Put(msg[w])
  /\ leased' = [leased EXCEPT ![w] = FALSE]
  /\ UNCHANGED <<rowVars, file, effectVars, pc, msg, seen>>

Ack(w) ==
  /\ pc[w] = "ack"
  /\ Finish(w)
  /\ UNCHANGED <<rowVars, file, effectVars, queue, spent>>

GiveBack(w) == IF leased[w] THEN Put(msg[w]) ELSE UNCHANGED queue

Nack(w) ==
  /\ pc[w] = "nack"
  /\ GiveBack(w)
  /\ Finish(w)
  /\ UNCHANGED <<rowVars, file, effectVars, spent>>

\* The process dies: what the handler wrote and sent stays, its message returns.
Crash(w) ==
  /\ ~Idle(w)
  /\ Spend("crash", MaxCrashes)
  /\ GiveBack(w)
  /\ Finish(w)
  /\ UNCHANGED <<rowVars, file, effectVars>>
-----------------------------------------------------------------------------
(***************************************************************************)
(* StateMachine.transition in two steps: read the row and check the table, *)
(* then tryTransitionStatus, an UPDATE that names the status read.         *)
(***************************************************************************)
Asked(w) == TransitionCalls[pc[w]]

Target(w) == IF Asked(w).to = "arg" THEN msg[w].arg ELSE Asked(w).to

InTransition(w) == pc[w] \in DOMAIN TransitionCalls

\* VALID_TRANSITIONS[current]?.includes(newStatus)
AnyTarget(w) == TRUE
Allowed(w) == Target(w) \in ValidTransitions[status[Job(w)]]

TransitionRead(w) ==
  /\ InTransition(w)
  /\ seen[w] = NoRow
  /\ \/ /\ Allowed(w)
        /\ seen' = [seen EXCEPT ![w] = status[Job(w)]]
        /\ UNCHANGED pc
     \/ /\ ~Allowed(w)
        /\ Goto(w, Asked(w).threw)
        /\ UNCHANGED seen
  /\ UNCHANGED <<rowVars, file, effectVars, queue, msg, leased, spent>>

\* UPDATE ... WHERE status IN (the status read)
BlindUpdate(w) == TRUE
RowUnmoved(w) == status[Job(w)] = seen[w]

\* if (!updated) return; or what else the caller does with a lost race.
ResultIgnored(w, updated)  == Asked(w).won
Result(w, updated) == IF updated THEN Asked(w).won ELSE Asked(w).lost

TransitionCas(w) ==
  /\ InTransition(w)
  /\ seen[w] # NoRow
  /\ \/ /\ RowUnmoved(w)
        /\ status' = [status EXCEPT ![Job(w)] = Target(w)]
        /\ Goto(w, Result(w, TRUE))
     \/ /\ ~RowUnmoved(w)
        /\ Goto(w, Result(w, FALSE))
        /\ UNCHANGED status
  /\ seen' = [seen EXCEPT ![w] = NoRow]
  /\ UNCHANGED <<file, output_paths, headers, attempts, effectVars, queue,
                 msg, leased, spent>>
-----------------------------------------------------------------------------
\* queueService.sendRaw and publishEvent, which retry inside and then throw.
AtSend(w) == pc[w] \in DOMAIN SendCalls

Outgoing(w) ==
  LET call == SendCalls[pc[w]]
  IN  [ kind |-> IF call.kind = "retry" THEN RetryQueue[msg[w].arg] ELSE call.kind,
        job  |-> Job(w),
        arg  |-> IF call.arg # "output_paths" THEN call.arg
                 ELSE IF file[Job(w)] = "empty" THEN "none" ELSE "paths" ]

Send(w) ==
  /\ AtSend(w)
  /\ Put(Outgoing(w))
  /\ Goto(w, SendCalls[pc[w]].sent)
  /\ UNCHANGED <<rowVars, file, effectVars, msg, seen, leased, spent>>

SendFails(w) ==
  /\ AtSend(w)
  /\ Spend("send_failure", MaxSendFailures)
  /\ \E step \in SendCalls[pc[w]].failed : Goto(w, step)
  /\ UNCHANGED <<rowVars, file, effectVars, queue, msg, seen, leased>>
-----------------------------------------------------------------------------
(***************************************************************************)
(* job-service, REST operations.                                           *)
(***************************************************************************)
RestCall(w, kind, j, arg, step) ==
  Start(w, [kind |-> kind, job |-> j, arg |-> arg], step, FALSE)

\* The row is written before the ingest message is sent.
CreateJob(w, j) ==
  /\ status[j] = NoRow
  /\ status' = [status EXCEPT ![j] = CREATED]
  /\ RestCall(w, "create", j, "none", "send_created")
  /\ UNCHANGED <<file, output_paths, headers, attempts, effectVars, queue, seen, spent>>

\* ENTRY_DISCOVERED: the entry of an archive under way becomes a job.
CreateChildJob(w, j) ==
  /\ status[j] = NoRow
  /\ file[j] \notin Archives
  /\ \E p \in Jobs : file[p] \in Archives /\ status[p] \notin {NoRow, CREATED}
  /\ status' = [status EXCEPT ![j] = CREATED]
  /\ RestCall(w, "child", j, "none", "send_child")
  /\ UNCHANGED <<file, output_paths, headers, attempts, effectVars, queue, seen, spent>>

RetryJob(w, j, target) ==
  /\ status[j] # NoRow
  /\ Spend("retry", MaxRetries)
  /\ RestCall(w, "retry", j, target, "retry")
  /\ UNCHANGED <<rowVars, file, effectVars, queue, seen>>

ReleaseHold(w, j) ==
  /\ status[j] # NoRow
  /\ Spend("retry", MaxRetries)
  /\ RestCall(w, "release", j, "none", "release")
  /\ UNCHANGED <<rowVars, file, effectVars, queue, seen>>

ForceFail(j) ==
  /\ status[j] # NoRow
  /\ Spend("force_fail", MaxForceFails)
  /\ status' = [status EXCEPT ![j] = ForceFailed]
  /\ UNCHANGED <<file, output_paths, headers, attempts, effectVars, queue, workerVars>>

ProvidePassword(j) ==
  /\ status[j] = NEEDS_PASSWORD
  /\ Spend("password", MaxPasswords)
  /\ Put([kind |-> "provide_password", job |-> j, arg |-> "none"])
  /\ UNCHANGED <<rowVars, file, effectVars, workerVars>>
-----------------------------------------------------------------------------
(***************************************************************************)
(* ingest.  activeIngests is a set of the process: a second ingest of the  *)
(* same job in the same process leaves, in another process it goes on to   *)
(* the compare-and-set.                                                    *)
(***************************************************************************)
At(w, step) == pc[w] = step

\* A step that only decides where its handler goes.
Decide(w, step) ==
  /\ Goto(w, step)
  /\ UNCHANGED <<rowVars, file, effectVars, queue, msg, seen, leased, spent>>

IngestRunning(v, j) ==
  msg[v].kind = "ingest" /\ Job(v) = j /\ pc[v] \notin {"ingest_claim", "ack"}

Claimable == {CREATED, NEEDS_PASSWORD}

IngestClaim(w) ==
  /\ At(w, "ingest_claim")
  /\ \/ /\ \E v \in Workers \ {w} : IngestRunning(v, Job(w))
        /\ Decide(w, "ack")
     \/ /\ status[Job(w)] \notin Claimable
        /\ Decide(w, "ack")
     \/ /\ status[Job(w)] \in Claimable
        /\ status' = [status EXCEPT ![Job(w)] = INGESTING]
        /\ Goto(w, "ingest_resolve")
        /\ UNCHANGED <<file, output_paths, headers, attempts, effectVars, queue,
                       msg, seen, leased, spent>>

\* Resolve the source, look for an archive header, extract.  No event follows the
\* extraction when an entry is pending with archive_entry_consumer; when no row of a
\* large entry could be inserted none is pending.
IngestLeavesArchiveOpen(kind) ==
  {"emit_ingest_failed", IF kind \in Archives THEN "ack" ELSE "send_classify"}

IngestOutcomes(kind) ==
  {"emit_ingest_failed"} \cup
    (IF kind \in Archives THEN {"emit_archive_done", "emit_archive_failed", "ask_password"}
                          ELSE {"send_classify"}) \cup
    (IF kind = "large" THEN {"ack"} ELSE {})

IngestResolve(w) ==
  /\ At(w, "ingest_resolve")
  /\ \E step \in IngestOutcomes(file[Job(w)]) : Decide(w, step)

AskPassword(w) ==
  /\ At(w, "ask_password")
  /\ \/ /\ attempts[Job(w)] >= MaxPasswordAttempts
        /\ Decide(w, "emit_ingest_failed")
     \/ /\ attempts[Job(w)] < MaxPasswordAttempts
        /\ attempts' = [attempts EXCEPT ![Job(w)] = @ + 1]
        /\ Goto(w, "emit_needs_password")
        /\ UNCHANGED <<status, file, output_paths, headers, effectVars, queue,
                       msg, seen, leased, spent>>

\* archive_entry_consumer, seen from here: it finds no archive_entries row of the job
\* pending and tells job-service, once for each row it marks.  One event of either
\* kind waits at a time.
EntriesDone(j) ==
  \E new_status \in {COMPLETED, FAILED} :
    LET done == [kind |-> "job_status_changed", job |-> j, arg |-> new_status]
    IN  /\ file[j] = "large"
        /\ status[j] \notin {NoRow, CREATED}
        /\ queue[done] = 0
        /\ Put(done)
        /\ UNCHANGED <<rowVars, file, effectVars, workerVars, spent>>
-----------------------------------------------------------------------------
(***************************************************************************)
(* detect-bootstrap: probe the file, save the headers found, and wait for  *)
(* the user when no fields were asked for.                                 *)
(***************************************************************************)
Probe(w) ==
  /\ At(w, "probe")
  /\ \/ Decide(w, "detect_fail")
     \/ Decide(w, "to_parsing")
     \/ \E step \in {"ack", "to_parsing", "detect_fail"} :
          /\ headers' = [headers EXCEPT ![Job(w)] = TRUE]
          /\ Goto(w, step)
          /\ UNCHANGED <<status, file, output_paths, attempts, effectVars, queue,
                         msg, seen, leased, spent>>
-----------------------------------------------------------------------------
(***************************************************************************)
(* job-service, events.  Each handler first reads the row and drops the    *)
(* event when the job is not at the stage the event is about.              *)
(***************************************************************************)
OnStatusChanged(w) ==
  /\ At(w, "read_status")
  /\ Decide(w, IF IsTerminal(status[Job(w)]) \/ status[Job(w)] = msg[w].arg
               THEN "ack" ELSE "apply_status")

OnErrorOccurred(w) ==
  /\ At(w, "read_error")
  /\ Decide(w, IF IsTerminal(status[Job(w)]) THEN "ack" ELSE "apply_error")

OnParsingCompleted(w) ==
  /\ At(w, "read_parsing")
  /\ Decide(w, IF status[Job(w)] = PARSING THEN "to_merging" ELSE "ack")

OnLoadingCompleted(w) ==
  /\ At(w, "read_loading")
  /\ Decide(w, IF status[Job(w)] = SAVING_TO_DATABASE THEN "to_reporting" ELSE "ack")

OnReportingCompleted(w) ==
  /\ At(w, "read_reporting")
  /\ Decide(w, IF status[Job(w)] = REPORTING THEN "to_completed" ELSE "ack")

\* finalize: merge the parts; fails, throws, or returns the paths it made.
Finalize(w) ==
  /\ At(w, "finalize")
  /\ \E step \in {"fin_failed", "fin_catch", "save_paths"} : Decide(w, step)

\* Save the merged paths, then pass or stop at the quality gate.
MergeWithoutGate(kind, found) ==
  IF kind = "empty" \/ found THEN "to_saving" ELSE "fin_failed"

AfterMerge(kind, found) ==
  CASE kind = "dirty"                           -> "to_hold"
    [] kind = "empty" \/ (kind # "dirty" /\ found) -> "to_saving"
    [] OTHER                                    -> "fin_failed"

SavePaths(w) ==
  /\ At(w, "save_paths")
  /\ \E found \in IF file[Job(w)] = "empty" THEN {FALSE} ELSE BOOLEAN :
       /\ output_paths' = [output_paths EXCEPT ![Job(w)] = found]
       /\ Goto(w, AfterMerge(file[Job(w)], found))
  /\ UNCHANGED <<status, file, headers, attempts, effectVars, queue, msg, seen,
                 leased, spent>>
-----------------------------------------------------------------------------
(***************************************************************************)
(* stream-parser, load and report: none of them looks at the row's status. *)
(***************************************************************************)
Parse(w) ==
  /\ At(w, "parse")
  /\ \/ Decide(w, "emit_parsed")
     \/ Decide(w, "emit_parse_error")
     \/ /\ file[Job(w)] = "empty"
        /\ Decide(w, "emit_gate_failed")

\* A load inserts the rows of its paths or fails; the rows may be inserted and
\* the load fail even so, when its staging table cannot be dropped.
LoadSwallowsErrors(arg) == {0, 1} \X {"emit_loaded"}

LoadOutcomes(arg) ==
  IF arg = "none" THEN {<<0, "emit_loaded">>}
  ELSE {<<1, "emit_loaded">>, <<0, "emit_load_error">>, <<1, "emit_load_error">>}

LoadRows(w) ==
  /\ At(w, "load_rows")
  /\ \E outcome \in LoadOutcomes(msg[w].arg) :
       /\ loads' = [loads EXCEPT ![Job(w)] = @ + outcome[1]]
       /\ Goto(w, outcome[2])
  /\ UNCHANGED <<rowVars, file, reported, rollup, queue, msg, seen, leased, spent>>

\* Without counts in the message the report cannot be computed.  The rollup is
\* written by a report that finds every job of the batch terminal.
Siblings == {j \in Jobs : status[j] # NoRow}

ReportUnwritten(arg) == {<<FALSE, "emit_reported">>}

ReportOutcomes(arg) ==
  {<<FALSE, "emit_report_error">>} \cup
    IF arg = "counts" THEN {<<TRUE, "emit_reported">>, <<TRUE, "emit_report_error">>} ELSE {}

GenerateReport(w) ==
  /\ At(w, "report")
  /\ \E outcome \in ReportOutcomes(msg[w].arg) :
       /\ reported' = [reported EXCEPT ![Job(w)] = @ \/ outcome[1]]
       /\ rollup' = (\/ rollup
                     \/ /\ outcome[2] = "emit_reported"
                        /\ \A j \in Siblings : IsTerminal(status[j]))
       /\ Goto(w, outcome[2])
  /\ UNCHANGED <<rowVars, file, loads, queue, msg, seen, leased, spent>>
-----------------------------------------------------------------------------
\* The next step of the handler a worker runs.
Step(w) ==
  \/ Ack(w) \/ Nack(w)
  \/ TransitionRead(w) \/ TransitionCas(w)
  \/ Send(w)
  \/ IngestClaim(w) \/ IngestResolve(w) \/ AskPassword(w)
  \/ Probe(w)
  \/ OnStatusChanged(w) \/ OnErrorOccurred(w)
  \/ OnParsingCompleted(w) \/ Finalize(w) \/ SavePaths(w)
  \/ OnLoadingCompleted(w) \/ OnReportingCompleted(w)
  \/ Parse(w) \/ LoadRows(w) \/ GenerateReport(w)

Fault(w) == Redeliver(w) \/ Crash(w) \/ SendFails(w)

User(w) ==
  \E j \in Jobs :
    \/ CreateJob(w, j)
    \/ \E t \in RetryTargets : RetryJob(w, j, t)
    \/ ReleaseHold(w, j)
    \/ ForceFail(j)
    \/ ProvidePassword(j)

Next ==
  \E w \in Workers :
    \/ \E m \in Message : Receive(w, m)
    \/ Step(w)
    \/ Fault(w)
    \/ User(w)
    \/ \E j \in Jobs : CreateChildJob(w, j) \/ EntriesDone(j)

Spec == Init /\ [][Next]_vars

(***************************************************************************)
(* A handler that runs takes its next step, and a message that stays on a  *)
(* queue is delivered in the end.  Nothing is promised about faults, about *)
(* users, or about which outcome a step has.                               *)
(***************************************************************************)
Fairness ==
  /\ \A w \in Workers : WF_vars(Step(w))
  /\ \A m \in Message : WF_vars(\E w \in Workers : Receive(w, m))

FairSpec == Spec /\ Fairness
-----------------------------------------------------------------------------
(***************************************************************************)
(* Properties.                                                             *)
(***************************************************************************)

\* The status column obeys StatusColumn: every write of a handler that lost a
\* race, holds a stale read or was delivered twice is either an edge of
\* VALID_TRANSITIONS from the status the row has at that moment, or no write.
Column == INSTANCE StatusColumn WITH status <- status
StatusObeysTable == Column!Spec

\* Between its read and its compare-and-set a transition holds a status from
\* which the table allows its target (what makes StatusObeysTable inductive).
CasTargetsValid ==
  \A w \in Workers :
    seen[w] # NoRow =>
      InTransition(w) /\ Target(w) \in ValidTransitions[seen[w]]

\* A job that no user retried or released does not reach REPORTING, if its lines parse,
\* before its merged rows are in parsed_records, nor COMPLETED before its report is
\* written, whichever of its messages come twice, wherever handlers die and sends fail.
DeliveredBeforeDone ==
  spent["retry"] = 0 => \A j \in Jobs :
    /\ file[j] = "rows" /\ status[j] \in {REPORTING, COMPLETED} => loads[j] > 0
    /\ file[j] \notin Archives /\ status[j] = COMPLETED => reported[j]

\* The rows of a job the quality gate stops are not loaded while no user releases or
\* retries it.
HeldRowsStayOut ==
  spent["retry"] = 0 => \A j \in Jobs : file[j] = "dirty" => loads[j] = 0

\* Two handlers never finalize the same job at once: the compare-and-set from
\* PARSING lets one of two deliveries of PARSING_COMPLETED through.
Finalizing ==
  {"finalize", "save_paths", "fin_failed", "to_hold", "to_saving", "fin_catch", "send_load"}

OneFinalizer ==
  \A v, w \in Workers :
    pc[v] \in Finalizing /\ pc[w] \in Finalizing /\ Job(v) = Job(w) => v = w

\* However often the events of a job are delivered, its rows are loaded once.
LoadedOnce == \A j \in Jobs : loads[j] <= 1

\* A force-failed job stays so, whatever handlers are between the read and the
\* compare-and-set of a transition of it.
ForceFailSticks ==
  [][ \A j \in Jobs : status[j] = ForceFailed => status'[j] = ForceFailed ]_vars

\* Nothing is under way for the job, and only its large entries can end it:
\* handleArchive reports no end of an archive with a pending entry.
WaitsForEntries(j) ==
  /\ file[j] = "large" /\ status[j] = INGESTING
  /\ \A w \in Workers : ~Idle(w) => Job(w) # j
  /\ \A m \in Message : m.job = j => queue[m] = 0

\* Every job ends, or waits for its user (for a password, or for the fields to extract
\* from the headers detected), or is an archive that waits for its large entries,
\* which may be for ever; whichever events come twice, but while no user retries it,
\* no handler dies and no send fails.
Settled(j) ==
  \/ IsTerminal(status[j])
  \/ status[j] = NEEDS_PASSWORD
  \/ status[j] = DETECTING /\ headers[j]
  \/ WaitsForEntries(j)

JobsSettle == \A j \in Jobs : status[j] # NoRow ~> Settled(j)
-----------------------------------------------------------------------------
(***************************************************************************)
(* What a document says and the code does not do.                          *)
(***************************************************************************)

\* FAILED has no next status (ARCHITECTURE.md 2.1): while nobody asks for a retry, no
\* handler that was already under way when the job failed brings it back.
FailedHasNoNext ==
  [][ \A j \in Jobs : status[j] = FAILED => status'[j] = FAILED ]_vars
=============================================================================
