--------------------------- MODULE PipelineProofs ---------------------------
(***************************************************************************)
(* Theorems of Pipeline, for any jobs, handlers, faults and bounds: what a *)
(* status may become, and then what a job delivers, and how often.         *)
(***************************************************************************)
EXTENDS Pipeline, TLAPS

Kinds == MessageKinds \cup {"create", "child", "retry", "release", "idle"}

(***************************************************************************)
(* The tables.                                                             *)
(***************************************************************************)

\* Wherever a transition or a send leads, the handler stays at a step of its own.
LEMMA HandlersClosed ==
  ASSUME NEW k \in Kinds, NEW p \in StepsOf[k]
  PROVE  /\ p \in DOMAIN TransitionCalls =>
              /\ TransitionCalls[p].won \in StepsOf[k]
              /\ TransitionCalls[p].lost \in StepsOf[k]
              /\ TransitionCalls[p].threw \in StepsOf[k]
         /\ p \in DOMAIN SendCalls =>
              /\ SendCalls[p].sent \in StepsOf[k]
              /\ SendCalls[p].failed \subseteq StepsOf[k]
<1>1. CASE k = "ingest"
  BY <1>1 DEF StepsOf, TransitionCalls, TransitionCall, SendCalls, SendCall
<1>2. CASE k = "provide_password"
  BY <1>2 DEF StepsOf, TransitionCalls, TransitionCall, SendCalls, SendCall
<1>3. CASE k = "classify"
  BY <1>3 DEF StepsOf, TransitionCalls, TransitionCall, SendCalls, SendCall
<1>4. CASE k = "parse"
  BY <1>4 DEF StepsOf, TransitionCalls, TransitionCall, SendCalls, SendCall
<1>5. CASE k = "load"
  BY <1>5 DEF StepsOf, TransitionCalls, TransitionCall, SendCalls, SendCall
<1>6. CASE k = "report"
  BY <1>6 DEF StepsOf, TransitionCalls, TransitionCall, SendCalls, SendCall
<1>7. CASE k = "job_status_changed"
  BY <1>7 DEF StepsOf, TransitionCalls, TransitionCall, SendCalls, SendCall
<1>8. CASE k = "error_occurred"
  BY <1>8 DEF StepsOf, TransitionCalls, TransitionCall, SendCalls, SendCall
<1>9. CASE k = "parsing_completed"
  BY <1>9 DEF StepsOf, TransitionCalls, TransitionCall, SendCalls, SendCall
<1>10. CASE k = "loading_completed"
  BY <1>10 DEF StepsOf, TransitionCalls, TransitionCall, SendCalls, SendCall
<1>11. CASE k = "reporting_completed"
  BY <1>11 DEF StepsOf, TransitionCalls, TransitionCall, SendCalls, SendCall
<1>12. CASE k = "create"
  BY <1>12 DEF StepsOf, TransitionCalls, TransitionCall, SendCalls, SendCall
<1>13. CASE k = "child"
  BY <1>13 DEF StepsOf, TransitionCalls, TransitionCall, SendCalls, SendCall
<1>14. CASE k = "retry"
  BY <1>14 DEF StepsOf, TransitionCalls, TransitionCall, SendCalls, SendCall
<1>15. CASE k = "release"
  BY <1>15 DEF StepsOf, TransitionCalls, TransitionCall, SendCalls, SendCall
<1>16. CASE k = "idle"
  BY <1>16 DEF StepsOf, TransitionCalls, TransitionCall, SendCalls, SendCall
<1> QED BY <1>1, <1>2, <1>3, <1>4, <1>5, <1>6, <1>7, <1>8, <1>9, <1>10, <1>11, <1>12, <1>13, <1>14, <1>15, <1>16 DEF Kinds, MessageKinds, BareKinds

\* A step belongs to the handlers of few kinds of message.
LEMMA StepKinds ==
  ASSUME NEW k \in Kinds, NEW p \in StepsOf[k]
  PROVE  /\ p = "idle" <=> k = "idle"
         /\ p = "nack" => k # "idle"
         /\ p \in {"ingest_claim", "ingest_resolve", "ask_password"} => k = "ingest"
         /\ p \in {"to_detecting", "probe", "to_parsing", "detect_fail"} => k = "classify"
         /\ p = "parse" => k = "parse"
         /\ p = "load_rows" => k = "load"
         /\ p = "report" => k = "report"
         /\ p \in {"read_status", "apply_status"} => k = "job_status_changed"
         /\ p \in {"read_error", "apply_error"} => k = "error_occurred"
         /\ p \in {"read_parsing", "to_merging", "finalize", "save_paths", "fin_failed",
                   "to_hold", "to_saving", "fin_catch", "send_load"}
              => k = "parsing_completed"
         /\ p \in {"read_loading", "to_reporting"} => k = "loading_completed"
         /\ p \in {"read_reporting", "to_completed"} => k = "reporting_completed"
         /\ p \in {"retry", "send_retry"} => k = "retry"
         /\ p = "release" => k = "release"
BY DEF Kinds, MessageKinds, BareKinds, StepsOf

LEMMA MessageFields ==
  ASSUME NEW m \in Message \cup Call \cup {NoMessage}
  PROVE  /\ m.kind \in Kinds
         /\ m.kind # "idle" => m.job \in Jobs
         /\ m.kind = "load" => m.arg \in {"paths", "none"}
         /\ m.kind = "report" => m.arg \in {"counts", "none"}
         /\ m.kind = "job_status_changed" => m.arg \in {NEEDS_PASSWORD, COMPLETED, FAILED}
         /\ m.kind = "retry" => m.arg \in DOMAIN RetryQueue
         /\ m.kind = "idle" <=> m = NoMessage
BY DEF Kinds, MessageKinds, BareKinds, Message, Call, NoMessage, RetryQueue

LEMMA EntryIsAStep ==
  ASSUME NEW m \in Message
  PROVE  /\ m.kind \in MessageKinds
         /\ Entry[m.kind] \in StepsOf[m.kind]
<1>1. m.kind \in MessageKinds
  BY DEF Message, MessageKinds, BareKinds
<1>2. \A k \in MessageKinds : Entry[k] \in StepsOf[k]
  BY DEF MessageKinds, BareKinds, Entry, StepsOf
<1> QED BY <1>1, <1>2

\* The status a transition asks for is an enumerator.
LEMMA TargetTyped ==
  ASSUME TypeOK, NEW w \in Workers, InTransition(w)
  PROVE  Target(w) \in JobStatuses
<1> DEFINE k == msg[w].kind
<1>1. k \in Kinds /\ pc[w] \in StepsOf[k]
  BY MessageFields DEF TypeOK, WorkersOK
<1>2. CASE pc[w] = "apply_status"
  <2>1. k = "job_status_changed"
    BY <1>1, <1>2, StepKinds
  <2>2. msg[w].arg \in {NEEDS_PASSWORD, COMPLETED, FAILED}
    BY <2>1, MessageFields DEF TypeOK, WorkersOK
  <2> QED BY <1>2, <2>2 DEF Target, Asked, TransitionCalls, TransitionCall, JobStatuses
<1>3. CASE pc[w] = "retry"
  <2>1. k = "retry"
    BY <1>1, <1>3, StepKinds
  <2>2. msg[w].arg \in DOMAIN RetryQueue
    BY <2>1, MessageFields DEF TypeOK, WorkersOK
  <2> QED BY <1>3, <2>2 DEF Target, Asked, TransitionCalls, TransitionCall, RetryQueue, JobStatuses
<1>4. CASE pc[w] \notin {"apply_status", "retry"}
  <2>1. TransitionCalls[pc[w]].to \in
          {FAILED, MERGING_OUTPUT, ON_HOLD, SAVING_TO_DATABASE, REPORTING, COMPLETED,
           DETECTING, PARSING}
    BY <1>4 DEF InTransition, TransitionCalls, TransitionCall
  <2> QED
    BY <2>1 DEF Target, Asked, JobStatuses, FAILED, MERGING_OUTPUT, ON_HOLD,
       SAVING_TO_DATABASE, REPORTING, COMPLETED, DETECTING, PARSING
<1> QED BY <1>2, <1>3, <1>4

\* What a handler sends is a message.
LEMMA OutgoingTyped ==
  ASSUME TypeOK, NEW w \in Workers, AtSend(w)
  PROVE  Outgoing(w) \in Message
<1> DEFINE k == msg[w].kind
<1>1. k \in Kinds /\ pc[w] \in StepsOf[k]
  BY MessageFields DEF TypeOK, WorkersOK
<1>2. Job(w) \in Jobs
  BY <1>1, StepKinds, MessageFields DEF TypeOK, WorkersOK, AtSend, SendCalls, Job
<1>3. CASE pc[w] = "send_retry"
  <2>1. msg[w].arg \in DOMAIN RetryQueue
    BY <1>1, <1>3, StepKinds, MessageFields DEF TypeOK, WorkersOK
  <2>2. RetryQueue[msg[w].arg] \in {"ingest", "classify", "parse", "load", "report"}
    BY <2>1 DEF RetryQueue, INGESTING, DETECTING, PARSING, SAVING_TO_DATABASE, REPORTING
  <2> QED BY <1>2, <1>3, <2>2 DEF Outgoing, SendCalls, SendCall, Message, BareKinds
<1>4. CASE pc[w] # "send_retry"
  <2> DEFINE call == SendCalls[pc[w]]
  <2>1. \/ call.kind \in BareKinds /\ call.arg = "none"
        \/ call.kind = "load" /\ call.arg \in {"output_paths", "none"}
        \/ call.kind = "report" /\ call.arg = "counts"
        \/ call.kind = "job_status_changed" /\ call.arg \in {NEEDS_PASSWORD, COMPLETED, FAILED}
    BY <1>4 DEF AtSend, SendCalls, SendCall, BareKinds
  <2>2. Outgoing(w) =
          [ kind |-> call.kind,
            job  |-> Job(w),
            arg  |-> IF call.arg # "output_paths" THEN call.arg
                     ELSE IF file[Job(w)] = "empty" THEN "none" ELSE "paths" ]
    BY <2>1 DEF Outgoing, BareKinds
  <2> HIDE DEF call
  <2>3. CASE call.kind \in BareKinds /\ call.arg = "none"
    BY <1>2, <2>2, <2>3 DEF Message
  <2>4. CASE call.kind = "load" /\ call.arg \in {"output_paths", "none"}
    BY <1>2, <2>2, <2>4 DEF Message
  <2>5. CASE call.kind = "report" /\ call.arg = "counts"
    BY <1>2, <2>2, <2>5 DEF Message
  <2>6. CASE call.kind = "job_status_changed" /\ call.arg \in {NEEDS_PASSWORD, COMPLETED, FAILED}
    <3>1. call.arg # "output_paths"
      BY <2>6 DEF NEEDS_PASSWORD, COMPLETED, FAILED
    <3>2. Outgoing(w) = [kind |-> call.kind, job |-> Job(w), arg |-> call.arg]
      BY <2>2, <3>1
    <3> QED BY <1>2, <2>6, <3>2 DEF Message
  <2> QED BY <2>1, <2>3, <2>4, <2>5, <2>6
<1> QED BY <1>3, <1>4

-----------------------------------------------------------------------------
(***************************************************************************)
(* Type correctness.                                                       *)
(***************************************************************************)
LEMMA StepsTyped ==
  ASSUME NEW k \in Kinds, NEW p \in StepsOf[k]
  PROVE  p \in Steps
BY DEF Kinds, MessageKinds, BareKinds, Steps, StepsOf

LEMMA WorkerTyped ==
  ASSUME WorkersOK, NEW w \in Workers
  PROVE  /\ msg[w].kind \in Kinds
         /\ pc[w] \in StepsOf[msg[w].kind]
         /\ ~Idle(w) => Job(w) \in Jobs
<1>1. msg[w] \in Message \cup Call \cup {NoMessage} /\ pc[w] \in StepsOf[msg[w].kind]
  BY DEF WorkersOK
<1>2. msg[w].kind \in Kinds
  BY <1>1, MessageFields
<1>3. Idle(w) <=> msg[w].kind = "idle"
  BY <1>1, <1>2, StepKinds DEF Idle
<1> QED BY <1>1, <1>2, <1>3, MessageFields DEF Job

LEMMA GotoTyped ==
  ASSUME WorkersOK, NEW w \in Workers, NEW step \in StepsOf[msg[w].kind],
         Goto(w, step), UNCHANGED msg
  PROVE  WorkersOK'
<1>1. step \in Steps
  BY StepsTyped, WorkerTyped
<1> QED BY <1>1 DEF WorkersOK, Goto

LEMMA StartTyped ==
  ASSUME WorkersOK, NEW w \in Workers, NEW m \in Message \cup Call,
         NEW step \in StepsOf[m.kind], NEW held, Start(w, m, step, held)
  PROVE  WorkersOK'
<1>1. step \in Steps
  BY StepsTyped, MessageFields
<1> QED BY <1>1 DEF WorkersOK, Start, Goto

LEMMA FinishTyped ==
  ASSUME WorkersOK, NEW w \in Workers, Finish(w)
  PROVE  WorkersOK'
<1>1. NoMessage.kind = "idle" /\ "idle" \in Kinds
  BY DEF NoMessage, Kinds
<1>2. "idle" \in StepsOf[NoMessage.kind]
  BY <1>1 DEF StepsOf
<1>3. "idle" \in Steps
  BY <1>1, <1>2, StepsTyped
<1> QED BY <1>2, <1>3 DEF WorkersOK, Finish, Goto

LEMMA DecideTyped ==
  ASSUME TypeOK, NEW w \in Workers, NEW step \in StepsOf[msg[w].kind], Decide(w, step)
  PROVE  TypeOK'
<1>1. WorkersOK /\ UNCHANGED msg
  BY DEF TypeOK, Decide
<1>2. WorkersOK'
  BY <1>1, GotoTyped DEF Decide
<1>3. /\ UNCHANGED status /\ UNCHANGED output_paths /\ UNCHANGED headers
      /\ UNCHANGED attempts /\ UNCHANGED file /\ UNCHANGED loads /\ UNCHANGED reported
      /\ UNCHANGED rollup /\ UNCHANGED queue /\ UNCHANGED seen /\ UNCHANGED leased
      /\ UNCHANGED spent
  BY DEF Decide, rowVars, effectVars
<1> QED BY <1>2, <1>3 DEF TypeOK, DataOK

LEMMA TypeInit == Init => TypeOK
<1> SUFFICES ASSUME Init PROVE TypeOK
  OBVIOUS
<1>1. "idle" \in StepsOf[NoMessage.kind] /\ "idle" \in Steps
  <2>1. NoMessage.kind = "idle" /\ "idle" \in Kinds
    BY DEF NoMessage, Kinds
  <2>2. "idle" \in StepsOf[NoMessage.kind]
    BY <2>1 DEF StepsOf
  <2> QED BY <2>1, <2>2, StepsTyped
<1>2. WorkersOK
  BY <1>1 DEF Init, WorkersOK
<1>3. NoRow \in ColumnValues
  BY DEF ColumnValues
<1>4. DataOK
  BY <1>3, FileKindsAssumption DEF Init, DataOK
<1> QED BY <1>2, <1>4 DEF TypeOK

LEMMA PutTyped ==
  ASSUME DataOK, NEW m, Put(m)
  PROVE  queue' \in [Message -> Nat]
<1>1. CASE m \in Message
  BY <1>1 DEF DataOK, Put
<1>2. CASE m \notin Message
  BY <1>2 DEF DataOK, Put
<1> QED BY <1>1, <1>2

LEMMA SpendTyped ==
  ASSUME DataOK, NEW b \in Budgets, NEW bound, Spend(b, bound)
  PROVE  spent' \in [Budgets -> Nat]
BY DEF DataOK, Spend

LEMMA FinishDataTyped ==
  ASSUME DataOK, NEW w \in Workers, Finish(w)
  PROVE  seen' \in [Workers -> ColumnValues] /\ leased' \in [Workers -> BOOLEAN]
BY DEF DataOK, Finish, ColumnValues

\* One step of Next preserves TypeOK.
LEMMA TypeStep == TypeOK /\ [Next]_vars => TypeOK'
<1> SUFFICES ASSUME TypeOK, [Next]_vars PROVE TypeOK'
  OBVIOUS
<1>0. WorkersOK /\ DataOK
  BY DEF TypeOK
<1> USE <1>0
<1>1. ASSUME NEW w \in Workers, NEW m \in Message, Receive(w, m) PROVE TypeOK'
  <2>1. WorkersOK'
    BY <1>1, EntryIsAStep, StartTyped DEF Receive
  <2>2. DataOK'
    BY <1>1 DEF Receive, Start, DataOK, rowVars, effectVars
  <2> QED BY <2>1, <2>2 DEF TypeOK
<1>2. ASSUME NEW w \in Workers, Redeliver(w) PROVE TypeOK'
  <2>1. WorkersOK'
    BY <1>2 DEF Redeliver, WorkersOK
  <2>2. queue' \in [Message -> Nat] /\ spent' \in [Budgets -> Nat]
    BY <1>2, PutTyped, SpendTyped DEF Redeliver, Budgets
  <2>3. DataOK'
    BY <1>2, <2>2 DEF Redeliver, DataOK, rowVars, effectVars
  <2> QED BY <2>1, <2>3 DEF TypeOK
<1>3. ASSUME NEW w \in Workers, Ack(w) PROVE TypeOK'
  <2>1. WorkersOK'
    BY <1>3, FinishTyped DEF Ack
  <2>2. DataOK'
    BY <1>3, FinishDataTyped DEF Ack, DataOK, rowVars, effectVars
  <2> QED BY <2>1, <2>2 DEF TypeOK
<1>4. ASSUME NEW w \in Workers, Nack(w) PROVE TypeOK'
  <2>1. WorkersOK'
    BY <1>4, FinishTyped DEF Nack
  <2>2. queue' \in [Message -> Nat]
    BY <1>4, PutTyped DEF Nack, GiveBack, DataOK
  <2>3. DataOK'
    BY <1>4, <2>2, FinishDataTyped DEF Nack, DataOK, rowVars, effectVars
  <2> QED BY <2>1, <2>3 DEF TypeOK
<1>5. ASSUME NEW w \in Workers, Crash(w) PROVE TypeOK'
  <2>1. WorkersOK'
    BY <1>5, FinishTyped DEF Crash
  <2>2. queue' \in [Message -> Nat] /\ spent' \in [Budgets -> Nat]
    BY <1>5, PutTyped, SpendTyped DEF Crash, GiveBack, DataOK, Budgets
  <2>3. DataOK'
    BY <1>5, <2>2, FinishDataTyped DEF Crash, DataOK, rowVars, effectVars
  <2> QED BY <2>1, <2>3 DEF TypeOK
<1>6. ASSUME NEW w \in Workers, TransitionRead(w) PROVE TypeOK'
  <2>1. pc[w] \in DOMAIN TransitionCalls /\ ~Idle(w)
    BY <1>6 DEF TransitionRead, InTransition, TransitionCalls, Idle
  <2>2. status[Job(w)] \in ColumnValues
    BY <2>1, WorkerTyped DEF DataOK
  <2>3. TransitionCalls[pc[w]].threw \in StepsOf[msg[w].kind]
    BY <2>1, WorkerTyped, HandlersClosed
  <2>4. WorkersOK'
    <3>1. CASE Goto(w, Asked(w).threw)
      BY <1>6, <2>3, <3>1, GotoTyped DEF TransitionRead, Asked
    <3>2. CASE UNCHANGED pc
      BY <1>6, <3>2 DEF TransitionRead, WorkersOK
    <3> QED BY <1>6, <3>1, <3>2 DEF TransitionRead
  <2>5. DataOK'
    BY <1>6, <2>2 DEF TransitionRead, DataOK, rowVars, effectVars
  <2> QED BY <2>4, <2>5 DEF TypeOK
<1>7. ASSUME NEW w \in Workers, TransitionCas(w) PROVE TypeOK'
  <2>1. pc[w] \in DOMAIN TransitionCalls /\ ~Idle(w)
    BY <1>7 DEF TransitionCas, InTransition, TransitionCalls, Idle
  <2>2. Target(w) \in ColumnValues
    BY <1>7, TargetTyped DEF TransitionCas, ColumnValues
  <2>3. Result(w, TRUE) \in StepsOf[msg[w].kind] /\ Result(w, FALSE) \in StepsOf[msg[w].kind]
    BY <2>1, WorkerTyped, HandlersClosed DEF Result, Asked
  <2>4. WorkersOK'
    BY <1>7, <2>3, GotoTyped DEF TransitionCas
  <2>5. DataOK'
    BY <1>7, <2>2 DEF TransitionCas, DataOK, effectVars, ColumnValues
  <2> QED BY <2>4, <2>5 DEF TypeOK
<1>8. ASSUME NEW w \in Workers, Send(w) \/ SendFails(w) PROVE TypeOK'
  <2>1. pc[w] \in DOMAIN SendCalls
    BY <1>8 DEF Send, SendFails, AtSend
  <2>2. /\ SendCalls[pc[w]].sent \in StepsOf[msg[w].kind]
        /\ SendCalls[pc[w]].failed \subseteq StepsOf[msg[w].kind]
    BY <2>1, WorkerTyped, HandlersClosed
  <2>3. WorkersOK'
    BY <1>8, <2>2, GotoTyped DEF Send, SendFails
  <2>4. queue' \in [Message -> Nat] /\ spent' \in [Budgets -> Nat]
    BY <1>8, PutTyped, SpendTyped DEF Send, SendFails, DataOK, Budgets
  <2>5. DataOK'
    BY <1>8, <2>4 DEF Send, SendFails, DataOK, rowVars, effectVars
  <2> QED BY <2>3, <2>5 DEF TypeOK
<1>9. ASSUME NEW w \in Workers, NEW j \in Jobs, CreateJob(w, j) PROVE TypeOK'
  <2>1. [kind |-> "create", job |-> j, arg |-> "none"] \in Call
    BY DEF Call
  <2>2. "send_created" \in StepsOf["create"]
    BY DEF StepsOf
  <2>3. WorkersOK'
    BY <1>9, <2>1, <2>2, StartTyped DEF CreateJob, RestCall
  <2>4. DataOK'
    BY <1>9 DEF CreateJob, RestCall, Start, DataOK, effectVars, ColumnValues, JobStatuses
  <2> QED BY <2>3, <2>4 DEF TypeOK
<1>10. ASSUME NEW w \in Workers, NEW j \in Jobs, CreateChildJob(w, j) PROVE TypeOK'
  <2>1. [kind |-> "child", job |-> j, arg |-> "none"] \in Call
    BY DEF Call
  <2>2. "send_child" \in StepsOf["child"]
    BY DEF StepsOf
  <2>3. WorkersOK'
    BY <1>10, <2>1, <2>2, StartTyped DEF CreateChildJob, RestCall
  <2>4. DataOK'
    BY <1>10 DEF CreateChildJob, RestCall, Start, DataOK, effectVars, ColumnValues, JobStatuses
  <2> QED BY <2>3, <2>4 DEF TypeOK
<1>11. ASSUME NEW w \in Workers, NEW j \in Jobs, NEW t \in RetryTargets, RetryJob(w, j, t)
      PROVE TypeOK'
  <2>1. [kind |-> "retry", job |-> j, arg |-> t] \in Call
    BY RetryTargetsAssumption DEF Call
  <2>2. "retry" \in StepsOf["retry"]
    BY DEF StepsOf
  <2>3. WorkersOK'
    BY <1>11, <2>1, <2>2, StartTyped DEF RetryJob, RestCall
  <2>4. DataOK'
    BY <1>11, SpendTyped DEF RetryJob, RestCall, Start, DataOK, rowVars, effectVars, Budgets
  <2> QED BY <2>3, <2>4 DEF TypeOK
<1>12. ASSUME NEW w \in Workers, NEW j \in Jobs, ReleaseHold(w, j) PROVE TypeOK'
  <2>1. [kind |-> "release", job |-> j, arg |-> "none"] \in Call
    BY DEF Call
  <2>2. "release" \in StepsOf["release"]
    BY DEF StepsOf
  <2>3. WorkersOK'
    BY <1>12, <2>1, <2>2, StartTyped DEF ReleaseHold, RestCall
  <2>4. DataOK'
    BY <1>12, SpendTyped DEF ReleaseHold, RestCall, Start, DataOK, rowVars, effectVars, Budgets
  <2> QED BY <2>3, <2>4 DEF TypeOK
<1>13. ASSUME NEW j \in Jobs, ForceFail(j) PROVE TypeOK'
  <2>1. WorkersOK'
    BY <1>13 DEF ForceFail, WorkersOK, workerVars
  <2>2. DataOK'
    BY <1>13, SpendTyped DEF ForceFail, DataOK, effectVars, workerVars, Budgets, ColumnValues
  <2> QED BY <2>1, <2>2 DEF TypeOK
<1>14. ASSUME NEW j \in Jobs, ProvidePassword(j) PROVE TypeOK'
  <2>1. WorkersOK'
    BY <1>14 DEF ProvidePassword, WorkersOK, workerVars
  <2>2. DataOK'
    BY <1>14, SpendTyped, PutTyped
    DEF ProvidePassword, DataOK, rowVars, effectVars, workerVars, Budgets
  <2> QED BY <2>1, <2>2 DEF TypeOK
<1>26. ASSUME NEW j \in Jobs, EntriesDone(j) PROVE TypeOK'
  <2>1. WorkersOK'
    BY <1>26 DEF EntriesDone, WorkersOK, workerVars
  <2>2. DataOK'
    BY <1>26, PutTyped DEF EntriesDone, DataOK, rowVars, effectVars, workerVars
  <2> QED BY <2>1, <2>2 DEF TypeOK
<1>15. ASSUME NEW w \in Workers, IngestClaim(w) PROVE TypeOK'
  <2>1. msg[w].kind = "ingest"
    BY <1>15, WorkerTyped, StepKinds DEF IngestClaim, At
  <2>2. {"ack", "ingest_resolve"} \subseteq StepsOf[msg[w].kind]
    BY <2>1 DEF StepsOf
  <2>3. CASE Decide(w, "ack")
    BY <2>2, <2>3, DecideTyped
  <2>4. CASE ~Decide(w, "ack")
    <3>1. WorkersOK'
      BY <1>15, <2>2, <2>4, GotoTyped DEF IngestClaim
    <3>2. DataOK'
      BY <1>15, <2>4 DEF IngestClaim, DataOK, effectVars, ColumnValues, JobStatuses
    <3> QED BY <3>1, <3>2 DEF TypeOK
  <2> QED BY <2>3, <2>4
<1>16. ASSUME NEW w \in Workers, IngestResolve(w) PROVE TypeOK'
  <2>1. msg[w].kind = "ingest"
    BY <1>16, WorkerTyped, StepKinds DEF IngestResolve, At
  <2>2. IngestOutcomes(file[Job(w)]) \subseteq StepsOf[msg[w].kind]
    BY <2>1 DEF IngestOutcomes, StepsOf
  <2> QED BY <1>16, <2>2, DecideTyped DEF IngestResolve
<1>17. ASSUME NEW w \in Workers, AskPassword(w) PROVE TypeOK'
  <2>1. msg[w].kind = "ingest"
    BY <1>17, WorkerTyped, StepKinds DEF AskPassword, At
  <2>2. {"emit_ingest_failed", "emit_needs_password"} \subseteq StepsOf[msg[w].kind]
    BY <2>1 DEF StepsOf
  <2>3. CASE Decide(w, "emit_ingest_failed")
    BY <2>2, <2>3, DecideTyped
  <2>4. CASE ~Decide(w, "emit_ingest_failed")
    <3>1. WorkersOK'
      BY <1>17, <2>2, <2>4, GotoTyped DEF AskPassword
    <3>2. DataOK'
      BY <1>17, <2>4 DEF AskPassword, DataOK, effectVars
    <3> QED BY <3>1, <3>2 DEF TypeOK
  <2> QED BY <2>3, <2>4
<1>18. ASSUME NEW w \in Workers, Probe(w) PROVE TypeOK'
  <2>1. msg[w].kind = "classify"
    BY <1>18, WorkerTyped, StepKinds DEF Probe, At
  <2>2. {"ack", "to_parsing", "detect_fail"} \subseteq StepsOf[msg[w].kind]
    BY <2>1 DEF StepsOf
  <2>3. CASE \E step \in {"to_parsing", "detect_fail"} : Decide(w, step)
    BY <2>2, <2>3, DecideTyped
  <2>4. CASE ~\E step \in {"to_parsing", "detect_fail"} : Decide(w, step)
    <3>1. WorkersOK'
      BY <1>18, <2>2, <2>4, GotoTyped DEF Probe
    <3>2. DataOK'
      BY <1>18, <2>4 DEF Probe, DataOK, effectVars
    <3> QED BY <3>1, <3>2 DEF TypeOK
  <2> QED BY <2>3, <2>4
<1>19. ASSUME NEW w \in Workers,
             OnStatusChanged(w) \/ OnErrorOccurred(w) \/ OnParsingCompleted(w)
               \/ OnLoadingCompleted(w) \/ OnReportingCompleted(w)
      PROVE TypeOK'
  <2>1. CASE OnStatusChanged(w)
    <3>1. msg[w].kind = "job_status_changed"
      BY <2>1, WorkerTyped, StepKinds DEF OnStatusChanged, At
    <3>2. {"ack", "apply_status"} \subseteq StepsOf[msg[w].kind]
      BY <3>1 DEF StepsOf
    <3> QED BY <2>1, <3>2, DecideTyped DEF OnStatusChanged
  <2>2. CASE OnErrorOccurred(w)
    <3>1. msg[w].kind = "error_occurred"
      BY <2>2, WorkerTyped, StepKinds DEF OnErrorOccurred, At
    <3>2. {"ack", "apply_error"} \subseteq StepsOf[msg[w].kind]
      BY <3>1 DEF StepsOf
    <3> QED BY <2>2, <3>2, DecideTyped DEF OnErrorOccurred
  <2>3. CASE OnParsingCompleted(w)
    <3>1. msg[w].kind = "parsing_completed"
      BY <2>3, WorkerTyped, StepKinds DEF OnParsingCompleted, At
    <3>2. {"ack", "to_merging"} \subseteq StepsOf[msg[w].kind]
      BY <3>1 DEF StepsOf
    <3> QED BY <2>3, <3>2, DecideTyped DEF OnParsingCompleted
  <2>4. CASE OnLoadingCompleted(w)
    <3>1. msg[w].kind = "loading_completed"
      BY <2>4, WorkerTyped, StepKinds DEF OnLoadingCompleted, At
    <3>2. {"ack", "to_reporting"} \subseteq StepsOf[msg[w].kind]
      BY <3>1 DEF StepsOf
    <3> QED BY <2>4, <3>2, DecideTyped DEF OnLoadingCompleted
  <2>5. CASE OnReportingCompleted(w)
    <3>1. msg[w].kind = "reporting_completed"
      BY <2>5, WorkerTyped, StepKinds DEF OnReportingCompleted, At
    <3>2. {"ack", "to_completed"} \subseteq StepsOf[msg[w].kind]
      BY <3>1 DEF StepsOf
    <3> QED BY <2>5, <3>2, DecideTyped DEF OnReportingCompleted
  <2> QED BY <1>19, <2>1, <2>2, <2>3, <2>4, <2>5
<1>20. ASSUME NEW w \in Workers, Finalize(w) PROVE TypeOK'
  <2>1. msg[w].kind = "parsing_completed"
    BY <1>20, WorkerTyped, StepKinds DEF Finalize, At
  <2>2. {"fin_failed", "fin_catch", "save_paths"} \subseteq StepsOf[msg[w].kind]
    BY <2>1 DEF StepsOf
  <2> QED BY <1>20, <2>2, DecideTyped DEF Finalize
<1>21. ASSUME NEW w \in Workers, SavePaths(w) PROVE TypeOK'
  <2>1. msg[w].kind = "parsing_completed"
    BY <1>21, WorkerTyped, StepKinds DEF SavePaths, At
  <2>2. \A kind, found : AfterMerge(kind, found) \in StepsOf[msg[w].kind]
    BY <2>1 DEF AfterMerge, StepsOf
  <2>3. WorkersOK'
    BY <1>21, <2>2, GotoTyped DEF SavePaths
  <2>4. DataOK'
    BY <1>21 DEF SavePaths, DataOK, effectVars
  <2> QED BY <2>3, <2>4 DEF TypeOK
<1>22. ASSUME NEW w \in Workers, Parse(w) PROVE TypeOK'
  <2>1. msg[w].kind = "parse"
    BY <1>22, WorkerTyped, StepKinds DEF Parse, At
  <2>2. {"emit_parsed", "emit_parse_error", "emit_gate_failed"} \subseteq StepsOf[msg[w].kind]
    BY <2>1 DEF StepsOf
  <2> QED BY <1>22, <2>2, DecideTyped DEF Parse
<1>23. ASSUME NEW w \in Workers, LoadRows(w) PROVE TypeOK'
  <2>1. msg[w].kind = "load"
    BY <1>23, WorkerTyped, StepKinds DEF LoadRows, At
  <2>2. {"emit_loaded", "emit_load_error"} \subseteq StepsOf[msg[w].kind]
    BY <2>1 DEF StepsOf
  <2>3. PICK outcome \in LoadOutcomes(msg[w].arg) :
          /\ loads' = [loads EXCEPT ![Job(w)] = @ + outcome[1]]
          /\ Goto(w, outcome[2])
    BY <1>23 DEF LoadRows
  <2>4. outcome[1] \in Nat /\ outcome[2] \in {"emit_loaded", "emit_load_error"}
    BY <2>3 DEF LoadOutcomes
  <2>5. WorkersOK'
    BY <1>23, <2>2, <2>3, <2>4, GotoTyped DEF LoadRows
  <2>6. loads' \in [Jobs -> Nat]
    <3>1. loads[Job(w)] \in Nat
      BY <1>23, WorkerTyped DEF LoadRows, At, Idle, DataOK
    <3>2. loads[Job(w)] + outcome[1] \in Nat
      BY <2>4, <3>1
    <3> QED BY <2>3, <3>2 DEF DataOK
  <2>7. /\ UNCHANGED status /\ UNCHANGED output_paths /\ UNCHANGED headers
        /\ UNCHANGED attempts /\ UNCHANGED file /\ UNCHANGED reported /\ UNCHANGED rollup
        /\ UNCHANGED queue /\ UNCHANGED seen /\ UNCHANGED leased /\ UNCHANGED spent
    BY <1>23 DEF LoadRows, rowVars
  <2>8. DataOK'
    BY <2>6, <2>7 DEF DataOK
  <2> QED BY <2>5, <2>8 DEF TypeOK
<1>24. ASSUME NEW w \in Workers, GenerateReport(w) PROVE TypeOK'
  <2>1. msg[w].kind = "report"
    BY <1>24, WorkerTyped, StepKinds DEF GenerateReport, At
  <2>2. {"emit_reported", "emit_report_error"} \subseteq StepsOf[msg[w].kind]
    BY <2>1 DEF StepsOf
  <2>3. PICK outcome \in ReportOutcomes(msg[w].arg) :
          /\ reported' = [reported EXCEPT ![Job(w)] = @ \/ outcome[1]]
          /\ rollup' = (\/ rollup
                        \/ /\ outcome[2] = "emit_reported"
                           /\ \A j \in Siblings : IsTerminal(status[j]))
          /\ Goto(w, outcome[2])
    BY <1>24 DEF GenerateReport
  <2>4. outcome[2] \in {"emit_reported", "emit_report_error"}
    <3>1. \A b, s : <<b, s>>[2] = s
      OBVIOUS
    <3>2. \E b : outcome \in {<<b, "emit_reported">>, <<b, "emit_report_error">>}
      BY <2>3, Zenon DEF ReportOutcomes
    <3> QED BY <3>1, <3>2, Zenon
  <2>5. WorkersOK'
    BY <1>24, <2>2, <2>3, <2>4, GotoTyped DEF GenerateReport
  <2>6. reported' \in [Jobs -> BOOLEAN]
    <3>1. reported \in [Jobs -> BOOLEAN]
      BY DEF DataOK
    <3>2. (reported[Job(w)] \/ outcome[1]) \in BOOLEAN
      OBVIOUS
    <3> HIDE DEF Job
    <3> QED BY <2>3, <3>1, <3>2
  <2>7. rollup' \in BOOLEAN
    BY <2>3
  <2>8. /\ UNCHANGED status /\ UNCHANGED output_paths /\ UNCHANGED headers
        /\ UNCHANGED attempts /\ UNCHANGED file /\ UNCHANGED loads /\ UNCHANGED queue
        /\ UNCHANGED seen /\ UNCHANGED leased /\ UNCHANGED spent
    BY <1>24 DEF GenerateReport, rowVars
  <2>9. DataOK'
    BY <2>6, <2>7, <2>8 DEF DataOK
  <2> QED BY <2>5, <2>9 DEF TypeOK
<1>25. CASE UNCHANGED vars
  BY <1>25 DEF vars, rowVars, effectVars, workerVars, TypeOK, DataOK, WorkersOK
<1> QED
  BY <1>1, <1>2, <1>3, <1>4, <1>5, <1>6, <1>7, <1>8, <1>9, <1>10, <1>11, <1>12, <1>13, <1>14, <1>15, <1>16, <1>17, <1>18, <1>19, <1>20, <1>21, <1>22, <1>23, <1>24, <1>25, <1>26
  DEF Next, Step, Fault, User

\* Every reachable state is well typed, and a handler is only ever at a step of the
\* message it handles.
THEOREM TypeCorrect == Spec => []TypeOK
<1> QED BY TypeInit, TypeStep, PTL DEF Spec
-----------------------------------------------------------------------------
(***************************************************************************)
(* The status column.  CasTargetsValid is inductive together with TypeOK:  *)
(* "seen" is set only by TransitionRead, which checks the table, and only  *)
(* a handler that stands at a transition holds a status it has read.       *)
(***************************************************************************)
ColumnInv == TypeOK /\ CasTargetsValid

\* All but handler w stay where they are, and w holds no status it has read.
OnlyMoves(w) ==
  /\ \A v \in Workers \ {w} : pc'[v] = pc[v] /\ msg'[v] = msg[v] /\ seen'[v] = seen[v]
  /\ seen'[w] = NoRow

LEMMA NothingSeen ==
  ASSUME CasTargetsValid, NEW w \in Workers, pc[w] \notin DOMAIN TransitionCalls
  PROVE  seen[w] = NoRow
BY DEF CasTargetsValid, InTransition

LEMMA CasFrame ==
  ASSUME CasTargetsValid, UNCHANGED pc, UNCHANGED msg, UNCHANGED seen
  PROVE  CasTargetsValid'
BY DEF CasTargetsValid, InTransition, Target, Asked

LEMMA CasOnlyMoves ==
  ASSUME CasTargetsValid, NEW w \in Workers, OnlyMoves(w)
  PROVE  CasTargetsValid'
BY DEF CasTargetsValid, InTransition, Target, Asked, OnlyMoves

\* A handler that is not at a transition goes on to any step of its own.
LEMMA CasGoto ==
  ASSUME ColumnInv, NEW w \in Workers, NEW step, pc[w] \notin DOMAIN TransitionCalls,
         Goto(w, step), UNCHANGED msg, UNCHANGED seen
  PROVE  CasTargetsValid'
<1>1. seen[w] = NoRow
  BY NothingSeen DEF ColumnInv
<1>2. OnlyMoves(w)
  BY <1>1 DEF OnlyMoves, Goto, ColumnInv, TypeOK, WorkersOK
<1> QED BY <1>2, CasOnlyMoves DEF ColumnInv

LEMMA CasStart ==
  ASSUME ColumnInv, NEW w \in Workers, NEW m, NEW step, NEW held,
         Start(w, m, step, held), UNCHANGED seen
  PROVE  CasTargetsValid'
<1>1. pc[w] \notin DOMAIN TransitionCalls
  BY DEF Start, Idle, TransitionCalls
<1>2. seen[w] = NoRow
  BY <1>1, NothingSeen DEF ColumnInv
<1>3. OnlyMoves(w)
  BY <1>2 DEF OnlyMoves, Start, Goto, ColumnInv, TypeOK, WorkersOK
<1> QED BY <1>3, CasOnlyMoves DEF ColumnInv

LEMMA CasFinish ==
  ASSUME ColumnInv, NEW w \in Workers, Finish(w)
  PROVE  CasTargetsValid'
<1>1. OnlyMoves(w)
  BY DEF OnlyMoves, Finish, Goto, ColumnInv, TypeOK, WorkersOK, DataOK
<1> QED BY <1>1, CasOnlyMoves DEF ColumnInv

LEMMA CasInit == Init => CasTargetsValid
BY DEF Init, CasTargetsValid

\* One step of Next preserves CasTargetsValid.
LEMMA CasStep == ColumnInv /\ [Next]_vars => CasTargetsValid'
<1> SUFFICES ASSUME ColumnInv, [Next]_vars PROVE CasTargetsValid'
  OBVIOUS
<1>0. TypeOK /\ CasTargetsValid
  BY DEF ColumnInv
<1>1. ASSUME NEW w \in Workers, NEW m \in Message, Receive(w, m) PROVE CasTargetsValid'
  BY <1>1, CasStart DEF Receive
<1>2. ASSUME NEW w \in Workers, Redeliver(w) PROVE CasTargetsValid'
  BY <1>0, <1>2, CasFrame DEF Redeliver
<1>3. ASSUME NEW w \in Workers, Ack(w) \/ Nack(w) \/ Crash(w) PROVE CasTargetsValid'
  BY <1>3, CasFinish DEF Ack, Nack, Crash
<1>4. ASSUME NEW w \in Workers, TransitionRead(w) PROVE CasTargetsValid'
  <2>1. CASE Allowed(w)
    <3>1. UNCHANGED pc /\ UNCHANGED msg /\ seen' = [seen EXCEPT ![w] = status[Job(w)]]
      BY <1>4, <2>1 DEF TransitionRead
    <3>2. \A v \in Workers : Target(v)' = Target(v) /\ InTransition(v)' = InTransition(v)
      BY <3>1 DEF Target, Asked, InTransition
    <3>3. InTransition(w) /\ Target(w) \in ValidTransitions[status[Job(w)]]
      BY <1>4, <2>1 DEF TransitionRead, Allowed
    <3>4. ASSUME NEW v \in Workers, seen'[v] # NoRow
          PROVE  InTransition(v) /\ Target(v) \in ValidTransitions[seen'[v]]
      BY <1>0, <3>1, <3>3, <3>4 DEF CasTargetsValid, TypeOK, DataOK
    <3> QED BY <3>2, <3>4 DEF CasTargetsValid
  <2>2. CASE ~Allowed(w)
    <3>1. OnlyMoves(w)
      BY <1>0, <1>4, <2>2 DEF TransitionRead, OnlyMoves, Goto, TypeOK, WorkersOK
    <3> QED BY <1>0, <3>1, CasOnlyMoves
  <2> QED BY <2>1, <2>2
<1>5. ASSUME NEW w \in Workers, TransitionCas(w) PROVE CasTargetsValid'
  <2>1. OnlyMoves(w)
    BY <1>0, <1>5 DEF TransitionCas, OnlyMoves, Goto, TypeOK, WorkersOK, DataOK
  <2> QED BY <1>0, <2>1, CasOnlyMoves
<1>6. ASSUME NEW w \in Workers, Send(w) \/ SendFails(w) PROVE CasTargetsValid'
  <2>1. pc[w] \notin DOMAIN TransitionCalls
    BY <1>6 DEF Send, SendFails, AtSend, SendCalls, TransitionCalls
  <2> QED BY <1>6, <2>1, CasGoto DEF Send, SendFails
<1>7. ASSUME NEW w \in Workers, NEW j \in Jobs,
             \/ CreateJob(w, j) \/ CreateChildJob(w, j) \/ ReleaseHold(w, j)
             \/ \E t \in RetryTargets : RetryJob(w, j, t)
      PROVE  CasTargetsValid'
  BY <1>7, CasStart DEF CreateJob, CreateChildJob, ReleaseHold, RetryJob, RestCall
<1>8. ASSUME NEW j \in Jobs, ForceFail(j) \/ ProvidePassword(j) \/ EntriesDone(j)
      PROVE  CasTargetsValid'
  BY <1>0, <1>8, CasFrame DEF ForceFail, ProvidePassword, EntriesDone, workerVars
<1>9. ASSUME NEW w \in Workers, IngestClaim(w) \/ IngestResolve(w) \/ AskPassword(w)
      PROVE  CasTargetsValid'
  <2>1. pc[w] \notin DOMAIN TransitionCalls
    BY <1>9 DEF IngestClaim, IngestResolve, AskPassword, At, TransitionCalls
  <2>2. UNCHANGED msg /\ UNCHANGED seen /\ \E step : Goto(w, step)
    BY <1>9 DEF IngestClaim, IngestResolve, AskPassword, Decide
  <2> QED BY <2>1, <2>2, CasGoto
<1>10. ASSUME NEW w \in Workers, Probe(w) PROVE CasTargetsValid'
  <2>1. pc[w] \notin DOMAIN TransitionCalls
    BY <1>10 DEF Probe, At, TransitionCalls
  <2>2. UNCHANGED msg /\ UNCHANGED seen /\ \E step : Goto(w, step)
    BY <1>10 DEF Probe, Decide
  <2> QED BY <2>1, <2>2, CasGoto
<1>11. ASSUME NEW w \in Workers,
              OnStatusChanged(w) \/ OnErrorOccurred(w) \/ OnParsingCompleted(w)
                \/ OnLoadingCompleted(w) \/ OnReportingCompleted(w)
       PROVE  CasTargetsValid'
  <2>1. pc[w] \notin DOMAIN TransitionCalls
    BY <1>11 DEF OnStatusChanged, OnErrorOccurred, OnParsingCompleted,
       OnLoadingCompleted, OnReportingCompleted, At, TransitionCalls
  <2>2. UNCHANGED msg /\ UNCHANGED seen /\ \E step : Goto(w, step)
    BY <1>11 DEF OnStatusChanged, OnErrorOccurred, OnParsingCompleted,
       OnLoadingCompleted, OnReportingCompleted, Decide
  <2> QED BY <2>1, <2>2, CasGoto
<1>12. ASSUME NEW w \in Workers, Finalize(w) \/ SavePaths(w) PROVE CasTargetsValid'
  <2>1. pc[w] \notin DOMAIN TransitionCalls
    BY <1>12 DEF Finalize, SavePaths, At, TransitionCalls
  <2>2. UNCHANGED msg /\ UNCHANGED seen /\ \E step : Goto(w, step)
    BY <1>12 DEF Finalize, SavePaths, Decide
  <2> QED BY <2>1, <2>2, CasGoto
<1>13. ASSUME NEW w \in Workers, Parse(w) \/ LoadRows(w) \/ GenerateReport(w)
       PROVE  CasTargetsValid'
  <2>1. pc[w] \notin DOMAIN TransitionCalls
    BY <1>13 DEF Parse, LoadRows, GenerateReport, At, TransitionCalls
  <2>2. UNCHANGED msg /\ UNCHANGED seen /\ \E step : Goto(w, step)
    BY <1>13 DEF Parse, LoadRows, GenerateReport, Decide
  <2> QED BY <2>1, <2>2, CasGoto
<1>14. CASE UNCHANGED vars
  BY <1>0, <1>14, CasFrame DEF vars, workerVars
<1> QED
  BY <1>1, <1>2, <1>3, <1>4, <1>5, <1>6, <1>7, <1>8, <1>9, <1>10, <1>11, <1>12, <1>13,
     <1>14
  DEF Next, Step, Fault, User

\* Between its read and its compare-and-set a transition asks for a status the table
\* allows from the one it read, however many handlers run and whatever fails.
THEOREM TargetsValid == Spec => []CasTargetsValid
<1>1. Init => ColumnInv
  BY TypeInit, CasInit DEF ColumnInv
<1>2. ColumnInv /\ [Next]_vars => ColumnInv'
  BY TypeStep, CasStep DEF ColumnInv
<1>3. ColumnInv => CasTargetsValid
  BY DEF ColumnInv
<1> QED BY <1>1, <1>2, <1>3, PTL DEF Spec

\* The names of JobStatus mean the same in both specifications.
LEMMA SameTable ==
  /\ Column!NoRow = NoRow /\ Column!ForceFailed = ForceFailed
  /\ Column!CREATED = CREATED /\ Column!INGESTING = INGESTING
  /\ Column!NEEDS_PASSWORD = NEEDS_PASSWORD
  /\ Column!ValidTransitions = ValidTransitions
BY DEF
   Column!ValidTransitions, Column!ColumnValues, Column!JobStatuses, Column!NoRow,
   Column!ForceFailed, Column!CREATED, Column!INGESTING, Column!NEEDS_PASSWORD,
   Column!DETECTING, Column!PARSING, Column!MERGING_OUTPUT, Column!SAVING_TO_DATABASE,
   Column!REPORTING, Column!COMPLETED, Column!PARTIAL, Column!ON_HOLD, Column!FAILED,
   ValidTransitions, ColumnValues, JobStatuses, NoRow, ForceFailed, CREATED, INGESTING,
   NEEDS_PASSWORD, DETECTING, PARSING, MERGING_OUTPUT, SAVING_TO_DATABASE, REPORTING,
   COMPLETED, PARTIAL, ON_HOLD, FAILED

\* Every step of the pipeline is a step of the status column, or leaves it alone.
LEMMA ColumnStep == ColumnInv /\ [Next]_vars => [Column!Next]_status
<1> SUFFICES ASSUME ColumnInv, [Next]_vars, status' # status PROVE Column!Next
  OBVIOUS
<1>0. TypeOK /\ CasTargetsValid /\ WorkersOK /\ DataOK
  BY DEF ColumnInv, TypeOK
<1>1. ASSUME NEW w \in Workers, TransitionCas(w) PROVE Column!Next
  <2>1. Job(w) \in Jobs
    BY <1>0, <1>1, WorkerTyped DEF TransitionCas, InTransition, TransitionCalls, Idle
  <2>2. status' = [status EXCEPT ![Job(w)] = Target(w)] /\ RowUnmoved(w) /\ seen[w] # NoRow
    BY <1>1 DEF TransitionCas
  <2>3. Target(w) \in ValidTransitions[status[Job(w)]]
    BY <1>0, <2>2 DEF CasTargetsValid, RowUnmoved
  <2>4. Column!Advance(Job(w))
    BY SameTable, <2>2, <2>3 DEF Column!Advance
  <2> QED BY <2>1, <2>4 DEF Column!Next
<1>2. ASSUME NEW w \in Workers, IngestClaim(w) PROVE Column!Next
  <2>1. status[Job(w)] \in Claimable /\ status' = [status EXCEPT ![Job(w)] = INGESTING]
    BY <1>2 DEF IngestClaim, Decide, rowVars
  <2>2. Job(w) \in Jobs
    BY <1>0, <1>2, WorkerTyped DEF IngestClaim, At, Idle
  <2>3. CASE status[Job(w)] = CREATED
    <3>1. INGESTING \in ValidTransitions[CREATED]
      <4>1. CREATED \in ColumnValues
        BY DEF ColumnValues, JobStatuses
      <4> QED
        BY <4>1 DEF ValidTransitions,
           CREATED, INGESTING, NEEDS_PASSWORD, DETECTING, PARSING, MERGING_OUTPUT,
           SAVING_TO_DATABASE, REPORTING, COMPLETED, PARTIAL, ON_HOLD, FAILED
    <3>2. Column!Advance(Job(w))
      BY SameTable, <2>1, <2>3, <3>1 DEF Column!Advance
    <3> QED BY <2>2, <3>2 DEF Column!Next
  <2>4. CASE status[Job(w)] = NEEDS_PASSWORD
    <3>1. Column!ResumeWithPassword(Job(w))
      BY SameTable, <2>1, <2>4 DEF Column!ResumeWithPassword
    <3> QED BY <2>2, <3>1 DEF Column!Next
  <2> QED BY <2>1, <2>3, <2>4 DEF Claimable
<1>3. ASSUME NEW w \in Workers, NEW j \in Jobs, CreateJob(w, j) \/ CreateChildJob(w, j)
      PROVE  Column!Next
  BY SameTable, <1>3 DEF CreateJob, CreateChildJob, Column!Next, Column!Insert
<1>4. ASSUME NEW j \in Jobs, ForceFail(j) PROVE Column!Next
  BY SameTable, <1>4 DEF ForceFail, Column!Next, Column!ForceFail
<1>5. ASSUME NEW w \in Workers,
             \/ \E m \in Message : Receive(w, m)
             \/ Redeliver(w) \/ Ack(w) \/ Nack(w) \/ Crash(w) \/ TransitionRead(w)
             \/ Send(w) \/ SendFails(w)
      PROVE  FALSE
  BY <1>5 DEF Receive, Redeliver, Ack, Nack, Crash, TransitionRead, Send, SendFails, rowVars
<1>6. ASSUME NEW w \in Workers, NEW j \in Jobs,
             \/ ReleaseHold(w, j) \/ ProvidePassword(j) \/ EntriesDone(j)
             \/ \E t \in RetryTargets : RetryJob(w, j, t)
      PROVE  FALSE
  BY <1>6 DEF ReleaseHold, RetryJob, ProvidePassword, EntriesDone, rowVars
<1>7. ASSUME NEW w \in Workers,
             \/ IngestResolve(w) \/ AskPassword(w) \/ Probe(w) \/ OnStatusChanged(w)
             \/ OnErrorOccurred(w) \/ OnParsingCompleted(w) \/ OnLoadingCompleted(w)
             \/ OnReportingCompleted(w)
      PROVE  FALSE
  BY <1>7 DEF IngestResolve, AskPassword, Probe, OnStatusChanged, OnErrorOccurred,
     OnParsingCompleted, OnLoadingCompleted, OnReportingCompleted, Decide, rowVars
<1>8. ASSUME NEW w \in Workers,
             Finalize(w) \/ SavePaths(w) \/ Parse(w) \/ LoadRows(w) \/ GenerateReport(w)
      PROVE  FALSE
  BY <1>8 DEF Finalize, SavePaths, Parse, LoadRows, GenerateReport, Decide, rowVars
<1>9. CASE UNCHANGED vars
  BY <1>9 DEF vars, rowVars
<1> QED
  BY <1>1, <1>2, <1>3, <1>4, <1>5, <1>6, <1>7, <1>8, <1>9 DEF Next, Step, Fault, User

\* The pipeline implements StatusColumn: whatever handlers race, crash or run twice,
\* a row's status moves along one edge of the table at a time.
THEOREM ImplementsColumn == Spec => StatusObeysTable
<1>1. Init => ColumnInv /\ Column!Init
  BY TypeInit, CasInit, SameTable DEF ColumnInv, Init, Column!Init
<1>2. ColumnInv /\ [Next]_vars => ColumnInv'
  BY TypeStep, CasStep DEF ColumnInv
<1>3. ColumnInv /\ [Next]_vars => [Column!Next]_status
  BY ColumnStep
<1> QED BY <1>1, <1>2, <1>3, PTL DEF Spec, StatusObeysTable, Column!Spec

\* The table has no way out of the value that the force-fail endpoint writes.
LEMMA NoWayOut ==
  ASSUME DataOK, [Column!Next]_status, NEW j \in Jobs, status[j] = ForceFailed
  PROVE  status'[j] = ForceFailed
<1>1. ValidTransitions[ForceFailed] = {}
  <2>1. ForceFailed \in ColumnValues
    BY DEF ColumnValues
  <2>2. /\ ForceFailed \notin {CREATED, INGESTING, NEEDS_PASSWORD, DETECTING, PARSING}
        /\ ForceFailed \notin {MERGING_OUTPUT, SAVING_TO_DATABASE, REPORTING, ON_HOLD, FAILED}
    BY DEF ForceFailed, CREATED, INGESTING, NEEDS_PASSWORD, DETECTING, PARSING,
       MERGING_OUTPUT, SAVING_TO_DATABASE, REPORTING, ON_HOLD, FAILED
  <2> QED BY <2>1, <2>2 DEF ValidTransitions
<1>2. ForceFailed # NoRow /\ ForceFailed # NEEDS_PASSWORD
  BY DEF ForceFailed, NoRow, NEEDS_PASSWORD
<1>3. CASE UNCHANGED status
  BY <1>3
<1>4. ASSUME NEW i \in Jobs, i # j,
             Column!Insert(i) \/ Column!Advance(i) \/ Column!ResumeWithPassword(i)
               \/ Column!ForceFail(i)
      PROVE  status'[j] = status[j]
  BY <1>4 DEF Column!Insert, Column!Advance, Column!ResumeWithPassword, Column!ForceFail, DataOK
<1>5. ASSUME Column!Insert(j) \/ Column!Advance(j) \/ Column!ResumeWithPassword(j)
      PROVE  FALSE
  BY SameTable, <1>1, <1>2, <1>5 DEF Column!Insert, Column!Advance, Column!ResumeWithPassword
<1>6. ASSUME Column!ForceFail(j) PROVE status'[j] = ForceFailed
  BY SameTable, <1>6 DEF Column!ForceFail, DataOK
<1> QED BY <1>3, <1>4, <1>5, <1>6 DEF Column!Next

\* A job the operator has failed by force is not revived by any handler that was
\* under way, by any message still on a queue, or by a retry.
THEOREM ForceFailed_Sticks == Spec => ForceFailSticks
<1>1. Init => ColumnInv
  BY TypeInit, CasInit DEF ColumnInv
<1>2. ColumnInv /\ [Next]_vars => ColumnInv'
  BY TypeStep, CasStep DEF ColumnInv
<1>3. ColumnInv /\ [Next]_vars
        => [ \A j \in Jobs : status[j] = ForceFailed => status'[j] = ForceFailed ]_vars
  BY ColumnStep, NoWayOut DEF ColumnInv, TypeOK
<1> QED BY <1>1, <1>2, <1>3, PTL DEF Spec, ForceFailSticks
-----------------------------------------------------------------------------
(***************************************************************************)
(* What a job delivers, and what happens to it once.  The first argument   *)
(* is about provenance: what a message on a queue, a step of a handler and *)
(* a status each say has happened to the job before, or what its source    *)
(* cannot be.                                                              *)
(***************************************************************************)

Loaded(j) == file[j] = "rows" => loads[j] > 0

\* What a message tells of its job.
MessageDue(m) ==
  /\ m.kind \notin {"retry", "release"}
  /\ m.kind \in {"child", "classify", "parse", "parsing_completed", "load"}
       => file[m.job] \notin Archives
  /\ m.kind = "provide_password" => file[m.job] \in Archives
  /\ m.kind = "job_status_changed" /\ m.arg \in {NEEDS_PASSWORD, COMPLETED}
       => file[m.job] \in Archives
  /\ m.kind = "load" => file[m.job] # "dirty"
  /\ m.kind = "load" /\ m.arg = "none" => file[m.job] # "rows"
  /\ m.kind \in {"loading_completed", "report", "reporting_completed"} => Loaded(m.job)
  /\ m.kind = "reporting_completed" => reported[m.job]

\* What the step a handler has reached tells of its job.
HandlerDue(w) ==
  /\ pc[w] \in {"ask_password", "emit_needs_password", "emit_archive_done"}
       => file[Job(w)] \in Archives
  /\ pc[w] = "send_classify" => file[Job(w)] \notin Archives
  /\ pc[w] \in {"to_saving", "send_load"} => file[Job(w)] # "dirty"
  /\ pc[w] = "emit_loaded" => Loaded(Job(w))
  /\ pc[w] = "emit_reported" => reported[Job(w)]

\* What the row tells of its job.
RowDue(j) ==
  /\ status[j] = NEEDS_PASSWORD => file[j] \in Archives
  /\ status[j] = REPORTING => Loaded(j)
  /\ status[j] = COMPLETED => Loaded(j) /\ (file[j] \notin Archives => reported[j])
  /\ file[j] \in {"dirty"} \cup Archives => loads[j] = 0

\* While no user has asked for a retry or a release, all of them tell the truth.
Provenance ==
  spent["retry"] = 0 =>
    /\ \A m \in Message : queue[m] > 0 => MessageDue(m)
    /\ \A w \in Workers : MessageDue(msg[w]) /\ HandlerDue(w)
    /\ \A j \in Jobs : RowDue(j)
-----------------------------------------------------------------------------
(***************************************************************************)
(* What a step may change.                                                 *)
(***************************************************************************)

\* Loads and reports are never undone, a source does not change, and the use of a
\* bound is never taken back.
Grows ==
  /\ file' = file
  /\ \A j \in Jobs : loads'[j] >= loads[j] /\ (reported[j] => reported'[j])
  /\ \A b \in Budgets : spent'[b] >= spent[b]

LEMMA SpendGrows ==
  ASSUME DataOK, NEW b \in Budgets, NEW bound, Spend(b, bound)
  PROVE  /\ \A c \in Budgets : spent'[c] >= spent[c]
         /\ spent'[b] > 0
BY DEF DataOK, Spend

LEMMA StepGrows == TypeOK /\ [Next]_vars => Grows
<1> SUFFICES ASSUME TypeOK, [Next]_vars PROVE Grows
  OBVIOUS
<1>0. DataOK /\ WorkersOK
  BY DEF TypeOK
<1>a. \A j \in Jobs : loads[j] \in Nat /\ reported[j] \in BOOLEAN
  BY <1>0 DEF DataOK
<1>b. \A b \in Budgets : spent[b] \in Nat
  BY <1>0 DEF DataOK
<1>c. Budgets = {"redelivery", "crash", "send_failure", "retry", "force_fail", "password"}
  BY DEF Budgets
<1>1. ASSUME UNCHANGED <<file, effectVars, spent>> PROVE Grows
  BY <1>1, <1>a, <1>b DEF Grows, effectVars
<1>2. ASSUME UNCHANGED <<file, effectVars>>,
             NEW b \in Budgets, NEW bound, Spend(b, bound)
      PROVE  Grows
  BY <1>0, <1>2, <1>a, SpendGrows DEF Grows, effectVars
<1>3. ASSUME NEW w \in Workers, NEW m \in Message, Receive(w, m) PROVE Grows
  BY <1>1, <1>3 DEF Receive
<1>4. ASSUME NEW w \in Workers, Ack(w) \/ Nack(w) PROVE Grows
  BY <1>1, <1>4 DEF Ack, Nack
<1>5. ASSUME NEW w \in Workers, Redeliver(w) \/ Crash(w) \/ SendFails(w) PROVE Grows
  BY <1>2, <1>5, <1>c DEF Redeliver, Crash, SendFails
<1>6. ASSUME NEW w \in Workers, TransitionRead(w) \/ TransitionCas(w) \/ Send(w)
      PROVE  Grows
  BY <1>1, <1>6 DEF TransitionRead, TransitionCas, Send
<1>7. ASSUME NEW w \in Workers, NEW j \in Jobs,
             CreateJob(w, j) \/ CreateChildJob(w, j) \/ EntriesDone(j)
      PROVE  Grows
  BY <1>1, <1>7 DEF CreateJob, CreateChildJob, EntriesDone
<1>8. ASSUME NEW w \in Workers, NEW j \in Jobs,
             \/ ReleaseHold(w, j) \/ ForceFail(j) \/ ProvidePassword(j)
             \/ \E t \in RetryTargets : RetryJob(w, j, t)
      PROVE  Grows
  BY <1>2, <1>8, <1>c DEF ReleaseHold, ForceFail, ProvidePassword, RetryJob
<1>9. ASSUME NEW w \in Workers,
             IngestClaim(w) \/ IngestResolve(w) \/ AskPassword(w) \/ Probe(w)
      PROVE  Grows
  BY <1>1, <1>9 DEF IngestClaim, IngestResolve, AskPassword, Probe, Decide
<1>10. ASSUME NEW w \in Workers,
              \/ OnStatusChanged(w) \/ OnErrorOccurred(w) \/ OnParsingCompleted(w)
              \/ OnLoadingCompleted(w) \/ OnReportingCompleted(w)
              \/ Finalize(w) \/ SavePaths(w) \/ Parse(w)
       PROVE  Grows
  BY <1>1, <1>10 DEF OnStatusChanged, OnErrorOccurred, OnParsingCompleted,
     OnLoadingCompleted, OnReportingCompleted, Finalize, SavePaths, Parse, Decide
<1>11. ASSUME NEW w \in Workers, LoadRows(w) PROVE Grows
  <2>1. PICK outcome \in LoadOutcomes(msg[w].arg) :
          loads' = [loads EXCEPT ![Job(w)] = @ + outcome[1]]
    BY <1>11 DEF LoadRows
  <2>2. outcome[1] \in {0, 1}
    BY <2>1 DEF LoadOutcomes
  <2> QED BY <1>0, <1>11, <1>a, <1>b, <2>1, <2>2 DEF LoadRows, Grows, DataOK
<1>12. ASSUME NEW w \in Workers, GenerateReport(w) PROVE Grows
  <2>1. PICK outcome \in ReportOutcomes(msg[w].arg) :
          reported' = [reported EXCEPT ![Job(w)] = @ \/ outcome[1]]
    BY <1>12 DEF GenerateReport
  <2> QED BY <1>0, <1>12, <1>a, <1>b, <2>1 DEF GenerateReport, Grows, DataOK
<1>13. CASE UNCHANGED vars
  BY <1>1, <1>13 DEF vars
<1> QED
  BY <1>3, <1>4, <1>5, <1>6, <1>7, <1>8, <1>9, <1>10, <1>11, <1>12, <1>13
  DEF Next, Step, Fault, User

\* A message is put on a queue by a handler that gives back the one it has, by a send,
\* or by a user who submits a password.
LEMMA NewMessage ==
  ASSUME TypeOK, [Next]_vars, NEW m \in Message, queue'[m] > 0
  PROVE  \/ queue[m] > 0
         \/ \E w \in Workers : (Redeliver(w) \/ Nack(w) \/ Crash(w)) /\ m = msg[w]
         \/ \E w \in Workers : Send(w) /\ m = Outgoing(w)
         \/ m.kind = "provide_password" /\ status[m.job] = NEEDS_PASSWORD
         \/ m.kind = "job_status_changed" /\ file[m.job] \in Archives
<1> DEFINE Explained ==
      \/ queue[m] > 0
      \/ \E w \in Workers : (Redeliver(w) \/ Nack(w) \/ Crash(w)) /\ m = msg[w]
      \/ \E w \in Workers : Send(w) /\ m = Outgoing(w)
      \/ m.kind = "provide_password" /\ status[m.job] = NEEDS_PASSWORD
      \/ m.kind = "job_status_changed" /\ file[m.job] \in Archives
<1>0. DataOK /\ queue \in [Message -> Nat]
  BY DEF TypeOK, DataOK
<1>1. ASSUME UNCHANGED queue PROVE Explained
  BY <1>1
<1>2. ASSUME NEW n, Put(n) PROVE queue[m] > 0 \/ m = n
  BY <1>0, <1>2 DEF Put
<1>3. ASSUME NEW w \in Workers, NEW n \in Message, Receive(w, n) PROVE Explained
  BY <1>0, <1>3 DEF Receive
<1>4. ASSUME NEW w \in Workers, Redeliver(w) \/ Nack(w) \/ Crash(w) PROVE Explained
  BY <1>1, <1>2, <1>4 DEF Redeliver, Nack, Crash, GiveBack
<1>5. ASSUME NEW w \in Workers, Send(w) PROVE Explained
  BY <1>2, <1>5 DEF Send
<1>6. ASSUME NEW j \in Jobs, ProvidePassword(j) PROVE Explained
  BY <1>2, <1>6 DEF ProvidePassword
<1>7. ASSUME NEW w \in Workers,
             Ack(w) \/ TransitionRead(w) \/ TransitionCas(w) \/ SendFails(w)
      PROVE  Explained
  BY <1>1, <1>7 DEF Ack, TransitionRead, TransitionCas, SendFails
<1>12. ASSUME NEW j \in Jobs, EntriesDone(j) PROVE Explained
  BY <1>2, <1>12 DEF EntriesDone, Archives
<1>8. ASSUME NEW w \in Workers, NEW j \in Jobs,
             \/ CreateJob(w, j) \/ CreateChildJob(w, j) \/ ReleaseHold(w, j) \/ ForceFail(j)
             \/ \E t \in RetryTargets : RetryJob(w, j, t)
      PROVE  Explained
  BY <1>1, <1>8 DEF CreateJob, CreateChildJob, ReleaseHold, ForceFail, RetryJob
<1>9. ASSUME NEW w \in Workers,
             IngestClaim(w) \/ IngestResolve(w) \/ AskPassword(w) \/ Probe(w)
      PROVE  Explained
  BY <1>1, <1>9 DEF IngestClaim, IngestResolve, AskPassword, Probe, Decide
<1>10. ASSUME NEW w \in Workers,
              \/ OnStatusChanged(w) \/ OnErrorOccurred(w) \/ OnParsingCompleted(w)
              \/ OnLoadingCompleted(w) \/ OnReportingCompleted(w)
              \/ Finalize(w) \/ SavePaths(w) \/ Parse(w) \/ LoadRows(w) \/ GenerateReport(w)
       PROVE  Explained
  BY <1>1, <1>10 DEF OnStatusChanged, OnErrorOccurred, OnParsingCompleted,
     OnLoadingCompleted, OnReportingCompleted, Finalize, SavePaths, Parse, LoadRows,
     GenerateReport, Decide
<1>11. CASE UNCHANGED vars
  BY <1>1, <1>11 DEF vars
<1> QED
  BY <1>3, <1>4, <1>5, <1>6, <1>7, <1>8, <1>9, <1>10, <1>11, <1>12
  DEF Next, Step, Fault, User

\* A handler goes on with its message, ends, or starts on one from a queue or a call.
LEMMA NewHandler ==
  ASSUME TypeOK, [Next]_vars, NEW w \in Workers
  PROVE  \/ msg'[w] = msg[w] /\ (pc[w] = "ack" => pc'[w] = "ack")
         \/ msg'[w] = NoMessage /\ pc'[w] = "idle"
         \/ \E m \in Message :
              msg'[w] = m /\ queue[m] > 0 /\ pc[w] = "idle" /\ pc'[w] = Entry[m.kind]
         \/ \E j \in Jobs :
              /\ \/ msg'[w].kind = "create" /\ pc'[w] = "send_created"
                 \/ msg'[w].kind = "child" /\ pc'[w] = "send_child" /\ file[j] \notin Archives
              /\ msg'[w] \in Call /\ msg'[w].job = j
              /\ pc[w] = "idle" /\ status[j] = NoRow
         \/ spent'["retry"] > 0
<1> DEFINE Explained ==
      \/ msg'[w] = msg[w] /\ (pc[w] = "ack" => pc'[w] = "ack")
      \/ msg'[w] = NoMessage /\ pc'[w] = "idle"
      \/ \E m \in Message :
           msg'[w] = m /\ queue[m] > 0 /\ pc[w] = "idle" /\ pc'[w] = Entry[m.kind]
      \/ \E j \in Jobs :
           /\ \/ msg'[w].kind = "create" /\ pc'[w] = "send_created"
              \/ msg'[w].kind = "child" /\ pc'[w] = "send_child" /\ file[j] \notin Archives
           /\ msg'[w] \in Call /\ msg'[w].job = j
           /\ pc[w] = "idle" /\ status[j] = NoRow
      \/ spent'["retry"] > 0
<1>0. WorkersOK /\ DataOK /\ msg \in [Workers -> Message \cup Call \cup {NoMessage}]
        /\ pc \in [Workers -> Steps]
  BY DEF TypeOK, WorkersOK
<1>1. ASSUME UNCHANGED msg, UNCHANGED pc PROVE Explained
  BY <1>1
<1>13. ASSUME NEW v \in Workers, NEW step, Goto(v, step), UNCHANGED msg, pc[v] # "ack"
       PROVE  Explained
  BY <1>0, <1>13 DEF Goto
<1>2. ASSUME NEW v \in Workers, Finish(v) PROVE Explained
  BY <1>0, <1>2 DEF Finish, Goto
<1>3. ASSUME NEW v \in Workers, NEW n \in Message, Receive(v, n) PROVE Explained
  BY <1>0, <1>3 DEF Receive, Start, Goto, Idle
<1>4. ASSUME NEW v \in Workers, Ack(v) \/ Nack(v) \/ Crash(v) PROVE Explained
  BY <1>2, <1>4 DEF Ack, Nack, Crash
<1>5. ASSUME NEW v \in Workers, NEW j \in Jobs, CreateJob(v, j) PROVE Explained
  <2>1. [kind |-> "create", job |-> j, arg |-> "none"] \in Call
    BY DEF Call
  <2> QED BY <1>0, <1>5, <2>1 DEF CreateJob, RestCall, Start, Goto, Idle
<1>6. ASSUME NEW v \in Workers, NEW j \in Jobs, CreateChildJob(v, j) PROVE Explained
  <2>1. [kind |-> "child", job |-> j, arg |-> "none"] \in Call
    BY DEF Call
  <2> QED BY <1>0, <1>6, <2>1 DEF CreateChildJob, RestCall, Start, Goto, Idle
<1>7. ASSUME NEW v \in Workers, NEW j \in Jobs,
             ReleaseHold(v, j) \/ \E t \in RetryTargets : RetryJob(v, j, t)
      PROVE  Explained
  BY <1>0, <1>7, SpendGrows DEF ReleaseHold, RetryJob, Budgets
<1>8. ASSUME NEW v \in Workers,
             \/ Redeliver(v) \/ TransitionRead(v) \/ TransitionCas(v) \/ Send(v)
             \/ SendFails(v)
      PROVE  Explained
  <2>1. pc[v] \in DOMAIN TransitionCalls \cup DOMAIN SendCalls => pc[v] # "ack"
    BY DEF TransitionCalls, SendCalls
  <2> QED
    BY <1>1, <1>13, <1>8, <2>1
    DEF Redeliver, TransitionRead, TransitionCas, InTransition, Send, SendFails, AtSend
<1>9. ASSUME NEW j \in Jobs, ForceFail(j) \/ ProvidePassword(j) \/ EntriesDone(j)
      PROVE  Explained
  BY <1>1, <1>9 DEF ForceFail, ProvidePassword, EntriesDone, workerVars
<1>10. ASSUME NEW v \in Workers,
              IngestClaim(v) \/ IngestResolve(v) \/ AskPassword(v) \/ Probe(v)
       PROVE  Explained
  <2>1. pc[v] # "ack" /\ UNCHANGED msg /\ \E step : Goto(v, step)
    BY <1>10 DEF IngestClaim, IngestResolve, AskPassword, Probe, Decide, At
  <2> QED BY <1>13, <2>1
<1>11. ASSUME NEW v \in Workers,
              \/ OnStatusChanged(v) \/ OnErrorOccurred(v) \/ OnParsingCompleted(v)
              \/ OnLoadingCompleted(v) \/ OnReportingCompleted(v)
              \/ Finalize(v) \/ SavePaths(v) \/ Parse(v) \/ LoadRows(v) \/ GenerateReport(v)
       PROVE  Explained
  <2>1. pc[v] # "ack" /\ UNCHANGED msg /\ \E step : Goto(v, step)
    BY <1>11 DEF OnStatusChanged, OnErrorOccurred, OnParsingCompleted,
       OnLoadingCompleted, OnReportingCompleted, Finalize, SavePaths, Parse, LoadRows,
       GenerateReport, Decide, At
  <2> QED BY <1>13, <2>1
<1>12. CASE UNCHANGED vars
  BY <1>1, <1>12 DEF vars, workerVars
<1> QED
  BY <1>3, <1>4, <1>5, <1>6, <1>7, <1>8, <1>9, <1>10, <1>11, <1>12
  DEF Next, Step, Fault, User

\* The steps that tell something of the job, and the actions that lead to them.
Telling ==
  {"ask_password", "emit_needs_password", "emit_archive_done", "send_classify",
   "to_saving", "send_load", "emit_loaded", "emit_reported"}

LEMMA NewStep ==
  ASSUME TypeOK, [Next]_vars, NEW w \in Workers, pc'[w] \in Telling
  PROVE  /\ msg'[w] = msg[w]
         /\ \/ pc'[w] = pc[w]
            \/ IngestResolve(w) \/ AskPassword(w) \/ SavePaths(w) \/ TransitionCas(w)
            \/ LoadRows(w) \/ GenerateReport(w)
<1> DEFINE Explained ==
      /\ msg'[w] = msg[w]
      /\ \/ pc'[w] = pc[w]
         \/ IngestResolve(w) \/ AskPassword(w) \/ SavePaths(w) \/ TransitionCas(w)
         \/ LoadRows(w) \/ GenerateReport(w)
<1>0. msg \in [Workers -> Message \cup Call \cup {NoMessage}] /\ pc \in [Workers -> Steps]
  BY DEF TypeOK, WorkersOK
<1>1. ASSUME UNCHANGED msg, UNCHANGED pc PROVE Explained
  BY <1>1
<1>2. ASSUME NEW v \in Workers, NEW step, Goto(v, step), UNCHANGED msg, step \notin Telling
      PROVE  Explained
  BY <1>0, <1>2 DEF Goto
<1>3. ASSUME NEW v \in Workers, NEW n, NEW step, NEW held, Start(v, n, step, held),
             step \notin Telling
      PROVE  Explained
  BY <1>0, <1>3 DEF Start, Goto
<1>4. ASSUME NEW v \in Workers, Finish(v) PROVE Explained
  BY <1>0, <1>4 DEF Finish, Goto, Telling
<1>5. ASSUME NEW v \in Workers, NEW n \in Message, Receive(v, n) PROVE Explained
  <2>1. Entry[n.kind] \notin Telling
    BY EntryIsAStep DEF Entry, Telling, MessageKinds, BareKinds
  <2> QED BY <1>3, <1>5, <2>1 DEF Receive
<1>6. ASSUME NEW v \in Workers, Ack(v) \/ Nack(v) \/ Crash(v) PROVE Explained
  BY <1>4, <1>6 DEF Ack, Nack, Crash
<1>7. ASSUME NEW v \in Workers, NEW j \in Jobs,
             \/ CreateJob(v, j) \/ CreateChildJob(v, j) \/ ReleaseHold(v, j)
             \/ \E t \in RetryTargets : RetryJob(v, j, t)
      PROVE  Explained
  BY <1>3, <1>7 DEF CreateJob, CreateChildJob, ReleaseHold, RetryJob, RestCall, Telling
<1>8. ASSUME NEW v \in Workers, Redeliver(v) PROVE Explained
  BY <1>1, <1>8 DEF Redeliver
<1>9. ASSUME NEW v \in Workers, TransitionRead(v) PROVE Explained
  <2>1. Asked(v).threw \notin Telling
    BY <1>9 DEF TransitionRead, InTransition, Asked, TransitionCalls, TransitionCall, Telling
  <2> QED BY <1>1, <1>2, <1>9, <2>1 DEF TransitionRead
<1>10. ASSUME NEW v \in Workers, TransitionCas(v) PROVE Explained
  BY <1>0, <1>10 DEF TransitionCas, Goto
<1>11. ASSUME NEW v \in Workers, Send(v) \/ SendFails(v) PROVE Explained
  <2>1. SendCalls[pc[v]].sent \notin Telling /\ SendCalls[pc[v]].failed \cap Telling = {}
    BY <1>11 DEF Send, SendFails, AtSend, SendCalls, SendCall, Telling
  <2> QED BY <1>2, <1>11, <2>1 DEF Send, SendFails
<1>12. ASSUME NEW j \in Jobs, ForceFail(j) \/ ProvidePassword(j) \/ EntriesDone(j)
       PROVE  Explained
  BY <1>1, <1>12 DEF ForceFail, ProvidePassword, EntriesDone, workerVars
<1>13. ASSUME NEW v \in Workers,
              IngestResolve(v) \/ AskPassword(v) \/ SavePaths(v) \/ LoadRows(v)
                \/ GenerateReport(v)
       PROVE  Explained
  BY <1>0, <1>13 DEF IngestResolve, AskPassword, SavePaths, LoadRows, GenerateReport,
     Decide, Goto
<1>14. ASSUME NEW v \in Workers,
              \/ IngestClaim(v) \/ Probe(v) \/ Finalize(v) \/ Parse(v)
              \/ OnStatusChanged(v) \/ OnErrorOccurred(v) \/ OnParsingCompleted(v)
              \/ OnLoadingCompleted(v) \/ OnReportingCompleted(v)
       PROVE  Explained
  BY <1>2, <1>14 DEF IngestClaim, Probe, Finalize, Parse, OnStatusChanged, OnErrorOccurred,
     OnParsingCompleted, OnLoadingCompleted, OnReportingCompleted, Decide, Telling
<1>15. CASE UNCHANGED vars
  BY <1>1, <1>15 DEF vars, workerVars
<1> QED
  BY <1>5, <1>6, <1>7, <1>8, <1>9, <1>10, <1>11, <1>12, <1>13, <1>14, <1>15
  DEF Next, Step, Fault, User

\* A status comes from a transition, from the claim of an ingest, or from a user.
LEMMA NewStatus ==
  ASSUME TypeOK, [Next]_vars, NEW j \in Jobs
  PROVE  \/ status'[j] = status[j]
         \/ status[j] = NoRow /\ status'[j] = CREATED
         \/ status[j] \in Claimable /\ status'[j] = INGESTING
         \/ status[j] # NoRow /\ status'[j] = ForceFailed
         \/ \E w \in Workers :
              TransitionCas(w) /\ RowUnmoved(w) /\ Job(w) = j /\ status'[j] = Target(w)
<1> DEFINE Explained ==
      \/ status'[j] = status[j]
      \/ status[j] = NoRow /\ status'[j] = CREATED
      \/ status[j] \in Claimable /\ status'[j] = INGESTING
      \/ status[j] # NoRow /\ status'[j] = ForceFailed
      \/ \E w \in Workers :
           TransitionCas(w) /\ RowUnmoved(w) /\ Job(w) = j /\ status'[j] = Target(w)
<1>0. status \in [Jobs -> ColumnValues]
  BY DEF TypeOK, DataOK
<1>1. ASSUME UNCHANGED status PROVE Explained
  BY <1>1
<1>2. ASSUME NEW w \in Workers, TransitionCas(w) PROVE Explained
  <2>1. CASE UNCHANGED status
    BY <1>1, <2>1
  <2>2. CASE RowUnmoved(w) /\ status' = [status EXCEPT ![Job(w)] = Target(w)]
    BY <1>0, <1>2, <2>2
  <2> QED BY <1>2, <2>1, <2>2 DEF TransitionCas
<1>3. ASSUME NEW w \in Workers, IngestClaim(w) PROVE Explained
  BY <1>0, <1>3 DEF IngestClaim, Decide, rowVars
<1>4. ASSUME NEW w \in Workers, NEW i \in Jobs, CreateJob(w, i) \/ CreateChildJob(w, i)
      PROVE  Explained
  BY <1>0, <1>4 DEF CreateJob, CreateChildJob
<1>5. ASSUME NEW i \in Jobs, ForceFail(i) PROVE Explained
  BY <1>0, <1>5 DEF ForceFail
<1>6. ASSUME NEW w \in Workers,
             \/ \E m \in Message : Receive(w, m)
             \/ Redeliver(w) \/ Ack(w) \/ Nack(w) \/ Crash(w) \/ TransitionRead(w)
             \/ Send(w) \/ SendFails(w)
      PROVE  Explained
  BY <1>1, <1>6 DEF Receive, Redeliver, Ack, Nack, Crash, TransitionRead, Send, SendFails,
     rowVars
<1>7. ASSUME NEW w \in Workers, NEW i \in Jobs,
             \/ ReleaseHold(w, i) \/ ProvidePassword(i) \/ EntriesDone(i)
             \/ \E t \in RetryTargets : RetryJob(w, i, t)
      PROVE  Explained
  BY <1>1, <1>7 DEF ReleaseHold, RetryJob, ProvidePassword, EntriesDone, rowVars
<1>8. ASSUME NEW w \in Workers,
             \/ IngestResolve(w) \/ AskPassword(w) \/ Probe(w) \/ OnStatusChanged(w)
             \/ OnErrorOccurred(w) \/ OnParsingCompleted(w) \/ OnLoadingCompleted(w)
             \/ OnReportingCompleted(w)
      PROVE  Explained
  BY <1>1, <1>8 DEF IngestResolve, AskPassword, Probe, OnStatusChanged, OnErrorOccurred,
     OnParsingCompleted, OnLoadingCompleted, OnReportingCompleted, Decide, rowVars
<1>9. ASSUME NEW w \in Workers,
             Finalize(w) \/ SavePaths(w) \/ Parse(w) \/ LoadRows(w) \/ GenerateReport(w)
      PROVE  Explained
  BY <1>1, <1>9 DEF Finalize, SavePaths, Parse, LoadRows, GenerateReport, Decide, rowVars
<1>10. CASE UNCHANGED vars
  BY <1>1, <1>10 DEF vars, rowVars
<1> QED
  BY <1>2, <1>3, <1>4, <1>5, <1>6, <1>7, <1>8, <1>9, <1>10 DEF Next, Step, Fault, User

\* Only a load handler loads.
LEMMA NewLoad ==
  ASSUME TypeOK, [Next]_vars, NEW j \in Jobs
  PROVE  loads'[j] = loads[j] \/ \E w \in Workers : LoadRows(w) /\ Job(w) = j
<1> DEFINE Explained == loads'[j] = loads[j] \/ \E w \in Workers : LoadRows(w) /\ Job(w) = j
<1>0. loads \in [Jobs -> Nat]
  BY DEF TypeOK, DataOK
<1>1. ASSUME UNCHANGED loads PROVE Explained
  BY <1>1
<1>2. ASSUME NEW w \in Workers, LoadRows(w) PROVE Explained
  BY <1>0, <1>2 DEF LoadRows
<1>3. ASSUME NEW w \in Workers,
             \/ \E m \in Message : Receive(w, m)
             \/ Redeliver(w) \/ Ack(w) \/ Nack(w) \/ Crash(w) \/ TransitionRead(w)
             \/ TransitionCas(w) \/ Send(w) \/ SendFails(w)
      PROVE  Explained
  BY <1>1, <1>3 DEF Receive, Redeliver, Ack, Nack, Crash, TransitionRead, TransitionCas,
     Send, SendFails, effectVars
<1>4. ASSUME NEW w \in Workers, NEW i \in Jobs,
             \/ CreateJob(w, i) \/ CreateChildJob(w, i) \/ ReleaseHold(w, i)
             \/ ForceFail(i) \/ ProvidePassword(i) \/ EntriesDone(i)
             \/ \E t \in RetryTargets : RetryJob(w, i, t)
      PROVE  Explained
  BY <1>1, <1>4 DEF CreateJob, CreateChildJob, ReleaseHold, RetryJob, ForceFail,
     ProvidePassword, EntriesDone, effectVars
<1>5. ASSUME NEW w \in Workers,
             \/ IngestClaim(w) \/ IngestResolve(w) \/ AskPassword(w) \/ Probe(w)
             \/ OnStatusChanged(w) \/ OnErrorOccurred(w) \/ OnParsingCompleted(w)
             \/ OnLoadingCompleted(w) \/ OnReportingCompleted(w)
      PROVE  Explained
  BY <1>1, <1>5 DEF IngestClaim, IngestResolve, AskPassword, Probe, OnStatusChanged,
     OnErrorOccurred, OnParsingCompleted, OnLoadingCompleted, OnReportingCompleted, Decide,
     effectVars
<1>6. ASSUME NEW w \in Workers,
             Finalize(w) \/ SavePaths(w) \/ Parse(w) \/ GenerateReport(w)
      PROVE  Explained
  BY <1>1, <1>6 DEF Finalize, SavePaths, Parse, GenerateReport, Decide, effectVars
<1>7. CASE UNCHANGED vars
  BY <1>1, <1>7 DEF vars, effectVars
<1> QED
  BY <1>2, <1>3, <1>4, <1>5, <1>6, <1>7 DEF Next, Step, Fault, User
-----------------------------------------------------------------------------
(***************************************************************************)
(* Provenance is inductive together with TypeOK.                           *)
(***************************************************************************)

\* What has been told of a job stays true.
LEMMA MessageStaysDue ==
  ASSUME TypeOK, TypeOK', Grows, NEW m \in Message \cup Call \cup {NoMessage}, MessageDue(m)
  PROVE  MessageDue(m)'
<1>1. m.kind # "idle" => m.job \in Jobs
  BY MessageFields
<1>2. ASSUME NEW j \in Jobs, Loaded(j) PROVE Loaded(j)'
  BY <1>2 DEF Grows, Loaded, TypeOK, DataOK
<1>3. ASSUME NEW j \in Jobs, reported[j] PROVE reported'[j]
  BY <1>3 DEF Grows
<1>4. file' = file
  BY DEF Grows
<1>5. m.kind \in {"loading_completed", "report", "reporting_completed"} => Loaded(m.job)'
  BY <1>1, <1>2 DEF MessageDue
<1>6. m.kind = "reporting_completed" => reported'[m.job]
  BY <1>1, <1>3 DEF MessageDue
<1> QED BY <1>4, <1>5, <1>6 DEF MessageDue

LEMMA SendKinds ==
  ASSUME NEW k \in Kinds, NEW p \in StepsOf[k]
  PROVE  /\ p = "send_child" => k = "child"
         /\ p = "send_parse" => k = "classify"
         /\ p = "emit_parsed" => k = "parse"
         /\ p \in {"emit_archive_done", "emit_needs_password", "send_classify"} => k = "ingest"
         /\ p = "send_load" => k = "parsing_completed"
         /\ p = "emit_loaded" => k = "load"
         /\ p = "send_report" => k = "loading_completed"
         /\ p = "emit_reported" => k = "report"
         /\ p = "send_retry" => k = "retry"
         /\ p = "send_release" => k = "release"
BY DEF Kinds, MessageKinds, BareKinds, StepsOf

\* A handler only sends what is true of its job.
LEMMA OutgoingDue ==
  ASSUME TypeOK, Provenance, spent["retry"] = 0, NEW w \in Workers, AtSend(w)
  PROVE  MessageDue(Outgoing(w))
<1> DEFINE k == msg[w].kind
           j == Job(w)
<1>1. k \in Kinds /\ pc[w] \in StepsOf[k]
  BY WorkerTyped DEF TypeOK
<1>2. MessageDue(msg[w]) /\ HandlerDue(w) /\ j = msg[w].job
  BY DEF Provenance, Job
<1>3. pc[w] \notin {"send_retry", "send_release"}
  BY <1>1, <1>2, SendKinds DEF MessageDue
<1>4. Outgoing(w).job = j /\ Outgoing(w).kind = SendCalls[pc[w]].kind
  BY <1>3 DEF Outgoing, AtSend, SendCalls, SendCall
<1>5. SendCalls[pc[w]].arg # "output_paths" => Outgoing(w).arg = SendCalls[pc[w]].arg
  BY DEF Outgoing
<1>6. CASE pc[w] \in {"send_created", "send_again", "emit_detect_error", "emit_parse_error",
                      "emit_load_error", "emit_report_error"}
  BY <1>4, <1>6 DEF MessageDue, SendCalls, SendCall
<1>7. CASE pc[w] \in {"emit_archive_failed", "emit_ingest_failed", "emit_gate_failed",
                      "emit_parse_failed", "emit_parse_rethrow"}
  <2>1. SendCalls[pc[w]].kind = "job_status_changed" /\ SendCalls[pc[w]].arg = FAILED
    BY <1>7 DEF SendCalls, SendCall
  <2>2. FAILED \notin {NEEDS_PASSWORD, COMPLETED, "output_paths"}
    BY DEF FAILED, NEEDS_PASSWORD, COMPLETED
  <2> QED BY <1>4, <1>5, <2>1, <2>2 DEF MessageDue
<1>8. CASE pc[w] \in {"emit_archive_done", "emit_needs_password"}
  BY <1>2, <1>4, <1>8 DEF HandlerDue, MessageDue, SendCalls, SendCall
<1>9. CASE pc[w] \in {"send_child", "send_classify", "send_parse", "emit_parsed"}
  <2>1. file[j] \notin Archives
    BY <1>1, <1>2, <1>9, SendKinds DEF HandlerDue, MessageDue
  <2> QED BY <1>4, <1>9, <2>1 DEF MessageDue, SendCalls, SendCall
<1>10. CASE pc[w] = "send_load"
  <2>1. file[j] \notin Archives /\ file[j] # "dirty"
    BY <1>1, <1>2, <1>10, SendKinds DEF HandlerDue, MessageDue
  <2>2. Outgoing(w).arg = IF file[j] = "empty" THEN "none" ELSE "paths"
    BY <1>10 DEF Outgoing, SendCalls, SendCall
  <2> QED BY <1>4, <1>10, <2>1, <2>2 DEF MessageDue, SendCalls, SendCall
<1>11. CASE pc[w] \in {"emit_loaded", "send_report"}
  <2>1. Loaded(j)
    BY <1>1, <1>2, <1>11, SendKinds DEF HandlerDue, MessageDue
  <2> QED BY <1>4, <1>11, <2>1 DEF MessageDue, SendCalls, SendCall
<1>12. CASE pc[w] = "emit_reported"
  <2>1. Loaded(j) /\ reported[j]
    BY <1>1, <1>2, <1>12, SendKinds DEF HandlerDue, MessageDue
  <2> QED BY <1>4, <1>12, <2>1 DEF MessageDue, SendCalls, SendCall
<1>13. pc[w] \in
         {"send_created", "send_again", "emit_detect_error", "emit_parse_error",
          "emit_load_error", "emit_report_error", "emit_archive_failed",
          "emit_ingest_failed", "emit_gate_failed", "emit_parse_failed",
          "emit_parse_rethrow", "emit_archive_done", "emit_needs_password", "send_child",
          "send_classify", "send_parse", "emit_parsed", "send_load", "emit_loaded",
          "send_report", "emit_reported"}
  BY <1>3 DEF AtSend, SendCalls
<1> QED BY <1>6, <1>7, <1>8, <1>9, <1>10, <1>11, <1>12, <1>13

\* Every message on a queue after a step.
LEMMA MessagesStep ==
  ASSUME TypeOK, Provenance, [Next]_vars, spent["retry"] = 0,
         NEW m \in Message, queue'[m] > 0
  PROVE  MessageDue(m)'
<1>1. CASE queue[m] > 0
  BY <1>1, TypeStep, StepGrows, MessageStaysDue DEF Provenance
<1>2. CASE \E w \in Workers : (Redeliver(w) \/ Nack(w) \/ Crash(w)) /\ m = msg[w]
  BY <1>2, TypeStep, StepGrows, MessageStaysDue DEF Provenance
<1>3. CASE \E w \in Workers : Send(w) /\ m = Outgoing(w)
  <2>1. MessageDue(m)
    BY <1>3, OutgoingDue DEF Send
  <2> QED BY <2>1, TypeStep, StepGrows, MessageStaysDue
<1>4. CASE m.kind = "provide_password" /\ status[m.job] = NEEDS_PASSWORD
  <2>1. m.job \in Jobs
    BY <1>4, MessageFields
  <2>2. file[m.job] \in Archives
    BY <1>4, <2>1 DEF Provenance, RowDue
  <2>3. MessageDue(m)
    BY <1>4, <2>2 DEF MessageDue
  <2> QED BY <2>3, TypeStep, StepGrows, MessageStaysDue
<1>5. CASE m.kind = "job_status_changed" /\ file[m.job] \in Archives
  <2>1. MessageDue(m)
    BY <1>5 DEF MessageDue
  <2> QED BY <2>1, TypeStep, StepGrows, MessageStaysDue
<1> QED BY <1>1, <1>2, <1>3, <1>4, <1>5, NewMessage

\* The message of every handler after a step.
LEMMA HandlersStep ==
  ASSUME TypeOK, TypeOK', Provenance, [Next]_vars, spent["retry"] = 0, spent'["retry"] = 0,
         NEW w \in Workers
  PROVE  MessageDue(msg[w])'
<1>0. Grows
  BY StepGrows
<1>1. PICK m \in Message \cup Call \cup {NoMessage} : m = msg'[w]
  BY DEF TypeOK, WorkersOK
<1>2. MessageDue(m)
  <2>1. CASE msg'[w] = msg[w]
    BY <1>1, <2>1 DEF Provenance
  <2>2. CASE msg'[w] = NoMessage
    BY <1>1, <2>2 DEF NoMessage, MessageDue
  <2>3. CASE \E n \in Message : msg'[w] = n /\ queue[n] > 0
    BY <1>1, <2>3 DEF Provenance
  <2>4. CASE \E j \in Jobs :
               /\ \/ msg'[w].kind = "create"
                  \/ msg'[w].kind = "child" /\ file[j] \notin Archives
               /\ msg'[w].job = j
    BY <1>1, <2>4 DEF MessageDue
  <2> QED BY <2>1, <2>2, <2>3, <2>4, NewHandler
<1>3. MessageDue(m)'
  BY <1>0, <1>2, MessageStaysDue
<1> QED BY <1>1, <1>3 DEF MessageDue, Loaded

\* The step of every handler after a step.
LEMMA TellsStep ==
  ASSUME TypeOK, TypeOK', Provenance, [Next]_vars, spent["retry"] = 0, NEW w \in Workers
  PROVE  HandlerDue(w)'
<1>j. PICK j : j = msg[w].job
  OBVIOUS
<1>0. Grows /\ HandlerDue(w) /\ MessageDue(msg[w])
  BY StepGrows DEF Provenance
<1>1. CASE pc'[w] \notin Telling
  BY <1>1 DEF HandlerDue, Telling
<1>2. CASE pc'[w] \in Telling
  <2>1. msg'[w] = msg[w]
    BY <1>2, NewStep
  <2>2. Job(w) = j /\ Job(w)' = j
    BY <1>j, <2>1 DEF Job
  <2>3. pc[w] # "idle" => j \in Jobs
    BY <2>2, WorkerTyped DEF Idle, TypeOK
  <2>4. ASSUME j \in Jobs
        PROVE  /\ file'[j] = file[j]
               /\ Loaded(j) => Loaded(j)'
               /\ reported[j] => reported'[j]
    <3>1. loads[j] \in Nat /\ loads'[j] \in Nat /\ loads'[j] >= loads[j]
      BY <1>0, <2>4 DEF Grows, TypeOK, DataOK
    <3> QED BY <1>0, <2>4, <3>1 DEF Grows, Loaded
  <2> DEFINE Told ==
        /\ pc'[w] \in {"ask_password", "emit_needs_password", "emit_archive_done"}
             => file[j] \in Archives
        /\ pc'[w] = "send_classify" => file[j] \notin Archives
        /\ pc'[w] \in {"to_saving", "send_load"} => file[j] # "dirty"
        /\ pc'[w] = "emit_loaded" => Loaded(j)'
        /\ pc'[w] = "emit_reported" => reported'[j]
  <2>5. ASSUME pc'[w] = pc[w] PROVE Told
    BY <1>0, <1>2, <2>2, <2>3, <2>4, <2>5 DEF HandlerDue, Telling
  <2>6. ASSUME IngestResolve(w) PROVE Told
    <3>1. pc'[w] \in IngestOutcomes(file[j])
      BY <2>2, <2>6 DEF IngestResolve, Decide, Goto, TypeOK, WorkersOK
    <3> QED BY <3>1 DEF IngestOutcomes
  <2>7. ASSUME AskPassword(w) PROVE Told
    <3>1. pc'[w] \in {"emit_ingest_failed", "emit_needs_password"}
      BY <2>7 DEF AskPassword, Decide, Goto, TypeOK, WorkersOK
    <3>2. file[j] \in Archives
      BY <1>0, <2>2, <2>7 DEF AskPassword, At, HandlerDue
    <3> QED BY <3>1, <3>2
  <2>8. ASSUME SavePaths(w) PROVE Told
    <3>1. PICK found \in BOOLEAN : pc'[w] = AfterMerge(file[j], found)
      BY <2>2, <2>8 DEF SavePaths, Goto, TypeOK, WorkersOK
    <3> QED BY <3>1 DEF AfterMerge
  <2>9. ASSUME TransitionCas(w) PROVE Told
    <3>1. pc[w] \in DOMAIN TransitionCalls
            /\ (pc'[w] = Asked(w).won \/ pc'[w] = Asked(w).lost)
      BY <2>9 DEF TransitionCas, InTransition, Result, Goto, TypeOK, WorkersOK
    <3>2. pc[w] = "to_saving" /\ pc'[w] = "send_load"
      BY <1>2, <3>1 DEF Asked, TransitionCalls, TransitionCall, Telling
    <3> QED BY <1>0, <2>2, <3>2 DEF HandlerDue
  <2>10. ASSUME LoadRows(w) PROVE Told
    <3>1. PICK outcome \in LoadOutcomes(msg[w].arg) :
            /\ loads' = [loads EXCEPT ![j] = @ + outcome[1]]
            /\ pc'[w] = outcome[2]
      BY <2>2, <2>10 DEF LoadRows, Goto, TypeOK, WorkersOK
    <3>2. pc[w] = "load_rows" /\ j \in Jobs
      BY <2>3, <2>10 DEF LoadRows, At
    <3>3. ASSUME pc'[w] = "emit_loaded" PROVE Told
      <4>1. CASE msg[w].arg = "none"
        <5>1. msg[w].kind = "load"
          BY <3>2, WorkerTyped, StepKinds DEF TypeOK
        <5>2. file[j] # "rows"
          BY <1>0, <1>j, <4>1, <5>1 DEF MessageDue
        <5> QED BY <2>4, <3>2, <3>3, <5>2 DEF Loaded
      <4>2. CASE msg[w].arg # "none"
        <5>1. \/ outcome = <<1, "emit_loaded">>
              \/ outcome = <<0, "emit_load_error">>
              \/ outcome = <<1, "emit_load_error">>
          BY <3>1, <4>2 DEF LoadOutcomes
        <5>2. outcome[1] = 1
          <6>1. outcome[2] = "emit_loaded"
            BY <3>1, <3>3
          <6>2. outcome = <<0, "emit_load_error">> => outcome[2] = "emit_load_error"
            OBVIOUS
          <6>3. outcome = <<1, "emit_load_error">> => outcome[2] = "emit_load_error"
            OBVIOUS
          <6>4. outcome = <<1, "emit_loaded">> => outcome[1] = 1
            OBVIOUS
          <6> QED BY <5>1, <6>1, <6>2, <6>3, <6>4
        <5>3. loads'[j] > 0
          BY <3>1, <3>2, <5>2 DEF TypeOK, DataOK
        <5> QED BY <3>3, <5>3 DEF Loaded
      <4> QED BY <4>1, <4>2
    <3>4. ASSUME pc'[w] = "emit_load_error" PROVE Told
      BY <3>4
    <3> QED BY <3>1, <3>3, <3>4 DEF LoadOutcomes
  <2>11. ASSUME GenerateReport(w) PROVE Told
    <3>1. PICK outcome \in ReportOutcomes(msg[w].arg) :
            /\ reported' = [reported EXCEPT ![j] = @ \/ outcome[1]]
            /\ pc' = [pc EXCEPT ![w] = outcome[2]]
      BY <2>2, <2>11 DEF GenerateReport, Goto
    <3>2. j \in Jobs
      BY <2>3, <2>11 DEF GenerateReport, At
    <3>3. pc'[w] = outcome[2]
      BY <3>1 DEF TypeOK, WorkersOK
    <3>4. \/ outcome = <<TRUE, "emit_reported">>
          \/ outcome = <<TRUE, "emit_report_error">>
          \/ outcome = <<FALSE, "emit_report_error">>
      BY <3>1 DEF ReportOutcomes
    <3>5. outcome = <<TRUE, "emit_reported">> => reported'[j]
      <4> SUFFICES ASSUME outcome = <<TRUE, "emit_reported">> PROVE reported'[j]
        OBVIOUS
      <4>1. outcome[1] = TRUE
        OBVIOUS
      <4>2. reported' = [reported EXCEPT ![j] = reported[j] \/ TRUE]
        BY <3>1, <4>1
      <4> QED BY <3>2, <4>2 DEF TypeOK, DataOK
    <3>6. outcome = <<TRUE, "emit_reported">> \/ pc'[w] = "emit_report_error"
      <4>1. outcome = <<TRUE, "emit_report_error">> => outcome[2] = "emit_report_error"
        OBVIOUS
      <4>2. outcome = <<FALSE, "emit_report_error">> => outcome[2] = "emit_report_error"
        OBVIOUS
      <4> QED BY <3>3, <3>4, <4>1, <4>2
    <3>7. CASE outcome = <<TRUE, "emit_reported">>
      BY <3>3, <3>5, <3>7
    <3>8. CASE pc'[w] = "emit_report_error"
      BY <3>8
    <3> QED BY <3>6, <3>7, <3>8
  <2>12. Told
    BY <1>2, <2>5, <2>6, <2>7, <2>8, <2>9, <2>10, <2>11, NewStep
  <2>13. file' = file
    BY <1>0 DEF Grows
  <2> QED BY <2>2, <2>12, <2>13 DEF HandlerDue, Loaded
<1> QED BY <1>1, <1>2

\* Every row after a step.
LEMMA RowsStep ==
  ASSUME TypeOK, TypeOK', Provenance, [Next]_vars, spent["retry"] = 0, NEW j \in Jobs
  PROVE  RowDue(j)'
<1>0. Grows /\ RowDue(j)
  BY StepGrows DEF Provenance
<1>1. /\ file'[j] = file[j]
      /\ Loaded(j) => Loaded(j)'
      /\ reported[j] => reported'[j]
  BY <1>0 DEF Grows, Loaded, TypeOK, DataOK
<1>2. file[j] \in {"dirty"} \cup Archives => loads'[j] = 0
  <2>1. ASSUME NEW w \in Workers, LoadRows(w), Job(w) = j
        PROVE  file[j] \notin {"dirty"} \cup Archives
    <3>1. msg[w].kind = "load"
      BY <2>1, WorkerTyped, StepKinds DEF LoadRows, At, TypeOK
    <3> QED BY <2>1, <3>1 DEF Provenance, MessageDue, Job
  <2> QED BY <1>0, <2>1, NewLoad DEF RowDue
<1> DEFINE Told(s) ==
      /\ s = NEEDS_PASSWORD => file[j] \in Archives
      /\ s = REPORTING => Loaded(j)
      /\ s = COMPLETED => Loaded(j) /\ (file[j] \notin Archives => reported[j])
<1>3. Told(status'[j])
  <2>1. CASE status'[j] = status[j]
    BY <1>0, <2>1 DEF RowDue
  <2>2. CASE status'[j] \in {CREATED, INGESTING, ForceFailed}
    BY <2>2 DEF CREATED, INGESTING, ForceFailed, NEEDS_PASSWORD, REPORTING, COMPLETED
  <2>3. ASSUME NEW w \in Workers, TransitionCas(w), Job(w) = j PROVE Told(Target(w))
    <3>1. pc[w] \in DOMAIN TransitionCalls
      BY <2>3 DEF TransitionCas, InTransition
    <3>2. msg[w].kind \in Kinds /\ pc[w] \in StepsOf[msg[w].kind]
      BY WorkerTyped DEF TypeOK
    <3>3. MessageDue(msg[w]) /\ msg[w].job = j
      BY <2>3 DEF Provenance, Job
    <3>4. CASE pc[w] = "apply_status"
      <4>1. msg[w].kind = "job_status_changed"
        BY <3>2, <3>4, StepKinds
      <4>2. Target(w) = msg[w].arg
        BY <3>4 DEF Target, Asked, TransitionCalls, TransitionCall
      <4>3. msg[w].arg \in {NEEDS_PASSWORD, COMPLETED, FAILED}
        BY <4>1, MessageFields DEF TypeOK, WorkersOK
      <4>4. msg[w].arg \in {NEEDS_PASSWORD, COMPLETED} => file[j] \in Archives
        BY <3>3, <4>1 DEF MessageDue
      <4>5. FAILED \notin {NEEDS_PASSWORD, REPORTING, COMPLETED}
              /\ REPORTING \notin {NEEDS_PASSWORD, COMPLETED}
        BY DEF FAILED, NEEDS_PASSWORD, REPORTING, COMPLETED
      <4> QED BY <4>2, <4>3, <4>4, <4>5 DEF Loaded, Archives
    <3>5. CASE pc[w] = "to_reporting"
      <4>1. msg[w].kind = "loading_completed"
        BY <3>2, <3>5, StepKinds
      <4>2. Loaded(j)
        BY <3>3, <4>1 DEF MessageDue
      <4>3. Target(w) = REPORTING
        BY <3>5 DEF Target, Asked, TransitionCalls, TransitionCall, REPORTING
      <4> QED BY <4>2, <4>3 DEF REPORTING, NEEDS_PASSWORD, COMPLETED
    <3>6. CASE pc[w] = "to_completed"
      <4>1. msg[w].kind = "reporting_completed"
        BY <3>2, <3>6, StepKinds
      <4>2. Loaded(j) /\ reported[j]
        BY <3>3, <4>1 DEF MessageDue
      <4>3. Target(w) = COMPLETED
        BY <3>6 DEF Target, Asked, TransitionCalls, TransitionCall, COMPLETED
      <4> QED BY <4>2, <4>3 DEF REPORTING, NEEDS_PASSWORD, COMPLETED
    <3>7. CASE pc[w] = "retry"
      BY <3>2, <3>3, <3>7, StepKinds DEF MessageDue
    <3>8. CASE pc[w] \notin {"apply_status", "to_reporting", "to_completed", "retry"}
      <4>1. TransitionCalls[pc[w]].to \in
              {FAILED, MERGING_OUTPUT, ON_HOLD, SAVING_TO_DATABASE, DETECTING, PARSING}
        BY <3>1, <3>8 DEF TransitionCalls, TransitionCall
      <4>2. Target(w) = TransitionCalls[pc[w]].to
        BY <4>1 DEF Target, Asked, FAILED, MERGING_OUTPUT, ON_HOLD, SAVING_TO_DATABASE,
           DETECTING, PARSING
      <4> QED
        BY <4>1, <4>2 DEF FAILED, MERGING_OUTPUT, ON_HOLD, SAVING_TO_DATABASE, DETECTING, PARSING,
           NEEDS_PASSWORD, REPORTING, COMPLETED
    <3> QED BY <3>4, <3>5, <3>6, <3>7, <3>8
  <2> QED BY <2>1, <2>2, <2>3, NewStatus
<1> QED BY <1>1, <1>2, <1>3 DEF RowDue, Loaded

LEMMA ProvenanceInit == Init => Provenance
<1> SUFFICES ASSUME Init PROVE Provenance
  OBVIOUS
<1>1. ASSUME NEW m \in Message PROVE ~(queue[m] > 0)
  BY <1>1 DEF Init
<1>2. ASSUME NEW w \in Workers PROVE MessageDue(msg[w]) /\ HandlerDue(w)
  BY <1>2 DEF Init, NoMessage, MessageDue, HandlerDue
<1>3. ASSUME NEW j \in Jobs PROVE RowDue(j)
  BY <1>3 DEF Init, RowDue, NoRow, NEEDS_PASSWORD, REPORTING, COMPLETED
<1> QED BY <1>1, <1>2, <1>3 DEF Provenance

LEMMA ProvenanceStep == TypeOK /\ Provenance /\ [Next]_vars => Provenance'
<1> SUFFICES ASSUME TypeOK, Provenance, [Next]_vars, spent'["retry"] = 0
             PROVE  /\ \A m \in Message : queue'[m] > 0 => MessageDue(m)'
                    /\ \A w \in Workers : MessageDue(msg[w])' /\ HandlerDue(w)'
                    /\ \A j \in Jobs : RowDue(j)'
  BY DEF Provenance
<1>1. TypeOK'
  BY TypeStep
<1>2. spent["retry"] = 0
  BY StepGrows DEF Grows, Budgets, TypeOK, DataOK
<1> QED BY <1>1, <1>2, MessagesStep, HandlersStep, TellsStep, RowsStep

\* What messages, handlers and rows say of their jobs is true, in every reachable state.
THEOREM ProvenanceHolds == Spec => []Provenance
<1>1. Init => TypeOK /\ Provenance
  BY TypeInit, ProvenanceInit
<1>2. TypeOK /\ Provenance /\ [Next]_vars => (TypeOK /\ Provenance)'
  BY TypeStep, ProvenanceStep
<1> QED BY <1>1, <1>2, PTL DEF Spec

\* A job that nobody retried or released reaches REPORTING, if its lines parse, only with
\* its rows loaded, and COMPLETED only with its report written, for any number of jobs and
\* handlers, whatever is delivered twice, wherever handlers die and sends fail.
THEOREM Delivered == Spec => []DeliveredBeforeDone
<1>1. Provenance => DeliveredBeforeDone
  BY DEF Provenance, RowDue, Loaded, DeliveredBeforeDone
<1> QED BY <1>1, ProvenanceHolds, PTL

\* While nobody retries or releases it, no row of a job that the quality gate stops is
\* loaded, by whatever handler, message or redelivery.
THEOREM HeldBack == Spec => []HeldRowsStayOut
<1>1. Provenance => HeldRowsStayOut
  BY DEF Provenance, RowDue, HeldRowsStayOut
<1> QED BY <1>1, ProvenanceHolds, PTL

-----------------------------------------------------------------------------
(***************************************************************************)
(* What happens to a job once.  A job has one token, which goes from its   *)
(* missing row to the handler that creates it and with the ingest and      *)
(* classify messages to the handler of detect; from the parse message on   *)
(* it is with the row while the status is PARSING, then with the one       *)
(* finalizer whose compare-and-set takes the row out of PARSING, and with  *)
(* the load message it comes to the load.  No event carries it, so events  *)
(* may come as often as they like.                                         *)
(***************************************************************************)
\* Nothing can have repeated a load message.
LoadTracked == "load" \notin Redeliverable /\ spent["send_failure"] = 0

TokenKinds == {"ingest", "classify"} \cup (IF LoadTracked THEN {"load"} ELSE {})

\* Before the parse is asked for a handler keeps the token until it acknowledges: its
\* message returns when the send of its error fails.
EarlyKinds == {"create", "child", "ingest", "classify"}

EarlyHandler(w, j) == msg[w].kind \in EarlyKinds /\ pc[w] # "ack" /\ Job(w) = j

Early(j) ==
  \/ \E w \in Workers : EarlyHandler(w, j)
  \/ \E m \in Message : m.kind \in {"ingest", "classify"} /\ m.job = j /\ queue[m] > 0

LateSteps == Finalizing \cup (IF LoadTracked THEN {"load_rows"} ELSE {})

\* Where the token of job j can be.
HandlerHas(w, j) == EarlyHandler(w, j) \/ (pc[w] \in LateSteps /\ Job(w) = j)
MessageHas(m, j) == m.kind \in TokenKinds /\ m.job = j /\ queue[m] > 0
RowHas(j)        == status[j] = NoRow \/ (status[j] = PARSING /\ ~Early(j))
LoadHas(j)       == LoadTracked /\ loads[j] > 0

OneToken(j) ==
  /\ \A v, w \in Workers : HandlerHas(v, j) /\ HandlerHas(w, j) => v = w
  /\ \A m, n \in Message : MessageHas(m, j) /\ MessageHas(n, j) => m = n /\ queue[m] = 1
  /\ \A w \in Workers, m \in Message : ~(HandlerHas(w, j) /\ MessageHas(m, j))
  /\ RowHas(j) \/ LoadHas(j) =>
       /\ \A w \in Workers : ~HandlerHas(w, j)
       /\ \A m \in Message : ~MessageHas(m, j)
  /\ ~(RowHas(j) /\ LoadHas(j))
  /\ LoadTracked => loads[j] <= 1

\* A job that still has its token early has no parse, nor the end of one, under way.
ParseKinds == {"parse", "parsing_completed"}

Unparsed(j) ==
  /\ \A w \in Workers : msg[w].kind \in ParseKinds => Job(w) # j
  /\ \A m \in Message : m.kind \in ParseKinds /\ m.job = j => queue[m] = 0

ParsedLate(j) == Early(j) \/ status[j] = NoRow => Unparsed(j)

\* A failed load is given back to the queue only after a send of its error failed.
LoadsAcked ==
  LoadTracked => \A w \in Workers : msg[w].kind = "load" => pc[w] # "nack"

\* The jobs of archives have no rows of their own; they are never finalized or loaded.
Tokens ==
  (/\ "ingest" \notin Redeliverable /\ "classify" \notin Redeliverable
   /\ spent["retry"] = 0 /\ spent["crash"] = 0) =>
     /\ \A j \in Jobs : file[j] \notin Archives => OneToken(j) /\ ParsedLate(j)
     /\ LoadsAcked

TokenInv == ColumnInv /\ Provenance /\ Tokens
-----------------------------------------------------------------------------
(***************************************************************************)
(* How the token moves.                                                    *)
(***************************************************************************)
OthersStay(w) == \A v \in Workers \ {w} : pc'[v] = pc[v] /\ msg'[v] = msg[v]

LEMMA TrackedStays == TypeOK /\ Grows /\ TypeOK' /\ LoadTracked' => LoadTracked
<1> SUFFICES ASSUME TypeOK, TypeOK', Grows, spent'["send_failure"] = 0
             PROVE  spent["send_failure"] = 0
  BY DEF LoadTracked
<1>1. /\ spent["send_failure"] \in Nat /\ spent'["send_failure"] \in Nat
      /\ spent'["send_failure"] >= spent["send_failure"]
  BY DEF TypeOK, DataOK, Grows, Budgets
<1> QED BY <1>1

\* With its token in one place, the job has none in another.
LEMMA Alone ==
  ASSUME NEW j \in Jobs, OneToken(j)
  PROVE  /\ \A w \in Workers : HandlerHas(w, j) =>
              /\ \A v \in Workers \ {w} : ~HandlerHas(v, j)
              /\ \A m \in Message : ~MessageHas(m, j)
              /\ ~RowHas(j) /\ ~LoadHas(j)
         /\ \A m \in Message : MessageHas(m, j) =>
              /\ \A n \in Message \ {m} : ~MessageHas(n, j)
              /\ queue[m] = 1
              /\ \A w \in Workers : ~HandlerHas(w, j)
              /\ ~RowHas(j) /\ ~LoadHas(j)
BY DEF OneToken

\* What another handler has, it had before.
LEMMA OthersHave ==
  ASSUME TypeOK, TypeOK', LoadTracked' => LoadTracked, NEW j \in Jobs,
         NEW w \in Workers, OthersStay(w), NEW v \in Workers \ {w}, HandlerHas(v, j)'
  PROVE  HandlerHas(v, j)
BY DEF OthersStay, HandlerHas, EarlyHandler, LateSteps, Finalizing, Job

\* While the token stays early, the row does not have it.
LEMMA EarlyKept ==
  ASSUME NEW j, NEW w \in Workers, OthersStay(w),
         \A m \in Message : queue[m] > 0 => queue'[m] > 0,
         EarlyHandler(w, j) => EarlyHandler(w, j)'
  PROVE  Early(j) => Early(j)'
<1>1. ASSUME NEW v \in Workers, EarlyHandler(v, j) PROVE EarlyHandler(v, j)'
  <2>1. CASE v = w
    BY <1>1, <2>1
  <2>2. CASE v # w
    BY <1>1, <2>2 DEF OthersStay, EarlyHandler, Job
  <2> QED BY <2>1, <2>2
<1> QED BY <1>1 DEF Early

LEMMA RowStays ==
  ASSUME NEW j, Early(j) => Early(j)', status'[j] = status[j]
  PROVE  RowHas(j)' => RowHas(j)
BY DEF RowHas

\* A step after which no place has a token that it did not have before.
LEMMA TokenStays ==
  ASSUME NEW j \in Jobs, OneToken(j),
         TypeOK, TypeOK', LoadTracked' => LoadTracked,
         \A w \in Workers : HandlerHas(w, j)' => HandlerHas(w, j),
         \A m \in Message : MessageHas(m, j)' => MessageHas(m, j) /\ queue'[m] <= queue[m],
         RowHas(j)' => RowHas(j),
         LoadTracked' => loads'[j] = loads[j]
  PROVE  OneToken(j)'
<1>1. LoadHas(j)' => LoadHas(j)
  BY DEF LoadHas
<1>2. ASSUME NEW m \in Message, NEW n \in Message, MessageHas(m, j)', MessageHas(n, j)'
      PROVE  m = n /\ queue'[m] = 1
  <2>1. MessageHas(m, j) /\ MessageHas(n, j) /\ queue'[m] <= queue[m]
    BY <1>2
  <2>2. m = n /\ queue[m] = 1
    BY <2>1 DEF OneToken
  <2>3. queue'[m] > 0 /\ queue'[m] \in Nat
    BY <1>2 DEF MessageHas, TypeOK, DataOK
  <2> QED BY <2>1, <2>2, <2>3
<1>3. LoadTracked' => loads'[j] <= 1
  BY DEF OneToken
<1> QED BY <1>1, <1>2, <1>3 DEF OneToken

\* A step after which handler w alone has it.
LEMMA TokenWithHandler ==
  ASSUME NEW j \in Jobs, NEW w \in Workers,
         \A v \in Workers \ {w} : ~HandlerHas(v, j)',
         \A m \in Message : ~MessageHas(m, j)',
         ~RowHas(j)', ~LoadHas(j)', LoadTracked' => loads'[j] <= 1
  PROVE  OneToken(j)'
BY DEF OneToken

\* A step after which message m alone has it.
LEMMA TokenWithMessage ==
  ASSUME NEW j \in Jobs, NEW m \in Message,
         \A v \in Workers : ~HandlerHas(v, j)',
         \A n \in Message \ {m} : ~MessageHas(n, j)',
         queue'[m] = 1,
         ~RowHas(j)', ~LoadHas(j)', LoadTracked' => loads'[j] <= 1
  PROVE  OneToken(j)'
BY DEF OneToken

\* A step after which the row or the load alone has it.
LEMMA TokenAtRest ==
  ASSUME NEW j \in Jobs,
         \A v \in Workers : ~HandlerHas(v, j)',
         \A m \in Message : ~MessageHas(m, j)',
         ~(RowHas(j)' /\ LoadHas(j)'), LoadTracked' => loads'[j] <= 1
  PROVE  OneToken(j)'
BY DEF OneToken
-----------------------------------------------------------------------------
(***************************************************************************)
(* One token, step by step.                                                *)
(***************************************************************************)

\* What the steps below may assume of job j and of the step.
Context(j) ==
  /\ TypeOK /\ CasTargetsValid /\ Provenance /\ LoadsAcked
  /\ "ingest" \notin Redeliverable /\ "classify" \notin Redeliverable
  /\ spent["retry"] = 0
  /\ j \in Jobs /\ file[j] \notin Archives /\ OneToken(j) /\ ParsedLate(j)

\* Fewer kinds of message and fewer steps can have the token than before.
LEMMA TokenSets ==
  ASSUME TypeOK, TypeOK', Grows
  PROVE  /\ LoadTracked' => LoadTracked
         /\ LateSteps' \subseteq LateSteps /\ TokenKinds' \subseteq TokenKinds
BY TrackedStays DEF LateSteps, TokenKinds, Finalizing

LEMMA EndsNotLate == {"ack", "nack", "idle"} \cap LateSteps = {}
BY DEF LateSteps, Finalizing

\* A handler that goes to a step without the token, or had the token already.
LEMMA GotoStays ==
  ASSUME TypeOK, TypeOK', Grows, NEW j, NEW w \in Workers, NEW step,
         Goto(w, step), UNCHANGED msg, pc[w] # "ack",
         step \in LateSteps => pc[w] \in LateSteps
  PROVE  \A v \in Workers : HandlerHas(v, j)' => HandlerHas(v, j)
BY TokenSets DEF Goto, HandlerHas, EarlyHandler, Job, TypeOK, WorkersOK

\* A handler that ends.
LEMMA FinishStays ==
  ASSUME TypeOK, TypeOK', Grows, NEW j, NEW w \in Workers, Finish(w)
  PROVE  /\ \A v \in Workers : HandlerHas(v, j)' => HandlerHas(v, j)
         /\ ~HandlerHas(w, j)' /\ OthersStay(w)
<1>1. OthersStay(w) /\ pc'[w] = "idle" /\ msg'[w].kind = "idle"
  BY DEF Finish, Goto, OthersStay, NoMessage, TypeOK, WorkersOK
<1>2. ~HandlerHas(w, j)'
  BY <1>1, TokenSets, EndsNotLate DEF HandlerHas, EarlyHandler, EarlyKinds
<1>3. ASSUME NEW v \in Workers \ {w}, HandlerHas(v, j)' PROVE HandlerHas(v, j)
  BY <1>1, <1>3, TokenSets DEF OthersStay, HandlerHas, EarlyHandler, Job
<1> QED BY <1>1, <1>2, <1>3

LEMMA QueueStays ==
  ASSUME TypeOK, TypeOK', Grows, NEW j, UNCHANGED queue
  PROVE  \A m \in Message : MessageHas(m, j)' => MessageHas(m, j) /\ queue'[m] <= queue[m]
BY TokenSets DEF MessageHas, TypeOK, DataOK

\* A message is put on a queue that does not carry the token.
LEMMA PutStays ==
  ASSUME TypeOK, TypeOK', Grows, NEW j, NEW n, Put(n),
         n \in Message => n.kind \notin TokenKinds \/ n.job # j
  PROVE  \A m \in Message : MessageHas(m, j)' => MessageHas(m, j) /\ queue'[m] <= queue[m]
BY TokenSets DEF Put, MessageHas, TypeOK, DataOK

LEMMA PutGrows ==
  ASSUME TypeOK, NEW n, Put(n)
  PROVE  \A m \in Message : queue[m] > 0 => queue'[m] > 0
BY DEF Put, TypeOK, DataOK

\* The token is lost when the handler that had it early ends; the row may have it then.
LEMMA TokenLost ==
  ASSUME NEW j, Context(j), TypeOK', Grows, NEW w \in Workers, HandlerHas(w, j),
         ~HandlerHas(w, j)', \A v \in Workers : HandlerHas(v, j)' => HandlerHas(v, j),
         \A m \in Message : MessageHas(m, j)' => MessageHas(m, j),
         UNCHANGED loads
  PROVE  OneToken(j)'
<1>1. /\ \A v \in Workers : ~HandlerHas(v, j)'
      /\ \A m \in Message : ~MessageHas(m, j)'
  BY Alone DEF Context
<1>2. LoadTracked' => LoadTracked
  BY TokenSets DEF Context
<1>3. ~LoadHas(j)' /\ (LoadTracked' => loads'[j] <= 1)
  BY <1>2, Alone DEF LoadHas, Context, OneToken
<1> QED BY <1>1, <1>3, TokenAtRest DEF Context

\* Steps of a handler that writes neither the row's status nor a queue nor a load.
LEMMA QuietGoto ==
  ASSUME NEW j, Context(j), TypeOK', Grows, NEW w \in Workers, NEW step, Goto(w, step),
         UNCHANGED <<msg, queue, status, loads>>, pc[w] # "ack",
         step \in LateSteps => pc[w] \in LateSteps
  PROVE  OneToken(j)'
<1>1. \A v \in Workers : HandlerHas(v, j)' => HandlerHas(v, j)
  BY GotoStays DEF Context
<1>2. \A m \in Message : MessageHas(m, j)' => MessageHas(m, j) /\ queue'[m] <= queue[m]
  BY QueueStays DEF Context
<1>3. OthersStay(w) /\ pc'[w] = step /\ msg'[w] = msg[w]
  BY DEF OthersStay, Goto, Context, TypeOK, WorkersOK
<1>4. CASE EarlyHandler(w, j) /\ step = "ack"
  <2>1. HandlerHas(w, j)
    BY <1>4 DEF HandlerHas
  <2>2. ~HandlerHas(w, j)'
    BY <1>3, <1>4, TokenSets, EndsNotLate DEF HandlerHas, EarlyHandler, Context
  <2> QED BY <1>1, <1>2, <2>1, <2>2, TokenLost
<1>5. CASE ~(EarlyHandler(w, j) /\ step = "ack")
  <2>1. EarlyHandler(w, j) => EarlyHandler(w, j)'
    BY <1>3, <1>5 DEF EarlyHandler, Job
  <2>2. Early(j) => Early(j)'
    BY <1>3, <2>1, EarlyKept
  <2>3. RowHas(j)' => RowHas(j)
    BY <2>2, RowStays
  <2> QED BY <1>1, <1>2, <2>3, TokenSets, TokenStays DEF Context
<1> QED BY <1>4, <1>5

\* A message is taken from its queue, with its token if it has one.
LEMMA TokenReceive ==
  ASSUME NEW j, Context(j), TypeOK', Grows, NEW w \in Workers, NEW m \in Message,
         Receive(w, m)
  PROVE  OneToken(j)'
<1>0. /\ Goto(w, Entry[m.kind]) /\ pc[w] = "idle" /\ msg' = [msg EXCEPT ![w] = m]
      /\ queue[m] > 0 /\ queue' = [queue EXCEPT ![m] = @ - 1]
      /\ status' = status /\ loads' = loads
  BY DEF Receive, Start, Idle, rowVars, effectVars
<1>1. OthersStay(w) /\ pc'[w] = Entry[m.kind] /\ Job(w)' = m.job /\ msg'[w] = m
  BY <1>0 DEF OthersStay, Goto, Job, Context, TypeOK, WorkersOK
<1>2. LoadTracked' => LoadTracked
  BY TokenSets DEF Context
<1>3. \A n \in Message : queue'[n] <= queue[n] /\ (n # m => queue'[n] = queue[n])
  BY <1>0 DEF Context, TypeOK, DataOK
<1>4. \A n \in Message : MessageHas(n, j)' => MessageHas(n, j)
  <2>1. \A n \in Message : queue'[n] > 0 => queue[n] > 0
    BY <1>0, <1>3 DEF Context, TypeOK, DataOK
  <2> QED BY <2>1, TokenSets DEF MessageHas, Context
<1>10. m.kind \in MessageKinds /\ Entry[m.kind] # "ack"
  BY EntryIsAStep DEF Entry, MessageKinds, BareKinds
<1>5. RowHas(j)' => RowHas(j)
  <2>1. msg[w].kind = "idle"
    BY <1>0, WorkerTyped, StepKinds DEF Context, TypeOK
  <2>2. ASSUME NEW v \in Workers, EarlyHandler(v, j) PROVE EarlyHandler(v, j)'
    <3>1. v # w
      BY <2>1, <2>2 DEF EarlyHandler, EarlyKinds
    <3> QED BY <1>1, <2>2, <3>1 DEF OthersStay, EarlyHandler, Job
  <2>3. ASSUME NEW n \in Message, n.kind \in {"ingest", "classify"}, n.job = j, queue[n] > 0
        PROVE  Early(j)'
    <3>1. CASE n = m
      <4>1. EarlyHandler(w, j)'
        BY <1>1, <1>10, <2>3, <3>1 DEF EarlyHandler, EarlyKinds
      <4> QED BY <4>1 DEF Early
    <3>2. CASE n # m
      BY <1>3, <2>3, <3>2 DEF Early
    <3> QED BY <3>1, <3>2
  <2>4. Early(j) => Early(j)'
    BY <2>2, <2>3 DEF Early
  <2> QED BY <1>0, <2>4, RowStays
<1>6. ASSUME NEW v \in Workers \ {w}, HandlerHas(v, j)' PROVE HandlerHas(v, j)
  BY <1>1, <1>2, <1>6, OthersHave DEF Context
<1>7. CASE MessageHas(m, j)
  <2>1. queue'[m] = 0
    BY <1>0, <1>7, Alone DEF Context, TypeOK, DataOK
  <2>2. \A n \in Message : ~MessageHas(n, j)'
    BY <1>4, <1>7, <2>1, Alone DEF MessageHas, Context
  <2>3. ~RowHas(j)' /\ ~LoadHas(j)'
    BY <1>0, <1>2, <1>5, <1>7, Alone DEF LoadHas, Context
  <2>4. LoadTracked' => loads'[j] <= 1
    BY <1>0, <1>2 DEF Context, OneToken
  <2> QED BY <1>6, <1>7, <2>2, <2>3, <2>4, Alone, TokenWithHandler DEF Context
<1>8. CASE ~MessageHas(m, j)
  <2>1. HandlerHas(w, j)' => m.kind \in TokenKinds /\ m.job = j
    <3>1. EarlyHandler(w, j)' => m.kind \in {"ingest", "classify"} /\ m.job = j
      BY <1>1, <1>10 DEF EarlyHandler, EarlyKinds, MessageKinds, BareKinds
    <3>2. Entry[m.kind] \in LateSteps => m.kind \in TokenKinds
      BY <1>10 DEF MessageKinds, BareKinds, Entry, LateSteps, TokenKinds, Finalizing
    <3>3. pc'[w] \in LateSteps' => m.kind \in TokenKinds
      BY <1>1, <3>2, TokenSets DEF Context
    <3> QED BY <1>1, <3>1, <3>3 DEF HandlerHas, TokenKinds
  <2>2. ~HandlerHas(w, j)'
    BY <1>0, <1>8, <2>1 DEF MessageHas
  <2>3. \A v \in Workers : HandlerHas(v, j)' => HandlerHas(v, j)
    BY <1>6, <2>2
  <2> QED BY <1>0, <1>2, <1>3, <1>4, <1>5, <2>3, TokenStays DEF Context
<1> QED BY <1>7, <1>8

\* A message that goes back to its queue takes the token of its handler with it, if it
\* has one.
LEMMA TokenGivenBack ==
  ASSUME NEW j, Context(j), TypeOK', Grows, NEW w \in Workers, Redeliver(w) \/ Nack(w)
  PROVE  OneToken(j)'
<1>0. msg[w].kind \in Kinds /\ pc[w] \in StepsOf[msg[w].kind]
  BY WorkerTyped DEF Context, TypeOK
<1>1. status' = status /\ loads' = loads
  BY DEF Redeliver, Nack, rowVars, effectVars
<1>2. Put(msg[w]) \/ UNCHANGED queue
  BY DEF Redeliver, Nack, GiveBack
<1>3. \A v \in Workers : HandlerHas(v, j)' => HandlerHas(v, j)
  <2>1. CASE Redeliver(w)
    BY <2>1, TokenSets DEF Redeliver, HandlerHas, EarlyHandler, Job, Context
  <2>2. CASE Nack(w)
    BY <2>2, FinishStays DEF Nack, Context
  <2> QED BY <2>1, <2>2
<1>4. \A m \in Message : queue[m] > 0 => queue'[m] > 0
  BY <1>2, PutGrows DEF Context
<1>5. LoadTracked' => LoadTracked
  BY TokenSets DEF Context
<1>6. CASE Nack(w) /\ EarlyHandler(w, j)
  <2>1. HandlerHas(w, j) /\ ~HandlerHas(w, j)'
    BY <1>6, FinishStays DEF HandlerHas, Nack, Context
  <2>2. CASE UNCHANGED queue
    <3>1. \A m \in Message : MessageHas(m, j)' => MessageHas(m, j)
      BY <2>2, QueueStays DEF Context
    <3> QED BY <1>1, <1>3, <2>1, <3>1, TokenLost
  <2>3. CASE Put(msg[w]) /\ msg[w] \notin Message
    <3>1. \A m \in Message : MessageHas(m, j)' => MessageHas(m, j)
      BY <2>3, PutStays DEF Context
    <3> QED BY <1>1, <1>3, <2>1, <3>1, TokenLost
  <2>4. CASE Put(msg[w]) /\ msg[w] \in Message
    <3>1. PICK m \in Message : m = msg[w]
      BY <2>4
    <3>2. m.kind \in {"ingest", "classify"} /\ m.job = j
      BY <1>6, <3>1, EntryIsAStep
      DEF EarlyHandler, EarlyKinds, Job, MessageKinds, BareKinds
    <3>3. /\ \A v \in Workers : ~HandlerHas(v, j)'
          /\ \A n \in Message : ~MessageHas(n, j)
          /\ ~RowHas(j) /\ ~LoadHas(j)
      BY <1>3, <2>1, Alone DEF Context
    <3>4. queue[m] = 0
      BY <3>2, <3>3 DEF MessageHas, TokenKinds, Context, TypeOK, DataOK
    <3>5. queue'[m] = 1 /\ \A n \in Message \ {m} : queue'[n] = queue[n]
      BY <2>4, <3>1, <3>4 DEF Put, Context, TypeOK, DataOK
    <3>6. \A n \in Message \ {m} : ~MessageHas(n, j)'
      BY <3>3, <3>5, TokenSets DEF MessageHas, Context
    <3>7. Early(j)'
      BY <3>2, <3>5 DEF Early
    <3>8. ~RowHas(j)' /\ ~LoadHas(j)'
      BY <1>1, <1>5, <3>3, <3>7 DEF RowHas, LoadHas
    <3>9. LoadTracked' => loads'[j] <= 1
      BY <1>1, <1>5 DEF Context, OneToken
    <3> QED BY <3>3, <3>5, <3>6, <3>8, <3>9, TokenWithMessage DEF Context
  <2> QED BY <1>2, <2>2, <2>3, <2>4
<1>7. CASE ~(Nack(w) /\ EarlyHandler(w, j))
  <2>1. msg[w] \in Message => msg[w].kind \notin TokenKinds \/ msg[w].job # j
    <3>1. CASE Redeliver(w)
      BY <3>1 DEF Redeliver, Context, TokenKinds, LoadTracked
    <3>2. CASE Nack(w)
      <4>1. msg[w].kind = "load" => ~LoadTracked
        BY <3>2 DEF Nack, Context, LoadsAcked
      <4>2. msg[w].job = j => msg[w].kind \notin {"ingest", "classify"}
        BY <1>7, <3>2 DEF Nack, EarlyHandler, EarlyKinds, Job
      <4> QED BY <4>1, <4>2 DEF TokenKinds
    <3> QED BY <3>1, <3>2
  <2>2. \A m \in Message : MessageHas(m, j)' => MessageHas(m, j) /\ queue'[m] <= queue[m]
    <3>1. CASE Put(msg[w])
      BY <2>1, <3>1, PutStays DEF Context
    <3>2. CASE UNCHANGED queue
      BY <3>2, QueueStays DEF Context
    <3> QED BY <1>2, <3>1, <3>2
  <2>3. Early(j) => Early(j)'
    <3>1. CASE Redeliver(w)
      <4>1. pc' = pc /\ msg' = msg
        BY <3>1 DEF Redeliver
      <4>2. OthersStay(w) /\ (EarlyHandler(w, j) => EarlyHandler(w, j)')
        BY <4>1 DEF OthersStay, EarlyHandler, Job
      <4> QED BY <1>4, <4>2, EarlyKept
    <3>2. CASE Nack(w)
      <4>1. OthersStay(w)
        BY <3>2, FinishStays DEF Nack, Context
      <4> QED BY <1>4, <1>7, <3>2, <4>1, EarlyKept
    <3> QED BY <3>1, <3>2
  <2>4. RowHas(j)' => RowHas(j)
    BY <1>1, <2>3, RowStays
  <2> QED BY <1>1, <1>3, <1>5, <2>2, <2>4, TokenStays DEF Context
<1> QED BY <1>6, <1>7

\* A handler that has the token sends the message that takes it on; what other
\* handlers send has no token.
LEMMA TokenSend ==
  ASSUME NEW j, Context(j), TypeOK', Grows, NEW w \in Workers, Send(w)
  PROVE  OneToken(j)'
<1> DEFINE m == Outgoing(w)
<1>0. /\ Put(m) /\ Goto(w, SendCalls[pc[w]].sent) /\ AtSend(w)
      /\ status' = status /\ loads' = loads /\ msg' = msg /\ spent' = spent
  BY DEF Send, rowVars, effectVars
<1>1. m \in Message
  BY <1>0, OutgoingTyped DEF Context
<1>2. /\ msg[w].kind \in Kinds /\ pc[w] \in StepsOf[msg[w].kind]
      /\ MessageDue(msg[w])
  BY WorkerTyped DEF Context, TypeOK, Provenance
<1>3. m.job = Job(w)
  BY DEF Outgoing
<1>4. /\ SendCalls[pc[w]].sent \notin LateSteps
      /\ pc[w] # "ack"
  BY <1>0 DEF AtSend, SendCalls, SendCall, LateSteps, Finalizing
<1>11. OthersStay(w) /\ pc'[w] = SendCalls[pc[w]].sent /\ msg'[w] = msg[w]
  BY <1>0 DEF OthersStay, Goto, Context, TypeOK, WorkersOK
<1>12. EarlyHandler(w, j) => SendCalls[pc[w]].sent = "ack"
  <2>1. SendCalls[pc[w]].sent # "ack"
          => pc[w] \in {"emit_parse_error", "emit_parse_rethrow"}
    BY <1>0 DEF AtSend, SendCalls, SendCall
  <2>2. pc[w] \in {"emit_parse_error", "emit_parse_rethrow"} => msg[w].kind \notin EarlyKinds
    BY <1>2 DEF StepsOf, EarlyKinds
  <2> QED BY <2>1, <2>2 DEF EarlyHandler
<1>5. m.kind \in TokenKinds /\ m.job = j =>
        \/ EarlyHandler(w, j) /\ m.kind \in {"ingest", "classify"}
        \/ ~EarlyHandler(w, j) /\ pc[w] = "send_load" /\ pc[w] \in LateSteps
  <2>1. m.kind = SendCalls[pc[w]].kind
    <3>1. pc[w] # "send_retry"
      BY <1>2, SendKinds DEF MessageDue
    <3> QED BY <1>0, <3>1 DEF Outgoing, AtSend, SendCalls, SendCall
  <2>2. SendCalls[pc[w]].kind \in {"ingest", "classify"}
          => pc[w] \in {"send_created", "send_child", "send_classify", "send_again"}
    BY <1>0 DEF AtSend, SendCalls, SendCall
  <2>3. SendCalls[pc[w]].kind = "load" => pc[w] \in {"send_load", "send_release"}
    BY <1>0 DEF AtSend, SendCalls, SendCall
  <2>4. pc[w] = "send_again" => m.job # j
    <3>1. pc[w] = "send_again" => msg[w].kind = "provide_password"
      BY <1>2 DEF Kinds, MessageKinds, BareKinds, StepsOf
    <3> QED BY <1>2, <1>3, <3>1 DEF MessageDue, Job, Context
  <2>5. pc[w] # "send_release"
    BY <1>2, SendKinds DEF MessageDue
  <2>6. pc[w] \in {"send_created", "send_child", "send_classify"} => msg[w].kind \in EarlyKinds
    BY <1>2 DEF Kinds, MessageKinds, BareKinds, StepsOf, EarlyKinds
  <2>7. pc[w] = "send_load" => msg[w].kind \notin EarlyKinds /\ pc[w] \in LateSteps
    BY <1>2, SendKinds DEF EarlyKinds, LateSteps, Finalizing
  <2>8. SUFFICES ASSUME m.kind \in TokenKinds, m.job = j
                 PROVE  \/ EarlyHandler(w, j) /\ m.kind \in {"ingest", "classify"}
                        \/ ~EarlyHandler(w, j) /\ pc[w] = "send_load" /\ pc[w] \in LateSteps
    OBVIOUS
  <2>9. m.kind \in {"ingest", "classify", "load"}
    BY <2>8 DEF TokenKinds
  <2>10. CASE m.kind \in {"ingest", "classify"}
    BY <1>3, <1>4, <2>1, <2>2, <2>4, <2>6, <2>8, <2>10 DEF EarlyHandler
  <2>11. CASE m.kind = "load"
    BY <2>1, <2>3, <2>5, <2>7, <2>11 DEF EarlyHandler
  <2> QED BY <2>9, <2>10, <2>11
<1>6. \A v \in Workers : HandlerHas(v, j)' => HandlerHas(v, j)
  BY <1>0, <1>4, GotoStays DEF Context
<1>7. ~EarlyHandler(w, j) => (RowHas(j)' => RowHas(j))
  <2>1. \A n \in Message : queue[n] > 0 => queue'[n] > 0
    BY <1>0, PutGrows DEF Context
  <2> QED BY <1>0, <1>11, <2>1, EarlyKept, RowStays
<1>8. LoadTracked' => LoadTracked
  BY TokenSets DEF Context
<1>13. EarlyHandler(w, j) => HandlerHas(w, j) /\ ~HandlerHas(w, j)'
  <2>1. EarlyHandler(w, j) => pc'[w] = "ack"
    BY <1>11, <1>12
  <2> QED BY <2>1, TokenSets, EndsNotLate DEF HandlerHas, EarlyHandler, Context
<1>9. CASE m.kind \in TokenKinds /\ m.job = j
  <2>1. HandlerHas(w, j)
    BY <1>3, <1>5, <1>9 DEF HandlerHas
  <2>2. ~HandlerHas(w, j)'
    <3>1. CASE EarlyHandler(w, j)
      BY <1>13, <3>1
    <3>2. CASE ~EarlyHandler(w, j)
      <4>1. ~EarlyHandler(w, j)'
        BY <1>4, <1>11, <3>2 DEF EarlyHandler, Job
      <4> QED BY <1>4, <1>11, <4>1, TokenSets DEF HandlerHas, Context
    <3> QED BY <3>1, <3>2
  <2>3. queue[m] = 0
    BY <1>1, <1>9, <2>1, Alone DEF MessageHas, Context, TypeOK, DataOK
  <2>4. queue'[m] = 1 /\ \A n \in Message \ {m} : queue'[n] = queue[n]
    BY <1>0, <1>1, <2>3 DEF Put, Context, TypeOK, DataOK
  <2>5. \A n \in Message \ {m} : ~MessageHas(n, j)'
    BY <2>1, <2>4, Alone, TokenSets DEF MessageHas, Context
  <2>6. \A v \in Workers : ~HandlerHas(v, j)'
    BY <1>6, <2>1, <2>2, Alone DEF Context
  <2>7. ~RowHas(j)' /\ ~LoadHas(j)'
    <3>1. ~RowHas(j) /\ ~LoadHas(j)
      BY <2>1, Alone DEF Context
    <3>2. CASE EarlyHandler(w, j)
      <4>1. m.kind \in {"ingest", "classify"}
        BY <1>5, <1>9, <3>2
      <4>2. Early(j)'
        BY <1>1, <1>9, <2>4, <4>1 DEF Early
      <4> QED BY <1>0, <1>8, <3>1, <4>2 DEF RowHas, LoadHas
    <3>3. CASE ~EarlyHandler(w, j)
      BY <1>0, <1>7, <1>8, <3>1, <3>3 DEF LoadHas
    <3> QED BY <3>2, <3>3
  <2>8. LoadTracked' => loads'[j] <= 1
    BY <1>0, <1>8 DEF Context, OneToken
  <2>9. PICK n \in Message : n = m
    BY <1>1
  <2>10. queue'[n] = 1 /\ \A i \in Message \ {n} : ~MessageHas(i, j)'
    BY <2>4, <2>5, <2>9
  <2> QED BY <2>6, <2>7, <2>8, <2>10, TokenWithMessage DEF Context
<1>10. CASE ~(m.kind \in TokenKinds /\ m.job = j)
  <2>1. PICK n \in Message : n = m
    BY <1>1
  <2>2. \A i \in Message : MessageHas(i, j)' => MessageHas(i, j) /\ queue'[i] <= queue[i]
    BY <1>0, <1>10, <2>1, PutStays DEF Context
  <2>3. CASE EarlyHandler(w, j)
    BY <1>0, <1>6, <1>13, <2>2, <2>3, TokenLost
  <2>4. CASE ~EarlyHandler(w, j)
    BY <1>0, <1>6, <1>7, <1>8, <2>2, <2>4, TokenStays DEF Context
  <2> QED BY <2>3, <2>4
<1> QED BY <1>9, <1>10

\* The row that is missing gives its token to the handler that inserts it.
LEMMA TokenCreate ==
  ASSUME NEW j, Context(j), TypeOK', Grows, NEW w \in Workers, NEW i \in Jobs,
         CreateJob(w, i) \/ CreateChildJob(w, i)
  PROVE  OneToken(j)'
<1>0. /\ status[i] = NoRow /\ status' = [status EXCEPT ![i] = CREATED]
      /\ queue' = queue /\ loads' = loads /\ pc[w] = "idle"
      /\ \E step : Goto(w, step)
      /\ \E kind : msg' = [msg EXCEPT ![w] = [kind |-> kind, job |-> i, arg |-> "none"]]
  BY DEF CreateJob, CreateChildJob, RestCall, Start, Idle, effectVars
<1>1. OthersStay(w) /\ Job(w)' = i
  BY <1>0 DEF OthersStay, Goto, Job, Context, TypeOK, WorkersOK
<1>2. LoadTracked' => LoadTracked
  BY TokenSets DEF Context
<1>3. ASSUME NEW v \in Workers \ {w}, HandlerHas(v, j)' PROVE HandlerHas(v, j)
  BY <1>1, <1>2, <1>3, OthersHave DEF Context
<1>4. \A m \in Message : MessageHas(m, j)' => MessageHas(m, j) /\ queue'[m] <= queue[m]
  BY <1>0, QueueStays DEF Context
<1>5. CREATED \notin {NoRow, PARSING}
  BY DEF CREATED, NoRow, PARSING
<1>6. CASE i = j
  <2>1. RowHas(j)
    BY <1>0, <1>6 DEF RowHas
  <2>2. ~RowHas(j)'
    BY <1>0, <1>5, <1>6 DEF RowHas, Context, TypeOK, DataOK
  <2>3. ~LoadHas(j)' /\ (LoadTracked' => loads'[j] <= 1)
    BY <1>0, <1>2, <2>1 DEF LoadHas, Context, OneToken
  <2>4. /\ \A v \in Workers \ {w} : ~HandlerHas(v, j)'
        /\ \A m \in Message : ~MessageHas(m, j)'
    BY <1>3, <1>4, <2>1 DEF Context, OneToken
  <2> QED BY <2>2, <2>3, <2>4, TokenWithHandler DEF Context
<1>7. CASE i # j
  <2>1. ~HandlerHas(w, j)'
    BY <1>1, <1>7 DEF HandlerHas, EarlyHandler
  <2>2. ~EarlyHandler(w, j)
    <3>1. msg[w].kind = "idle"
      BY <1>0, WorkerTyped, StepKinds DEF Context, TypeOK
    <3> QED BY <3>1 DEF EarlyHandler, EarlyKinds
  <2>3. RowHas(j)' => RowHas(j)
    <3>1. status'[j] = status[j]
      BY <1>0, <1>7 DEF Context, TypeOK, DataOK
    <3>2. Early(j) => Early(j)'
      BY <1>0, <1>1, <2>2, EarlyKept
    <3> QED BY <3>1, <3>2, RowStays
  <2> QED BY <1>0, <1>2, <1>3, <1>4, <2>1, <2>3, TokenStays DEF Context
<1> QED BY <1>6, <1>7

\* The handler of a load gives its token to the load.
LEMMA TokenLoad ==
  ASSUME NEW j, Context(j), TypeOK', Grows, NEW w \in Workers, LoadRows(w)
  PROVE  OneToken(j)'
<1>0. /\ pc[w] = "load_rows" /\ status' = status /\ queue' = queue /\ msg' = msg
      /\ spent' = spent
  BY DEF LoadRows, At, rowVars
<1>1. PICK outcome \in LoadOutcomes(msg[w].arg) :
        loads' = [loads EXCEPT ![Job(w)] = @ + outcome[1]] /\ Goto(w, outcome[2])
  BY DEF LoadRows
<1>2. outcome[1] \in {0, 1} /\ outcome[2] \in {"emit_loaded", "emit_load_error"}
  BY <1>1 DEF LoadOutcomes
<1>3. outcome[2] \notin LateSteps
  BY <1>2 DEF LateSteps, Finalizing
<1>11. OthersStay(w) /\ pc'[w] = outcome[2] /\ msg'[w] = msg[w]
  BY <1>0, <1>1 DEF OthersStay, Goto, Context, TypeOK, WorkersOK
<1>12. ~EarlyHandler(w, j)
  BY <1>0, WorkerTyped, StepKinds DEF EarlyHandler, EarlyKinds, Context, TypeOK
<1>4. \A v \in Workers : HandlerHas(v, j)' => HandlerHas(v, j)
  BY <1>0, <1>1, <1>3, GotoStays DEF Context
<1>5. \A m \in Message : MessageHas(m, j)' => MessageHas(m, j) /\ queue'[m] <= queue[m]
  BY <1>0, QueueStays DEF Context
<1>6. RowHas(j)' => RowHas(j)
  BY <1>0, <1>11, <1>12, EarlyKept, RowStays
<1>7. LoadTracked' => LoadTracked
  BY TokenSets DEF Context
<1>8. CASE Job(w) = j /\ LoadTracked
  <2>1. HandlerHas(w, j)
    BY <1>0, <1>8 DEF HandlerHas, LateSteps
  <2>2. ~HandlerHas(w, j)'
    <3>1. msg[w].kind = "load"
      BY <1>0, WorkerTyped, StepKinds DEF Context, TypeOK
    <3>2. ~EarlyHandler(w, j)'
      BY <1>11, <3>1 DEF EarlyHandler, EarlyKinds
    <3>3. pc'[w] \notin LateSteps'
      BY <1>3, <1>11, TokenSets DEF Context
    <3> QED BY <3>2, <3>3 DEF HandlerHas
  <2>3. /\ \A v \in Workers : ~HandlerHas(v, j)'
        /\ \A m \in Message : ~MessageHas(m, j)'
        /\ ~RowHas(j)'
    BY <1>4, <1>5, <1>6, <2>1, <2>2, Alone DEF Context
  <2>4. loads[j] = 0
    BY <1>8, <2>1, Alone DEF LoadHas, Context, TypeOK, DataOK
  <2>5. loads'[j] <= 1
    BY <1>1, <1>2, <1>8, <2>4 DEF Context, TypeOK, DataOK
  <2> QED BY <2>3, <2>5, TokenAtRest DEF Context
<1>9. CASE Job(w) # j
  <2>1. loads'[j] = loads[j]
    BY <1>1, <1>9 DEF Context, TypeOK, DataOK
  <2> QED BY <1>4, <1>5, <1>6, <1>7, <2>1, TokenStays DEF Context
<1>10. CASE ~LoadTracked
  BY <1>4, <1>5, <1>6, <1>7, <1>10, TokenStays DEF Context
<1> QED BY <1>8, <1>9, <1>10

\* PARSING is the only status from which the table allows MERGING_OUTPUT.
LEMMA MergingFromParsing ==
  ASSUME NEW s \in ColumnValues, MERGING_OUTPUT \in ValidTransitions[s]
  PROVE  s = PARSING
BY DEF ColumnValues, JobStatuses, ValidTransitions, NoRow, ForceFailed, CREATED, INGESTING,
   NEEDS_PASSWORD, DETECTING, PARSING, MERGING_OUTPUT, SAVING_TO_DATABASE, REPORTING,
   COMPLETED, PARTIAL, ON_HOLD, FAILED

\* A compare-and-set passes the token from the row to the finalizer that wins it.
LEMMA TokenCas ==
  ASSUME NEW j, Context(j), TypeOK', Grows, NEW w \in Workers, TransitionCas(w)
  PROVE  OneToken(j)'
<1>0. /\ pc[w] \in DOMAIN TransitionCalls /\ seen[w] # NoRow
      /\ queue' = queue /\ msg' = msg /\ loads' = loads
  BY DEF TransitionCas, InTransition, effectVars
<1>1. \/ /\ RowUnmoved(w) /\ status' = [status EXCEPT ![Job(w)] = Target(w)]
         /\ Goto(w, Asked(w).won)
      \/ status' = status /\ Goto(w, Asked(w).lost)
  BY DEF TransitionCas, Result
<1>2. /\ msg[w].kind \in Kinds /\ pc[w] \in StepsOf[msg[w].kind]
      /\ MessageDue(msg[w])
  BY WorkerTyped DEF Context, TypeOK, Provenance
<1>3. pc[w] # "retry"
  BY <1>2, StepKinds DEF MessageDue
<1>4. LoadTracked' => LoadTracked
  BY TokenSets DEF Context
<1>5. \A m \in Message : MessageHas(m, j)' => MessageHas(m, j) /\ queue'[m] <= queue[m]
  BY <1>0, QueueStays DEF Context
<1>6. OthersStay(w) /\ Job(w)' = Job(w)
  BY <1>0, <1>1 DEF OthersStay, Goto, Job, Context, TypeOK, WorkersOK
<1>7. ASSUME NEW v \in Workers \ {w}, HandlerHas(v, j)' PROVE HandlerHas(v, j)
  BY <1>4, <1>6, <1>7, OthersHave DEF Context
<1>12. /\ Asked(w).won # "ack" \/ msg[w].kind \notin EarlyKinds
       /\ Asked(w).lost # "ack" \/ msg[w].kind \notin EarlyKinds
       /\ pc[w] # "ack"
  BY <1>0, <1>2 DEF Asked, TransitionCalls, TransitionCall, StepsOf, EarlyKinds
<1>13. Early(j) => Early(j)'
  <2>1. pc'[w] \in {Asked(w).won, Asked(w).lost}
    BY <1>1 DEF Goto, Context, TypeOK, WorkersOK
  <2>2. EarlyHandler(w, j) => EarlyHandler(w, j)'
    BY <1>0, <1>6, <1>12, <2>1 DEF EarlyHandler
  <2> QED BY <1>0, <1>6, <2>2, EarlyKept
<1>8. CASE Job(w) # j
  <2>1. ~HandlerHas(w, j)'
    BY <1>6, <1>8 DEF HandlerHas, EarlyHandler
  <2>2. RowHas(j)' => RowHas(j)
    <3>1. status'[j] = status[j]
      BY <1>1, <1>8 DEF Context, TypeOK, DataOK
    <3> QED BY <1>13, <3>1, RowStays
  <2>3. \A v \in Workers : HandlerHas(v, j)' => HandlerHas(v, j)
    BY <1>7, <2>1
  <2> QED BY <1>0, <1>4, <1>5, <2>2, <2>3, TokenStays DEF Context
<1>10. CASE /\ Job(w) = j /\ pc[w] = "to_merging"
            /\ RowUnmoved(w) /\ status' = [status EXCEPT ![j] = Target(w)]
            /\ Goto(w, Asked(w).won)
  <2>1. Target(w) = MERGING_OUTPUT
    <3>1. Asked(w).to = MERGING_OUTPUT
      BY <1>10 DEF Asked, TransitionCalls, TransitionCall
    <3> QED BY <3>1 DEF Target, MERGING_OUTPUT
  <2>2. status[j] = PARSING
    <3>1. MERGING_OUTPUT \in ValidTransitions[seen[w]] /\ seen[w] \in ColumnValues
      BY <1>0, <2>1 DEF Context, CasTargetsValid, TypeOK, DataOK
    <3> QED BY <1>10, <3>1, MergingFromParsing DEF RowUnmoved
  <2>3. RowHas(j)
    <3>1. msg[w].kind = "parsing_completed"
      BY <1>2, <1>10, StepKinds
    <3>2. ~Early(j)
      BY <1>10, <3>1 DEF Context, ParsedLate, Unparsed, ParseKinds
    <3> QED BY <2>2, <3>2 DEF RowHas
  <2>4. ~RowHas(j)'
    <3>1. status'[j] = MERGING_OUTPUT
      BY <1>10, <2>1 DEF Context, TypeOK, DataOK
    <3> QED BY <3>1 DEF RowHas, MERGING_OUTPUT, NoRow, PARSING
  <2>5. /\ \A v \in Workers \ {w} : ~HandlerHas(v, j)'
        /\ \A m \in Message : ~MessageHas(m, j)'
    BY <1>5, <1>7, <2>3 DEF Context, OneToken
  <2>6. ~LoadHas(j)' /\ (LoadTracked' => loads'[j] <= 1)
    BY <1>0, <1>4, <2>3 DEF LoadHas, Context, OneToken
  <2> QED BY <2>4, <2>5, <2>6, TokenWithHandler DEF Context
<1>11. CASE /\ Job(w) = j
            /\ \/ pc[w] # "to_merging"
               \/ status' = status /\ Goto(w, Asked(w).lost)
  <2>1. PICK step : Goto(w, step) /\ (step \in LateSteps => pc[w] \in LateSteps)
    <3>1. Asked(w).lost \in LateSteps => pc[w] \in LateSteps
      BY <1>0 DEF Asked, TransitionCalls, TransitionCall, LateSteps, Finalizing
    <3>2. pc[w] # "to_merging" => (Asked(w).won \in LateSteps => pc[w] \in LateSteps)
      BY <1>0 DEF Asked, TransitionCalls, TransitionCall, LateSteps, Finalizing
    <3> QED BY <1>1, <1>11, <3>1, <3>2
  <2>2. \A v \in Workers : HandlerHas(v, j)' => HandlerHas(v, j)
    BY <1>0, <1>12, <2>1, GotoStays DEF Context
  <2>3. RowHas(j)' => RowHas(j)
    <3>1. CASE status' = status
      BY <1>13, <3>1, RowStays
    <3>3. CASE pc[w] = "to_parsing"
      <4>1. msg[w].kind \in EarlyKinds
        BY <1>2, <3>3, StepKinds DEF EarlyKinds
      <4>2. Early(j)' /\ HandlerHas(w, j)
        BY <1>11, <1>12, <1>13, <4>1 DEF Early, EarlyHandler, HandlerHas
      <4>3. status[j] # NoRow
        BY <4>2, Alone DEF Context, RowHas
      <4>4. status'[j] # NoRow
        <5>1. Target(w) = PARSING
          BY <3>3 DEF Target, Asked, TransitionCalls, TransitionCall, PARSING
        <5> QED BY <1>1, <1>11, <4>3, <5>1 DEF PARSING, NoRow, Context, TypeOK, DataOK
      <4> QED BY <4>2, <4>4 DEF RowHas
    <3>2. CASE pc[w] # "to_parsing" /\ status' = [status EXCEPT ![Job(w)] = Target(w)]
      <4>1. status'[j] = Target(w)
        BY <1>11, <3>2 DEF Context, TypeOK, DataOK
      <4>2. Target(w) \in JobStatuses
        BY <1>0, TargetTyped DEF Context, InTransition
      <4>3. Target(w) # NoRow
        BY <4>2 DEF JobStatuses, NoRow, CREATED, INGESTING, NEEDS_PASSWORD, DETECTING,
           PARSING, MERGING_OUTPUT, SAVING_TO_DATABASE, REPORTING, COMPLETED, PARTIAL,
           ON_HOLD, FAILED
      <4>4. Target(w) # PARSING
        <5>1. CASE pc[w] = "apply_status"
          <6>1. msg[w].kind = "job_status_changed"
            BY <1>2, <5>1, StepKinds
          <6>2. msg[w].arg \in {NEEDS_PASSWORD, COMPLETED, FAILED}
            BY <6>1, MessageFields DEF Context, TypeOK, WorkersOK
          <6>3. Target(w) = msg[w].arg
            BY <5>1 DEF Target, Asked, TransitionCalls, TransitionCall
          <6> QED BY <6>2, <6>3 DEF NEEDS_PASSWORD, COMPLETED, FAILED, PARSING
        <5>2. CASE pc[w] # "apply_status"
          <6>1. TransitionCalls[pc[w]].to \in
                  {FAILED, MERGING_OUTPUT, ON_HOLD, SAVING_TO_DATABASE, REPORTING,
                   COMPLETED, DETECTING}
            BY <1>0, <1>3, <3>2, <5>2 DEF TransitionCalls, TransitionCall
          <6> QED BY <6>1 DEF Target, Asked, FAILED, MERGING_OUTPUT, ON_HOLD,
                 SAVING_TO_DATABASE, REPORTING, COMPLETED, DETECTING, PARSING
        <5> QED BY <5>1, <5>2
      <4> QED BY <4>1, <4>3, <4>4 DEF RowHas
    <3> QED BY <1>1, <3>1, <3>2, <3>3
  <2> QED BY <1>0, <1>4, <1>5, <2>2, <2>3, TokenStays DEF Context
<1> QED BY <1>1, <1>8, <1>10, <1>11

\* One step of Next leaves a job with one token.
LEMMA TokenStep ==
  ASSUME NEW j, Context(j), TypeOK', Grows, [Next]_vars,
         spent'["retry"] = 0, spent'["crash"] = 0
  PROVE  OneToken(j)'
<1>0. DataOK /\ TypeOK
  BY DEF Context, TypeOK
<1>1. ASSUME UNCHANGED <<pc, msg, queue, status, loads>> PROVE OneToken(j)'
  <2>1. \A v \in Workers : HandlerHas(v, j)' => HandlerHas(v, j)
    BY <1>1, TokenSets DEF HandlerHas, EarlyHandler, Job, Context
  <2>2. \A m \in Message : MessageHas(m, j)' => MessageHas(m, j) /\ queue'[m] <= queue[m]
    BY <1>1, QueueStays DEF Context
  <2>3. RowHas(j)' => RowHas(j)
    BY <1>1 DEF RowHas, Early, EarlyHandler, Job
  <2> QED BY <1>1, <2>1, <2>2, <2>3, TokenSets, TokenStays DEF Context
<1>2. ASSUME NEW w \in Workers, Ack(w) PROVE OneToken(j)'
  <2>1. \A v \in Workers : HandlerHas(v, j)' => HandlerHas(v, j)
    BY <1>2, FinishStays DEF Ack, Context
  <2>2. \A m \in Message : MessageHas(m, j)' => MessageHas(m, j) /\ queue'[m] <= queue[m]
    BY <1>2, QueueStays DEF Ack, Context
  <2>3. RowHas(j)' => RowHas(j)
    <3>1. OthersStay(w) /\ ~EarlyHandler(w, j)
      BY <1>2, FinishStays DEF Ack, EarlyHandler, Context
    <3> QED BY <1>2, <3>1, EarlyKept, RowStays DEF Ack, rowVars
  <2> QED BY <1>2, <2>1, <2>2, <2>3, TokenSets, TokenStays DEF Context, Ack, effectVars
<1>3. ASSUME NEW w \in Workers, TransitionRead(w) PROVE OneToken(j)'
  <2>1. CASE UNCHANGED pc
    BY <1>1, <1>3, <2>1 DEF TransitionRead, rowVars, effectVars
  <2>2. CASE Goto(w, Asked(w).threw)
    <3>1. /\ Asked(w).threw \in LateSteps => pc[w] \in LateSteps
          /\ pc[w] # "ack"
      BY <1>3 DEF TransitionRead, InTransition, Asked, TransitionCalls, TransitionCall,
         LateSteps, Finalizing
    <3> QED BY <1>3, <2>2, <3>1, QuietGoto DEF TransitionRead, rowVars, effectVars
  <2> QED BY <1>3, <2>1, <2>2 DEF TransitionRead
<1>4. ASSUME NEW w \in Workers, SendFails(w) PROVE OneToken(j)'
  <2>1. /\ SendCalls[pc[w]].failed \cap LateSteps # {} => pc[w] \in LateSteps
        /\ pc[w] # "ack"
    BY <1>4 DEF SendFails, AtSend, SendCalls, SendCall, LateSteps, Finalizing
  <2> QED BY <1>4, <2>1, QuietGoto DEF SendFails, rowVars, effectVars
<1>5. ASSUME NEW w \in Workers, NEW i \in Jobs,
             Crash(w) \/ ReleaseHold(w, i) \/ \E t \in RetryTargets : RetryJob(w, i, t)
      PROVE  FALSE
  BY <1>0, <1>5, SpendGrows DEF Crash, ReleaseHold, RetryJob, Budgets
<1>6. ASSUME NEW i \in Jobs, ForceFail(i) PROVE OneToken(j)'
  <2>1. RowHas(j)' => RowHas(j)
    <3>1. Early(j) => Early(j)'
      BY <1>6 DEF ForceFail, workerVars, Early, EarlyHandler, Job
    <3>2. status'[j] = status[j] \/ status'[j] = ForceFailed
      BY <1>0, <1>6 DEF ForceFail, DataOK, Context
    <3> QED BY <3>1, <3>2, RowStays DEF RowHas, ForceFailed, NoRow, PARSING
  <2>2. \A v \in Workers : HandlerHas(v, j)' => HandlerHas(v, j)
    BY <1>6, TokenSets DEF ForceFail, workerVars, HandlerHas, EarlyHandler, Job, Context
  <2>3. \A m \in Message : MessageHas(m, j)' => MessageHas(m, j) /\ queue'[m] <= queue[m]
    BY <1>6, QueueStays DEF ForceFail, Context
  <2> QED BY <1>6, <2>1, <2>2, <2>3, TokenSets, TokenStays DEF ForceFail, effectVars, Context
<1>7. ASSUME NEW i \in Jobs, ProvidePassword(i) \/ EntriesDone(i) PROVE OneToken(j)'
  <2>1. UNCHANGED <<pc, msg, status, loads>>
    BY <1>7 DEF ProvidePassword, EntriesDone, workerVars, rowVars, effectVars
  <2>2. PICK n : Put(n) /\ n.kind \in {"provide_password", "job_status_changed"}
    BY <1>7 DEF ProvidePassword, EntriesDone
  <2>3. \A v \in Workers : HandlerHas(v, j)' => HandlerHas(v, j)
    BY <2>1, TokenSets DEF HandlerHas, EarlyHandler, Job, Context
  <2>4. \A m \in Message : MessageHas(m, j)' => MessageHas(m, j) /\ queue'[m] <= queue[m]
    BY <2>2, PutStays DEF Context, TokenKinds
  <2>5. Early(j) => Early(j)'
    <3>1. \A m \in Message : queue[m] > 0 => queue'[m] > 0
      BY <2>2, PutGrows DEF Context
    <3> QED BY <2>1, <3>1 DEF Early, EarlyHandler, Job
  <2>6. RowHas(j)' => RowHas(j)
    BY <2>1, <2>5, RowStays
  <2> QED BY <2>1, <2>3, <2>4, <2>6, TokenSets, TokenStays DEF Context
<1>8. ASSUME NEW w \in Workers, IngestClaim(w) PROVE OneToken(j)'
  <2>1. pc[w] = "ingest_claim" /\ {"ack", "ingest_resolve"} \cap LateSteps = {}
    BY <1>8 DEF IngestClaim, At, LateSteps, Finalizing
  <2>2. CASE Decide(w, "ack")
    BY <2>1, <2>2, QuietGoto DEF Decide, rowVars, effectVars
  <2>3. CASE /\ status' = [status EXCEPT ![Job(w)] = INGESTING]
             /\ Goto(w, "ingest_resolve")
             /\ UNCHANGED <<file, output_paths, headers, attempts, effectVars, queue,
                            msg, seen, leased, spent>>
    <3>1. \A v \in Workers : HandlerHas(v, j)' => HandlerHas(v, j)
      BY <2>1, <2>3, GotoStays DEF Context
    <3>2. \A m \in Message : MessageHas(m, j)' => MessageHas(m, j) /\ queue'[m] <= queue[m]
      BY <2>3, QueueStays DEF Context
    <3>3. RowHas(j)' => RowHas(j)
      <4>1. OthersStay(w) /\ msg'[w] = msg[w] /\ pc'[w] = "ingest_resolve"
        BY <2>3 DEF OthersStay, Goto, Context, TypeOK, WorkersOK
      <4>2. Early(j) => Early(j)'
        BY <2>3, <4>1, EarlyKept DEF EarlyHandler, Job
      <4>3. status'[j] = status[j] \/ status'[j] = INGESTING
        BY <1>0, <2>3 DEF DataOK, Context
      <4> QED BY <4>2, <4>3, RowStays DEF RowHas, INGESTING, NoRow, PARSING
    <3> QED BY <2>3, <3>1, <3>2, <3>3, TokenSets, TokenStays DEF effectVars, Context
  <2> QED BY <1>8, <2>2, <2>3 DEF IngestClaim
<1>9. ASSUME NEW w \in Workers,
             \/ IngestResolve(w) \/ AskPassword(w) \/ Probe(w) \/ Finalize(w) \/ SavePaths(w)
             \/ Parse(w) \/ GenerateReport(w)
      PROVE  OneToken(j)'
  <2>1. UNCHANGED <<msg, queue, status, loads>>
    BY <1>9 DEF IngestResolve, AskPassword, Probe, Finalize, SavePaths, Parse,
       GenerateReport, Decide, rowVars, effectVars
  <2>8. pc[w] # "ack"
    BY <1>9 DEF IngestResolve, AskPassword, Probe, Finalize, SavePaths, Parse,
       GenerateReport, At
  <2>2. CASE pc[w] \in LateSteps /\ \E step : Goto(w, step)
    BY <2>1, <2>2, <2>8, QuietGoto
  <2>3. CASE \E step : Goto(w, step) /\ step \notin LateSteps
    BY <2>1, <2>3, <2>8, QuietGoto
  <2>4. CASE Finalize(w) \/ SavePaths(w)
    BY <2>2, <2>4 DEF Finalize, SavePaths, Decide, At, LateSteps, Finalizing
  <2>5. CASE IngestResolve(w)
    <3>1. IngestOutcomes(file[Job(w)]) \cap LateSteps = {}
      BY DEF IngestOutcomes, LateSteps, Finalizing
    <3> QED BY <2>3, <2>5, <3>1 DEF IngestResolve, Decide
  <2>6. CASE AskPassword(w) \/ Probe(w) \/ Parse(w)
    <3>1. {"emit_ingest_failed", "emit_needs_password", "ack", "to_parsing", "detect_fail",
           "emit_parsed", "emit_parse_error", "emit_gate_failed"} \cap LateSteps = {}
      BY DEF LateSteps, Finalizing
    <3>2. CASE AskPassword(w)
      BY <2>3, <3>1, <3>2 DEF AskPassword, Decide
    <3>3. CASE Probe(w)
      BY <2>3, <3>1, <3>3 DEF Probe, Decide
    <3>4. CASE Parse(w)
      BY <2>3, <3>1, <3>4 DEF Parse, Decide
    <3> QED BY <2>6, <3>2, <3>3, <3>4
  <2>7. CASE GenerateReport(w)
    <3>1. PICK outcome \in ReportOutcomes(msg[w].arg) : Goto(w, outcome[2])
      BY <2>7 DEF GenerateReport
    <3>2. outcome[2] \in {"emit_reported", "emit_report_error"}
      <4>1. \/ outcome = <<FALSE, "emit_report_error">>
            \/ outcome = <<TRUE, "emit_reported">>
            \/ outcome = <<TRUE, "emit_report_error">>
        BY <3>1 DEF ReportOutcomes
      <4>2. outcome = <<FALSE, "emit_report_error">> => outcome[2] = "emit_report_error"
        OBVIOUS
      <4>3. outcome = <<TRUE, "emit_reported">> => outcome[2] = "emit_reported"
        OBVIOUS
      <4>4. outcome = <<TRUE, "emit_report_error">> => outcome[2] = "emit_report_error"
        OBVIOUS
      <4> QED BY <4>1, <4>2, <4>3, <4>4
    <3>3. outcome[2] \notin LateSteps
      BY <3>2 DEF LateSteps, Finalizing
    <3> QED BY <2>3, <3>1, <3>3
  <2> QED BY <1>9, <2>4, <2>5, <2>6, <2>7
<1>10. ASSUME NEW w \in Workers,
              \/ OnStatusChanged(w) \/ OnErrorOccurred(w) \/ OnParsingCompleted(w)
              \/ OnLoadingCompleted(w) \/ OnReportingCompleted(w)
       PROVE  OneToken(j)'
  <2>1. {"ack", "apply_status", "apply_error", "to_merging", "to_reporting", "to_completed"}
          \cap LateSteps = {}
    BY DEF LateSteps, Finalizing
  <2>2. PICK step : Decide(w, step) /\ step \notin LateSteps
    BY <1>10, <2>1 DEF OnStatusChanged, OnErrorOccurred, OnParsingCompleted,
       OnLoadingCompleted, OnReportingCompleted
  <2>3. pc[w] # "ack"
    BY <1>10 DEF OnStatusChanged, OnErrorOccurred, OnParsingCompleted,
       OnLoadingCompleted, OnReportingCompleted, At
  <2> QED BY <2>2, <2>3, QuietGoto DEF Decide, rowVars, effectVars
<1>11. CASE UNCHANGED vars
  BY <1>1, <1>11 DEF vars, workerVars, rowVars, effectVars
<1>12. ASSUME NEW w \in Workers, \E m \in Message : Receive(w, m) PROVE OneToken(j)'
  BY <1>12, TokenReceive
<1>13. ASSUME NEW w \in Workers, Redeliver(w) \/ Nack(w) PROVE OneToken(j)'
  BY <1>13, TokenGivenBack
<1>14. ASSUME NEW w \in Workers, Send(w) PROVE OneToken(j)'
  BY <1>14, TokenSend
<1>15. ASSUME NEW w \in Workers, NEW i \in Jobs, CreateJob(w, i) \/ CreateChildJob(w, i)
       PROVE  OneToken(j)'
  BY <1>15, TokenCreate
<1>16. ASSUME NEW w \in Workers, LoadRows(w) PROVE OneToken(j)'
  BY <1>16, TokenLoad
<1>17. ASSUME NEW w \in Workers, TransitionCas(w) PROVE OneToken(j)'
  BY <1>17, TokenCas
<1>18. ASSUME NEW w \in Workers, Step(w) PROVE OneToken(j)'
  BY <1>2, <1>3, <1>8, <1>9, <1>10, <1>13, <1>14, <1>16, <1>17, <1>18 DEF Step
<1>19. ASSUME NEW w \in Workers, Fault(w) PROVE OneToken(j)'
  <2>1. CASE Crash(w)
    BY <1>5, <2>1 DEF Context
  <2> QED BY <1>4, <1>13, <1>19, <2>1 DEF Fault
<1>20. ASSUME NEW w \in Workers,
              User(w) \/ \E i \in Jobs : CreateChildJob(w, i) \/ EntriesDone(i)
       PROVE  OneToken(j)'
  BY <1>5, <1>6, <1>7, <1>15, <1>20 DEF User
<1> QED
  BY <1>11, <1>12, <1>18, <1>19, <1>20 DEF Next

\* The token is early only where it was early before, or where the row was missing.
LEMMA EarlyBefore ==
  ASSUME NEW j, Context(j), [Next]_vars, spent'["retry"] = 0, spent'["crash"] = 0, Early(j)'
  PROVE  Early(j) \/ status[j] = NoRow
<1>0. TypeOK /\ DataOK
  BY DEF Context, TypeOK
<1>1. ASSUME NEW w \in Workers, EarlyHandler(w, j)' PROVE Early(j) \/ status[j] = NoRow
  <2>1. CASE msg'[w] = msg[w] /\ (pc[w] = "ack" => pc'[w] = "ack")
    BY <1>1, <2>1 DEF Early, EarlyHandler, Job
  <2>2. CASE msg'[w] = NoMessage
    BY <1>1, <2>2 DEF NoMessage, EarlyHandler, EarlyKinds
  <2>3. ASSUME NEW m \in Message, msg'[w] = m, queue[m] > 0 PROVE Early(j)
    <3>1. m.kind \in {"ingest", "classify"} /\ m.job = j
      BY <1>1, <2>3, EntryIsAStep
      DEF EarlyHandler, EarlyKinds, Job, MessageKinds, BareKinds
    <3> QED BY <2>3, <3>1 DEF Early
  <2>4. ASSUME NEW i \in Jobs, msg'[w].job = i, status[i] = NoRow PROVE status[j] = NoRow
    BY <1>1, <2>4 DEF EarlyHandler, Job
  <2> QED BY <1>0, <2>1, <2>2, <2>3, <2>4, NewHandler
<1>2. ASSUME NEW m \in Message, m.kind \in {"ingest", "classify"}, m.job = j, queue'[m] > 0
      PROVE  Early(j)
  <2>1. CASE queue[m] > 0
    BY <1>2, <2>1 DEF Early
  <2>2. ASSUME NEW w \in Workers, Redeliver(w) \/ Nack(w) \/ Crash(w), m = msg[w]
        PROVE  Early(j)
    <3>1. ~Crash(w)
      BY <1>0, SpendGrows DEF Crash, Budgets
    <3>2. ~Redeliver(w)
      BY <1>2, <2>2 DEF Redeliver, Context
    <3>3. EarlyHandler(w, j)
      BY <1>2, <2>2, <3>1, <3>2 DEF Nack, EarlyHandler, EarlyKinds, Job
    <3> QED BY <3>3 DEF Early
  <2>3. ASSUME NEW w \in Workers, Send(w), m = Outgoing(w) PROVE Early(j)
    <3>1. /\ msg[w].kind \in Kinds /\ pc[w] \in StepsOf[msg[w].kind]
          /\ MessageDue(msg[w])
      BY <1>0, WorkerTyped DEF Context, TypeOK, Provenance
    <3>2. pc[w] # "send_retry" /\ AtSend(w)
      BY <2>3, <3>1, SendKinds DEF MessageDue, Send
    <3>3. m.kind = SendCalls[pc[w]].kind /\ Job(w) = j
      BY <1>2, <2>3, <3>2 DEF Outgoing, AtSend, SendCalls, SendCall
    <3>4. pc[w] \in {"send_created", "send_child", "send_classify", "send_again"}
      BY <1>2, <3>2, <3>3 DEF AtSend, SendCalls, SendCall
    <3>5. pc[w] # "send_again"
      <4>1. pc[w] = "send_again" => msg[w].kind = "provide_password"
        BY <3>1 DEF Kinds, MessageKinds, BareKinds, StepsOf
      <4> QED BY <3>1, <3>3, <4>1 DEF MessageDue, Job, Context
    <3>6. msg[w].kind \in EarlyKinds
      BY <3>1, <3>4, <3>5 DEF Kinds, MessageKinds, BareKinds, StepsOf, EarlyKinds
    <3>7. EarlyHandler(w, j)
      BY <3>3, <3>4, <3>6 DEF EarlyHandler
    <3> QED BY <3>7 DEF Early
  <2> QED BY <1>0, <1>2, <2>1, <2>2, <2>3, NewMessage
<1> QED BY <1>1, <1>2 DEF Early

\* The parse message is sent by the one handler that has the token, and takes it on.
LEMMA ParseSent ==
  ASSUME NEW j, Context(j), TypeOK', Grows, NEW w \in Workers, Send(w), Job(w) = j,
         pc[w] = "send_parse"
  PROVE  ~Early(j)' /\ status'[j] # NoRow
<1>0. /\ Put(Outgoing(w)) /\ Goto(w, "ack") /\ msg' = msg /\ status' = status
      /\ Outgoing(w).kind = "parse"
  BY DEF Send, Outgoing, SendCalls, SendCall, rowVars
<1>1. HandlerHas(w, j)
  <2>1. msg[w].kind = "classify"
    BY WorkerTyped, SendKinds DEF Context, TypeOK
  <2> QED BY <2>1 DEF HandlerHas, EarlyHandler, EarlyKinds
<1>2. /\ \A v \in Workers \ {w} : ~EarlyHandler(v, j)
      /\ \A m \in Message : ~MessageHas(m, j)
      /\ status[j] # NoRow
  BY <1>1, Alone DEF Context, HandlerHas, RowHas
<1>3. \A v \in Workers : ~EarlyHandler(v, j)'
  BY <1>0, <1>2 DEF Goto, EarlyHandler, Job, Context, TypeOK, WorkersOK
<1>4. ASSUME NEW m \in Message, m.kind \in {"ingest", "classify"}, m.job = j
      PROVE  ~(queue'[m] > 0)
  <2>1. queue'[m] = queue[m]
    BY <1>0, <1>4 DEF Put, Context, TypeOK, DataOK
  <2> QED BY <1>2, <1>4, <2>1 DEF MessageHas, TokenKinds
<1> QED BY <1>0, <1>2, <1>3, <1>4 DEF Early

LEMMA ParsedLateStep ==
  ASSUME NEW j, Context(j), TypeOK', Grows, [Next]_vars,
         spent'["retry"] = 0, spent'["crash"] = 0
  PROVE  ParsedLate(j)'
<1>0. TypeOK
  BY DEF Context
<1>1. SUFFICES ASSUME Early(j)' \/ status'[j] = NoRow PROVE Unparsed(j)'
  BY DEF ParsedLate
<1>2. status'[j] = NoRow => status[j] = NoRow
  <2>1. ASSUME NEW w \in Workers, TransitionCas(w), status'[j] = Target(w)
        PROVE  status'[j] # NoRow
    <3>1. Target(w) \in JobStatuses
      BY <1>0, <2>1, TargetTyped DEF TransitionCas
    <3> QED BY <2>1, <3>1 DEF JobStatuses, NoRow, CREATED, INGESTING, NEEDS_PASSWORD,
           DETECTING, PARSING, MERGING_OUTPUT, SAVING_TO_DATABASE, REPORTING, COMPLETED,
           PARTIAL, ON_HOLD, FAILED
  <2>2. NoRow \notin {CREATED, INGESTING, ForceFailed}
    BY DEF NoRow, CREATED, INGESTING, ForceFailed
  <2> QED BY <1>0, <2>1, <2>2, NewStatus DEF Context
<1>3. Unparsed(j)
  BY <1>1, <1>2, EarlyBefore DEF Context, ParsedLate
<1>4. ASSUME NEW w \in Workers, msg'[w].kind \in ParseKinds PROVE Job(w)' # j
  <2>1. CASE msg'[w] = msg[w]
    BY <1>3, <1>4, <2>1 DEF Unparsed, Job
  <2>2. CASE msg'[w] = NoMessage \/ msg'[w].kind \in {"create", "child"}
    BY <1>4, <2>2 DEF NoMessage, ParseKinds
  <2>3. CASE \E m \in Message : msg'[w] = m /\ queue[m] > 0
    BY <1>3, <1>4, <2>3 DEF Unparsed, Job, TypeOK, DataOK
  <2> QED BY <1>0, <2>1, <2>2, <2>3, NewHandler
<1>5. ASSUME NEW m \in Message, m.kind \in ParseKinds, m.job = j, queue'[m] > 0 PROVE FALSE
  <2>1. CASE queue[m] > 0
    BY <1>0, <1>3, <1>5, <2>1 DEF Unparsed, TypeOK, DataOK
  <2>2. CASE \E w \in Workers : m = msg[w]
    BY <1>3, <1>5, <2>2 DEF Unparsed, Job
  <2>3. ASSUME NEW w \in Workers, Send(w), m = Outgoing(w) PROVE FALSE
    <3>1. /\ msg[w].kind \in Kinds /\ pc[w] \in StepsOf[msg[w].kind]
          /\ MessageDue(msg[w])
      BY <1>0, WorkerTyped DEF Context, TypeOK, Provenance
    <3>2. pc[w] # "send_retry" /\ AtSend(w)
      BY <2>3, <3>1, SendKinds DEF MessageDue, Send
    <3>3. m.kind = SendCalls[pc[w]].kind /\ Job(w) = j
      BY <1>5, <2>3, <3>2 DEF Outgoing, AtSend, SendCalls, SendCall
    <3>4. pc[w] \in {"send_parse", "emit_parsed"}
      BY <1>5, <3>2, <3>3 DEF AtSend, SendCalls, SendCall, ParseKinds
    <3>5. CASE pc[w] = "send_parse"
      BY <1>1, <2>3, <3>3, <3>5, ParseSent
    <3>6. CASE pc[w] = "emit_parsed"
      BY <1>3, <3>1, <3>3, <3>6, SendKinds DEF Unparsed, ParseKinds
    <3> QED BY <3>4, <3>5, <3>6
  <2> QED BY <1>0, <1>5, <2>1, <2>2, <2>3, NewMessage DEF ParseKinds
<1>6. ASSUME NEW m \in Message, m.kind \in ParseKinds, m.job = j PROVE queue'[m] = 0
  BY <1>5, <1>6 DEF TypeOK, DataOK
<1> QED BY <1>4, <1>6 DEF Unparsed

\* The handler of a load reaches the end at which its message is given back only when
\* the send of its error fails.
LEMMA LoadNacked ==
  ASSUME TypeOK, [Next]_vars, NEW w \in Workers, msg'[w].kind = "load", pc'[w] = "nack"
  PROVE  \/ msg[w].kind = "load" /\ pc[w] = "nack"
         \/ spent'["send_failure"] > 0
<1> DEFINE Explained == \/ msg[w].kind = "load" /\ pc[w] = "nack"
                        \/ spent'["send_failure"] > 0
<1>0. /\ msg \in [Workers -> Message \cup Call \cup {NoMessage}] /\ pc \in [Workers -> Steps]
      /\ DataOK
  BY DEF TypeOK, WorkersOK
<1>1. ASSUME UNCHANGED msg, UNCHANGED pc PROVE Explained
  BY <1>1
<1>2. ASSUME NEW v \in Workers, NEW step, Goto(v, step), UNCHANGED msg, step # "nack"
      PROVE  Explained
  BY <1>0, <1>2 DEF Goto
<1>3. ASSUME NEW v \in Workers, NEW n, NEW step, NEW held, Start(v, n, step, held),
             step # "nack"
      PROVE  Explained
  BY <1>0, <1>3 DEF Start, Goto
<1>4. ASSUME NEW v \in Workers, Finish(v) PROVE Explained
  BY <1>0, <1>4 DEF Finish, Goto
<1>5. ASSUME NEW v \in Workers, NEW n \in Message, Receive(v, n) PROVE Explained
  <2>1. Entry[n.kind] # "nack"
    BY EntryIsAStep DEF Entry, MessageKinds, BareKinds
  <2> QED BY <1>3, <1>5, <2>1 DEF Receive
<1>6. ASSUME NEW v \in Workers, NEW j \in Jobs,
             \/ CreateJob(v, j) \/ CreateChildJob(v, j) \/ ReleaseHold(v, j)
             \/ \E t \in RetryTargets : RetryJob(v, j, t)
      PROVE  Explained
  BY <1>3, <1>6 DEF CreateJob, CreateChildJob, ReleaseHold, RetryJob, RestCall
<1>7. ASSUME NEW v \in Workers, NEW step, Goto(v, step), UNCHANGED msg,
             msg[v].kind # "load"
      PROVE  Explained
  BY <1>0, <1>7 DEF Goto
<1>8. ASSUME NEW v \in Workers, TransitionRead(v) \/ TransitionCas(v) PROVE Explained
  <2>1. pc[v] \in DOMAIN TransitionCalls
    BY <1>8 DEF TransitionRead, TransitionCas, InTransition
  <2>2. msg[v].kind \in Kinds /\ pc[v] \in StepsOf[msg[v].kind]
    BY WorkerTyped DEF TypeOK
  <2>3. msg[v].kind # "load"
    BY <2>1, <2>2 DEF StepsOf, TransitionCalls
  <2> QED BY <1>1, <1>7, <1>8, <2>3 DEF TransitionRead, TransitionCas
<1>9. ASSUME NEW v \in Workers, Send(v) PROVE Explained
  <2>1. msg[v].kind \in Kinds /\ pc[v] \in StepsOf[msg[v].kind]
    BY WorkerTyped DEF TypeOK
  <2>2. SendCalls[pc[v]].sent = "nack" => msg[v].kind # "load"
    <3>1. pc[v] \in DOMAIN SendCalls
      BY <1>9 DEF Send, AtSend
    <3>2. msg[v].kind = "load" => pc[v] \in {"emit_loaded", "emit_load_error"}
      BY <2>1, <3>1 DEF StepsOf, SendCalls
    <3>3. /\ SendCalls["emit_loaded"].sent = "ack"
          /\ SendCalls["emit_load_error"].sent = "ack"
      BY DEF SendCalls, SendCall
    <3> QED BY <3>2, <3>3
  <2> QED BY <1>2, <1>7, <1>9, <2>2 DEF Send
<1>10. ASSUME NEW v \in Workers, SendFails(v) PROVE Explained
  BY <1>0, <1>10, SpendGrows DEF SendFails, Budgets
<1>11. ASSUME NEW v \in Workers, Ack(v) \/ Nack(v) \/ Crash(v) PROVE Explained
  BY <1>4, <1>11 DEF Ack, Nack, Crash
<1>12. ASSUME NEW v \in Workers, Redeliver(v) PROVE Explained
  BY <1>1, <1>12 DEF Redeliver
<1>13. ASSUME NEW j \in Jobs, ForceFail(j) \/ ProvidePassword(j) \/ EntriesDone(j)
       PROVE  Explained
  BY <1>1, <1>13 DEF ForceFail, ProvidePassword, EntriesDone, workerVars
<1>14. ASSUME NEW v \in Workers,
              \/ IngestClaim(v) \/ IngestResolve(v) \/ AskPassword(v) \/ Probe(v)
              \/ OnStatusChanged(v) \/ OnErrorOccurred(v) \/ OnParsingCompleted(v)
              \/ OnLoadingCompleted(v) \/ OnReportingCompleted(v)
       PROVE  Explained
  BY <1>2, <1>14 DEF IngestClaim, IngestResolve, IngestOutcomes, AskPassword, Probe,
     OnStatusChanged, OnErrorOccurred, OnParsingCompleted, OnLoadingCompleted,
     OnReportingCompleted, Decide
<1>15. ASSUME NEW v \in Workers, Finalize(v) \/ SavePaths(v) \/ Parse(v) PROVE Explained
  BY <1>2, <1>15 DEF Finalize, SavePaths, AfterMerge, Parse, Decide
<1>16. ASSUME NEW v \in Workers, LoadRows(v) PROVE Explained
  <2>1. PICK outcome \in LoadOutcomes(msg[v].arg) : Goto(v, outcome[2])
    BY <1>16 DEF LoadRows
  <2>2. outcome[2] \in {"emit_loaded", "emit_load_error"}
    BY <2>1 DEF LoadOutcomes
  <2> QED BY <1>2, <1>16, <2>1, <2>2 DEF LoadRows
<1>17. ASSUME NEW v \in Workers, GenerateReport(v) PROVE Explained
  <2>1. msg[v].kind # "load"
    BY <1>17, WorkerTyped, StepKinds DEF GenerateReport, At, TypeOK
  <2> QED BY <1>7, <1>17, <2>1 DEF GenerateReport
<1>18. CASE UNCHANGED vars
  BY <1>1, <1>18 DEF vars, workerVars
<1>19. ASSUME NEW v \in Workers, Step(v) PROVE Explained
  BY <1>8, <1>9, <1>11, <1>14, <1>15, <1>16, <1>17, <1>19 DEF Step
<1> QED
  BY <1>5, <1>6, <1>10, <1>11, <1>12, <1>13, <1>18, <1>19 DEF Next, Fault, User

LEMMA TokensInit == Init => Tokens
<1> SUFFICES ASSUME Init PROVE Tokens
  OBVIOUS
<1>1. ASSUME NEW j \in Jobs PROVE OneToken(j)
  <2>1. /\ \A w \in Workers : ~HandlerHas(w, j)
        /\ \A m \in Message : ~MessageHas(m, j)
        /\ ~LoadHas(j) /\ loads[j] = 0
    BY DEF Init, NoMessage, HandlerHas, EarlyHandler, EarlyKinds, MessageHas, LoadHas,
       LateSteps, Finalizing
  <2> QED BY <2>1 DEF OneToken
<1>3. ASSUME NEW j \in Jobs PROVE ParsedLate(j)
  BY DEF Init, NoMessage, ParsedLate, Unparsed, ParseKinds
<1>2. LoadsAcked
  BY DEF Init, LoadsAcked
<1> QED BY <1>1, <1>2, <1>3 DEF Tokens

LEMMA TokensStep == TokenInv /\ [Next]_vars => Tokens'
<1> SUFFICES ASSUME TokenInv, [Next]_vars,
                    "ingest" \notin Redeliverable, "classify" \notin Redeliverable,
                    spent'["retry"] = 0, spent'["crash"] = 0
             PROVE  /\ \A j \in Jobs : file'[j] \notin Archives => OneToken(j)' /\ ParsedLate(j)'
                    /\ LoadsAcked'
  BY DEF Tokens
<1>1. TypeOK /\ TypeOK' /\ Grows /\ CasTargetsValid /\ Provenance
  BY TypeStep, StepGrows DEF TokenInv, ColumnInv
<1>2. spent["retry"] = 0 /\ spent["crash"] = 0
  BY <1>1 DEF Grows, Budgets, TypeOK, DataOK
<1>3. LoadsAcked /\ \A j \in Jobs : file[j] \notin Archives => OneToken(j) /\ ParsedLate(j)
  BY <1>2 DEF TokenInv, Tokens
<1>4. ASSUME NEW j \in Jobs, file'[j] \notin Archives PROVE OneToken(j)' /\ ParsedLate(j)'
  <2>1. Context(j)
    BY <1>1, <1>2, <1>3, <1>4 DEF Context, Grows
  <2> QED BY <1>1, <2>1, TokenStep, ParsedLateStep
<1>5. LoadsAcked'
  <2> SUFFICES ASSUME LoadTracked', NEW w \in Workers, msg'[w].kind = "load", pc'[w] = "nack"
               PROVE  FALSE
    BY DEF LoadsAcked
  <2>1. LoadTracked /\ spent'["send_failure"] = 0
    BY <1>1, TokenSets DEF LoadTracked
  <2> QED BY <1>1, <1>3, <2>1, LoadNacked DEF LoadsAcked
<1> QED BY <1>4, <1>5

LEMMA TokensHold == Spec => []TokenInv
<1>1. Init => TokenInv
  BY TypeInit, CasInit, ProvenanceInit, TokensInit DEF TokenInv, ColumnInv
<1>2. TokenInv /\ [Next]_vars => TokenInv'
  BY TypeStep, CasStep, ProvenanceStep, TokensStep DEF TokenInv, ColumnInv
<1> QED BY <1>1, <1>2, PTL DEF Spec
-----------------------------------------------------------------------------
\* Whatever events are delivered twice, wherever sends fail and users force-fail jobs,
\* two handlers never finalize a job at once, while no handler was killed and no user
\* asked for a retry.
THEOREM FinalizedByOne ==
  ASSUME "ingest" \notin Redeliverable, "classify" \notin Redeliverable
  PROVE  Spec => [](spent["retry"] = 0 /\ spent["crash"] = 0 => OneFinalizer)
<1>1. TokenInv => (spent["retry"] = 0 /\ spent["crash"] = 0 => OneFinalizer)
  <2> SUFFICES ASSUME TokenInv, spent["retry"] = 0, spent["crash"] = 0,
                      NEW v \in Workers, NEW w \in Workers,
                      pc[v] \in Finalizing, pc[w] \in Finalizing, Job(v) = Job(w)
               PROVE  v = w
    BY DEF OneFinalizer
  <2> DEFINE j == Job(v)
  <2>1. msg[v].kind = "parsing_completed" /\ j \in Jobs
    BY WorkerTyped, StepKinds DEF TokenInv, ColumnInv, TypeOK, Finalizing, Idle
  <2>2. file[j] \notin Archives
    BY <2>1 DEF TokenInv, Provenance, MessageDue, Job
  <2>3. OneToken(j)
    BY <2>1, <2>2 DEF TokenInv, Tokens
  <2>4. HandlerHas(v, j) /\ HandlerHas(w, j)
    BY DEF HandlerHas, LateSteps
  <2> QED BY <2>3, <2>4 DEF OneToken
<1> QED BY <1>1, TokensHold, PTL

\* However often the events of a job are delivered, its rows are loaded at most once,
\* while no load message came twice, no send failed, no handler was killed and no user
\* asked for a retry.
THEOREM LoadedAtMostOnce ==
  ASSUME "ingest" \notin Redeliverable, "classify" \notin Redeliverable,
         "load" \notin Redeliverable
  PROVE  Spec => [](spent["retry"] = 0 /\ spent["crash"] = 0 /\ spent["send_failure"] = 0
                      => LoadedOnce)
<1>1. TokenInv =>
        (spent["retry"] = 0 /\ spent["crash"] = 0 /\ spent["send_failure"] = 0
           => LoadedOnce)
  <2> SUFFICES ASSUME TokenInv, spent["retry"] = 0, spent["crash"] = 0,
                      spent["send_failure"] = 0, NEW j \in Jobs
               PROVE  loads[j] <= 1
    BY DEF LoadedOnce
  <2>1. LoadTracked
    BY DEF LoadTracked
  <2>2. CASE file[j] \in Archives
    BY <2>2 DEF TokenInv, Provenance, RowDue
  <2>3. CASE file[j] \notin Archives
    BY <2>1, <2>3 DEF TokenInv, Tokens, OneToken
  <2> QED BY <2>2, <2>3
<1> QED BY <1>1, TokensHold, PTL
=============================================================================
