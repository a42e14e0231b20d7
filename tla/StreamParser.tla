--------------------------- MODULE StreamParser ---------------------------
(***************************************************************************)
(* parseJob of the stream parser: the loop over the lines of one file, the  *)
(* verdicts, the inline AI call, the final flush, the quality gate and the  *)
(* error path; and the attempts that follow when the message is delivered   *)
(* again or the job is retried in the same process.                         *)
(*                                                                          *)
(* JavaScript runs to completion: an insert or an upload settles only while *)
(* the parse waits for something, never between drainIfReady and the end of *)
(* a classification that needs no AI (pc = "classify").                     *)
(*                                                                          *)
(* The counts of the job are the numbers of lines of each fate.             *)
(***************************************************************************)
EXTENDS LineBatches, OutputParts

Verdicts == {"parsed", "rubbish", "uncertain", "throws"}
Fates == {"unread", "parsed", "dropped", "failed"}

CONSTANTS Files,        \* what the classifier, without AI, says of each line
          AiBudget,     \* MAX_AI_CALLS_PER_JOB; 0 stands for AI switched off
          MaxAttempts,  \* bound: parses of the job
          MaxFaults     \* bound: inserts, uploads, manifests and reads that fail

ASSUME StreamParserAssumption ==
  /\ Files \subseteq [Lines -> Verdicts]
  /\ AiBudget \in Nat /\ MaxAttempts \in Nat \ {0} /\ MaxFaults \in Nat

VARIABLES verdict,   \* the file
          pc,        \* where parseJob is
          dbFlush,   \* where the final flushBatches is
          lineNo,    \* the line in hand
          fate,      \* what became of each line in this attempt
          aiCalls,   \* AI calls charged to the budget
          attempt,   \* parses begun
          outcome,   \* how the last parse ended
          clean,     \* it began with no trace of an earlier one in the process
          faults
parseVars == <<verdict, pc, dbFlush, lineNo, fate, aiCalls, attempt, outcome, clean, faults>>
vars == <<batchVars, partVars, parseVars>>

Init ==
  /\ BatchesInit
  /\ PartsInit
  /\ verdict \in Files
  /\ pc = "idle"
  /\ dbFlush = "idle"
  /\ lineNo = 0
  /\ fate = [l \in Lines |-> "unread"]
  /\ aiCalls = 0
  /\ attempt = 0
  /\ outcome = "none"
  /\ clean = TRUE
  /\ faults = 0

\* Nothing the loop keeps besides pc and the fates changes.
LoopRest == UNCHANGED <<verdict, dbFlush, aiCalls, attempt, outcome, clean, faults>>
Fault == faults < MaxFaults /\ faults' = faults + 1

Begin ==
  /\ pc \in {"idle", "ended"}
  /\ attempt < MaxAttempts
  /\ attempt' = attempt + 1
  /\ pc' = "read"
  /\ dbFlush' = "idle"
  /\ lineNo' = 0
  /\ fate' = [l \in Lines |-> "unread"]
  /\ aiCalls' = 0
  /\ outcome' = "none"
  /\ clean' = Quiet
  /\ NewBatches
  /\ NewManager
  /\ UNCHANGED <<verdict, faults>>

\* The next line, and drainIfReady up to its await or to its end.
NextLine ==
  /\ pc = "read"
  /\ lineNo < LineCount
  /\ lineNo' = lineNo + 1
  /\ \/ TakeOldest /\ pc' = "drain"
     \/ ~QueueFull /\ Drain /\ pc' = "classify"
  /\ LoopRest /\ UNCHANGED <<partVars, fate>>

DrainAfterWait ==
  /\ pc = "drain"
  /\ awaited = Done
  /\ Drain
  /\ pc' = "classify"
  /\ LoopRest /\ UNCHANGED <<partVars, lineNo, fate>>

\* case "parsed", and the JSON lines of case "uncertain".  The row is
\* counted after the wait that addRow may ask for.
TakeRow ==
  /\ AddRow(lineNo)
  /\ IF backlog' = {}
     THEN pc' = "read" /\ fate' = [fate EXCEPT ![lineNo] = "parsed"]
     ELSE pc' = "backpressure" /\ UNCHANGED fate
  /\ UNCHANGED batchVars

DropRubbish ==
  /\ PushTo("rubbish_logs", lineNo)
  /\ pc' = "read"
  /\ fate' = [fate EXCEPT ![lineNo] = "dropped"]
  /\ UNCHANGED partVars

DeadLetter ==
  /\ PushTo("dead_letters", lineNo)
  /\ pc' = "read"
  /\ fate' = [fate EXCEPT ![lineNo] = "failed"]
  /\ UNCHANGED partVars

\* The switch over the verdict v.
Route(v) ==
  \/ v = "parsed" /\ TakeRow
  \/ v = "rubbish" /\ DropRubbish
  \/ v = "uncertain" /\ DeadLetter

\* classify throws: the line is counted as dropped and stored nowhere.
SkipLine ==
  /\ pc' = "read"
  /\ fate' = [fate EXCEPT ![lineNo] = "dropped"]
  /\ UNCHANGED <<batchVars, partVars>>

AskAi == verdict[lineNo] = "uncertain" /\ aiCalls < AiBudget

Classify ==
  /\ pc = "classify"
  /\ \/ verdict[lineNo] = "throws" /\ SkipLine
     \/ AskAi /\ pc' = "ai" /\ UNCHANGED <<fate, batchVars, partVars>>
     \/ ~AskAi /\ Route(verdict[lineNo])
  /\ LoopRest /\ UNCHANGED lineNo

\* classifyWithTimeout answers: from the cache (nothing used), from the
\* model, or with "uncertain" and nothing used after the timeout or an error.
AiAnswers(v, used) ==
  /\ pc = "ai"
  /\ aiCalls' = aiCalls + used
  /\ Route(v)
  /\ UNCHANGED <<verdict, dbFlush, lineNo, attempt, outcome, clean, faults>>

RowsLanded ==
  /\ pc = "backpressure"
  /\ AllLanded(backlog)
  /\ pc' = "read"
  /\ fate' = [fate EXCEPT ![lineNo] = "parsed"]
  /\ LoopRest /\ UNCHANGED <<batchVars, partVars, lineNo>>

\* Into the catch and, in the finally, flushAll.  The batches are left.
Fatal ==
  /\ pc' = "fatal"
  /\ FlushAllAgain
  /\ UNCHANGED <<batchVars, verdict, dbFlush, lineNo, fate, aiCalls, attempt, outcome, clean>>

RowsRejected ==
  /\ pc = "backpressure"
  /\ SomeFailed(backlog)
  /\ Fatal
  /\ UNCHANGED faults

ReadFails == pc = "read" /\ Fault /\ Fatal

Flushed == pc = "flush" /\ dbFlush = "done" /\ flusher = "done"
\* PARSING_COMPLETED, or the FAILED of the quality gate, cannot be sent.
PublishFails == Flushed /\ Fault /\ Fatal

\* The loop is over: Promise.all of flushBatches(true) and flushAll.
FinalFlush ==
  /\ pc = "read"
  /\ lineNo = LineCount
  /\ pc' = "flush"
  /\ dbFlush' = "rest"
  /\ FlushRest
  /\ UNCHANGED <<partVars, verdict, lineNo, fate, aiCalls, attempt, outcome, clean, faults>>

BatchesFlushed ==
  /\ dbFlush = "rest"
  /\ AllDone
  /\ dbFlush' = "done"
  /\ ForgetTasks
  /\ UNCHANGED <<partVars, verdict, pc, lineNo, fate, aiCalls, attempt, outcome, clean, faults>>

PartsFlush ==
  /\ pc \in {"flush", "fatal"}
  /\ FlushAllStart \/ FlushAllStep
  /\ UNCHANGED <<batchVars, parseVars>>

PartsRejected == pc = "flush" /\ flusher = "rejected" /\ Fatal /\ UNCHANGED faults

Count(f) == Cardinality({l \in Lines : fate[l] = f})

\* QualityGate.passesQualityGate: one parsed line is enough, otherwise at
\* most 70 % of the parsed and failed lines may have failed.
PassesQualityGate ==
  \/ Count("parsed") >= 1
  \/ 10 * Count("failed") <= 7 * (Count("parsed") + Count("failed"))

End(how) ==
  /\ pc' = "ended"
  /\ outcome' = how
  /\ UNCHANGED <<batchVars, partVars, verdict, dbFlush, lineNo, fate, aiCalls, attempt, clean, faults>>

Finish ==
  /\ Flushed
  /\ End(IF PassesQualityGate THEN "completed" ELSE "rejected")

FinishFatal ==
  /\ pc = "fatal" /\ flusher \in {"done", "rejected"}
  /\ End("failed")

\* What the environment does while the parse waits.
Settles ==
  /\ pc # "classify"
  /\ \/ InsertSettles(TRUE) /\ UNCHANGED <<partVars, parseVars>>
     \/ UploadSettles(TRUE) /\ UNCHANGED <<batchVars, parseVars>>

ParseRest == UNCHANGED <<verdict, pc, dbFlush, lineNo, fate, aiCalls, attempt, outcome, clean>>

SettlesBadly ==
  /\ pc # "classify"
  /\ Fault /\ ParseRest
  /\ \/ InsertSettles(FALSE) /\ UNCHANGED partVars
     \/ UploadSettles(FALSE) /\ UNCHANGED batchVars
     \/ pc \in {"flush", "fatal"} /\ ManifestFails /\ UNCHANGED batchVars

\* The container is replaced: during a parse, or while the registry still has
\* an instance of the last one.
Crash ==
  /\ pc # "idle" /\ (pc = "ended" => buf.live)
  /\ pc' = "ended"
  /\ outcome' = IF pc = "ended" THEN outcome ELSE "crashed"
  /\ dbFlush' = "idle"
  /\ LoseBatches
  /\ LoseBuffer
  /\ UNCHANGED <<verdict, lineNo, fate, aiCalls, attempt, clean, faults>>

ParseStep ==
  \/ NextLine \/ DrainAfterWait \/ Classify
  \/ \E v \in {"parsed", "rubbish", "uncertain"}, used \in {0, 1} : AiAnswers(v, used)
  \/ RowsLanded \/ RowsRejected
  \/ FinalFlush \/ BatchesFlushed \/ PartsFlush \/ PartsRejected
  \/ Finish \/ FinishFatal

Next ==
  \/ Begin \/ ParseStep \/ Settles \/ SettlesBadly \/ ReadFails \/ PublishFails \/ Crash

Spec == Init /\ [][Next]_vars

\* The event loop runs, and every insert and upload settles one day.
FairSpec == Spec /\ WF_vars(ParseStep) /\ WF_vars(Settles)

-----------------------------------------------------------------------------
(* Every variable keeps its type.                                           *)
IsTask(task) == DOMAIN task \subseteq Tables /\ \A t \in DOMAIN task : task[t] \in Seq(Lines)
IsUpload(u) ==
  /\ u.gen \in Nat /\ u.from \in Nat /\ u.to \in Nat
  /\ u.rows \in Seq(Lines)
  /\ u.status \in {"running", "landed", "failed"}
TypeOK ==
  /\ batch \in [Tables -> Seq(Lines)]
  /\ \A i \in DOMAIN bgFlushes : IsTask(bgFlushes[i])
  /\ IsTask(awaited)
  /\ \A s \in strays : s[1] \in Tables /\ s[2] \in Seq(Lines)
  /\ table \in [Tables -> SUBSET Lines]
  /\ buf.gen \in Nat /\ buf.live \in BOOLEAN /\ buf.rows \in Seq(Lines)
  /\ buf.flushed \in Nat /\ buf.pending \subseteq Nat
  /\ held \in BOOLEAN
  /\ \A u \in uploads : IsUpload(u)
  /\ \A n \in DOMAIN objects : objects[n] \in Seq(Lines)
  /\ backlog \subseteq Nat
  /\ flusher \in {"idle", "pending", "last", "manifest", "done", "rejected"}
  /\ paths \subseteq (Nat \X Nat)
  /\ verdict \in Files
  /\ pc \in {"idle", "read", "drain", "classify", "ai", "backpressure", "flush", "fatal", "ended"}
  /\ dbFlush \in {"idle", "rest", "done"}
  /\ lineNo \in 0 .. LineCount
  /\ fate \in [Lines -> Fates]
  /\ aiCalls \in 0 .. AiBudget
  /\ attempt \in 0 .. MaxAttempts
  /\ outcome \in {"none", "completed", "rejected", "failed", "crashed"}
  /\ clean \in BOOLEAN
  /\ faults \in 0 .. MaxFaults

Completed == pc = "ended" /\ outcome = "completed"
LinesOf(f) == {l \in Lines : fate[l] = f}

\* The rows, with their part, in the objects that PARSING_COMPLETED names.
PublishedRows ==
  {<<n, i>> : n \in paths, i \in 1 .. LineCount} \intersect
  UNION {{<<n, i>> : i \in DOMAIN objects[n]} : n \in paths}

(* A parse that completed published every line it parsed exactly once: the  *)
(* objects named in PARSING_COMPLETED exist and hold the parsed lines, none *)
(* of them twice.  This is stated for a parse that began with no buffer and *)
(* no upload of an earlier parse in the process (clean): see the README for *)
(* what a late upload of an earlier attempt can do.                         *)
PublishedPartsExact ==
  Completed /\ clean =>
    /\ paths \subseteq DOMAIN objects
    /\ {objects[r[1]][r[2]] : r \in PublishedRows} = LinesOf("parsed")
    /\ Cardinality(PublishedRows) = Cardinality(LinesOf("parsed"))

(* PARSING_COMPLETED is sent when nothing of this parse is under way any    *)
(* more: no insert of a batch, and no upload of a part that it names.       *)
NothingLeftOpen ==
  pc = "ended" /\ outcome \in {"completed", "rejected"} =>
    /\ OpenInserts = {}
    /\ ~held
    /\ \A u \in uploads : PartName(u) \in paths /\ u.gen = buf.gen => u.status = "landed"

(* The back-pressure of the loop holds: never more background tasks than    *)
(* the queue depth, nor, in a parse that began with a buffer of its own,    *)
(* more uploads pending than the limit.                                     *)
BackgroundBounded ==
  /\ Len(bgFlushes) <= QueueDepth
  /\ clean => Cardinality({u \in uploads : u.gen = buf.gen /\ u.status = "running"}) <= MaxPending

(* Every parse ends: no wait of the loop, of the final flush or of the      *)
(* error path is for something that cannot happen.                          *)
ParseEnds == (pc \notin {"idle", "ended"}) ~> (pc = "ended")
=============================================================================
