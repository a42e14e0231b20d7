--------------------------- MODULE LineBatches ---------------------------
(***************************************************************************)
(* The two database batches of one parse (parseJob of the stream parser):   *)
(* rubbish lines and dead letters are collected in rubbishBatch and         *)
(* dlqBatch, a batch that has reached BatchSize is inserted in the          *)
(* background (drainIfReady), at most QueueDepth of these background tasks  *)
(* exist at a time, and what is left is inserted at the end                 *)
(* (flushBatches).                                                          *)
(*                                                                          *)
(* bulkCreate copies the rows when it is called; the batch itself is only   *)
(* emptied by the callback of an insert that succeeded.  That callback      *)
(* replaces the batch whatever was pushed to it since the copy was taken.   *)
(*                                                                          *)
(* A background task is the function from the tables whose inserts are      *)
(* still open to the rows of these inserts; the empty function is a task    *)
(* that is done.  A line is its number in the file.                         *)
(***************************************************************************)
EXTENDS Integers, Sequences, FiniteSets, Functions

CONSTANTS LineCount,    \* lines in the file
          BatchSize,    \* PARSE_DB_FLUSH_BATCH_SIZE, at least 1
          QueueDepth    \* PARSE_BG_FLUSH_QUEUE_DEPTH

ASSUME LineBatchesAssumption ==
  /\ LineCount \in Nat
  /\ BatchSize \in Nat \ {0}
  /\ QueueDepth \in Nat \ {0}

Lines == 1 .. LineCount
Tables == {"rubbish_logs", "dead_letters"}
Done == <<>>

VARIABLES batch,      \* rubbishBatch and dlqBatch: lines pushed, by table
          bgFlushes,  \* the background tasks, oldest first
          awaited,    \* the task the parse is waiting for
          strays,     \* open inserts of attempts that are over
          table       \* lines stored, by table
batchVars == <<batch, bgFlushes, awaited, strays, table>>

BatchesInit ==
  /\ batch = [t \in Tables |-> <<>>]
  /\ bgFlushes = <<>>
  /\ awaited = Done
  /\ strays = {}
  /\ table = [t \in Tables |-> {}]

\* The inserts of the batches in S, with the rows the batches hold now.
Inserts(S) == [t \in S |-> batch[t]]
FullTables == {t \in Tables : Len(batch[t]) >= BatchSize}
OpenTables == {t \in Tables : batch[t] # <<>>}
OverFull == Len(bgFlushes) > QueueDepth
QueueFull == Len(bgFlushes) >= QueueDepth

\* drainIfReady takes the oldest task out of a full queue and waits for it.
TakeOldest ==
  /\ QueueFull
  /\ awaited' = Head(bgFlushes)
  /\ bgFlushes' = Tail(bgFlushes)
  /\ UNCHANGED <<batch, strays, table>>

\* The rest of drainIfReady: a task for the batches that are full.
Drain ==
  /\ bgFlushes' = IF FullTables = {} THEN bgFlushes
                  ELSE Append(bgFlushes, Inserts(FullTables))
  /\ UNCHANGED <<batch, awaited, strays, table>>

PushTo(t, line) ==
  /\ batch' = [batch EXCEPT ![t] = Append(@, line)]
  /\ UNCHANGED <<bgFlushes, awaited, strays, table>>

\* flushBatches(true) inserts what the batches hold and waits for it, then
\* for every background task.
FlushRest ==
  /\ awaited' = Inserts(OpenTables)
  /\ UNCHANGED <<batch, bgFlushes, strays, table>>

RestDone == awaited = Done
TasksDone == \A i \in DOMAIN bgFlushes : bgFlushes[i] = Done
AllDone == awaited = Done /\ TasksDone

\* bgFlushes.splice(0), after the wait.  A task that is not done would run on.
ForgetTasks ==
  /\ bgFlushes' = IF TasksDone THEN <<>> ELSE bgFlushes
  /\ UNCHANGED <<batch, awaited, strays, table>>

\* The task without its insert into t, which has settled.
Without(task, t) == Restrict(task, DOMAIN task \ {t})

\* The .then and .catch of one insert.
Stored(t, rows) ==
  /\ table' = [table EXCEPT ![t] = @ \union Range(rows)]
  /\ batch' = [batch EXCEPT ![t] = <<>>]
NotStored == UNCHANGED <<table, batch>>

SettleOldest(t, ok) ==
  /\ t \in DOMAIN awaited
  /\ awaited' = Without(awaited, t)
  /\ IF ok THEN Stored(t, awaited[t]) ELSE NotStored
  /\ UNCHANGED <<bgFlushes, strays>>

SettleQueued(i, t, ok) ==
  /\ i \in DOMAIN bgFlushes /\ t \in DOMAIN bgFlushes[i]
  /\ bgFlushes' = [bgFlushes EXCEPT ![i] = Without(@, t)]
  /\ IF ok THEN Stored(t, bgFlushes[i][t]) ELSE NotStored
  /\ UNCHANGED <<awaited, strays>>

\* An insert of an attempt that is over: its callback empties a batch that
\* nobody reads any more.
SettleStray(s, ok) ==
  /\ s \in strays
  /\ strays' = strays \ {s}
  /\ table' = IF ok THEN [table EXCEPT ![s[1]] = @ \union Range(s[2])] ELSE table
  /\ UNCHANGED <<batch, bgFlushes, awaited>>

InsertSettles(ok) ==
  \/ \E t \in Tables : SettleOldest(t, ok)
  \/ \E i \in DOMAIN bgFlushes, t \in Tables : SettleQueued(i, t, ok)
  \/ \E s \in strays : SettleStray(s, ok)

\* The open inserts of this attempt, as strays of the next one.
OpenInserts ==
  UNION {{<<t, task[t]>> : t \in DOMAIN task} : task \in {awaited} \union Range(bgFlushes)}

\* A new attempt has batches and a queue of its own.
NewBatches ==
  /\ batch' = [t \in Tables |-> <<>>]
  /\ bgFlushes' = <<>>
  /\ awaited' = Done
  /\ strays' = strays \union OpenInserts
  /\ UNCHANGED table

\* The process is gone, with its batches and its open inserts.
LoseBatches ==
  /\ batch' = [t \in Tables |-> <<>>]
  /\ bgFlushes' = <<>>
  /\ awaited' = Done
  /\ strays' = {}
  /\ UNCHANGED table
=============================================================================
