------------------------- MODULE StreamParserProofs -------------------------
(***************************************************************************)
(* What is proved of StreamParser for every file, every threshold and every *)
(* number of attempts and faults.                                           *)
(*                                                                          *)
(* PartsInv is PartsDisjoint made inductive: every upload belongs to an     *)
(* instance that exists already, and ends before the rows that the present  *)
(* instance has cut off so far.  The next part begins there.                *)
(***************************************************************************)
EXTENDS StreamParser, FiniteSetTheorems, TLAPS

Buffers ==
  [gen : Nat, live : BOOLEAN, rows : Seq(Nat), flushed : Nat, pending : SUBSET Nat]
Statuses == {"running", "landed", "failed"}
Uploads == [gen : Nat, from : Nat, to : Nat, rows : Seq(Nat), status : Statuses]

Behind(u) == u.gen <= buf.gen /\ (u.gen = buf.gen => u.to <= buf.flushed)

PartsInv ==
  /\ buf \in Buffers
  /\ uploads \subseteq Uploads
  /\ \A u \in uploads : Behind(u)
  /\ PartsDisjoint

ParserInv == PartsInv /\ lineNo \in Nat

\* What an instance has cut off is disjoint from what it cuts off next.
LEMMA NextPart ==
  ASSUME NEW b \in Buffers, PartsInv,
         \/ b.gen = buf.gen /\ b.flushed = buf.flushed
         \/ b.gen = buf.gen + 1,
         uploads' = uploads \union {UploadOf(b)},
         NEW p \in SUBSET Nat, buf' = [Cut(b) EXCEPT !.pending = p]
  PROVE  PartsInv'
<1> DEFINE w == UploadOf(b)
<1>1. Len(b.rows) \in Nat
  BY DEF Buffers
<1>2. /\ w \in Uploads
      /\ w.gen = b.gen /\ w.from = b.flushed /\ w.to = b.flushed + Len(b.rows)
  <2>1. b.gen \in Nat /\ b.flushed \in Nat /\ b.rows \in Seq(Nat)
    BY DEF Buffers
  <2>2. b.flushed + Len(b.rows) \in Nat
    BY <1>1, <2>1
  <2>3. "running" \in Statuses
    BY DEF Statuses
  <2> QED
    BY <2>1, <2>2, <2>3 DEF UploadOf, Uploads
<1>3. /\ buf' \in Buffers
      /\ buf'.gen = b.gen /\ buf'.flushed = b.flushed + Len(b.rows)
  <2>1. /\ b.flushed + Len(b.rows) \in Nat
        /\ <<>> \in Seq(Nat)
    BY <1>1 DEF Buffers
  <2>2. /\ Cut(b) \in Buffers
        /\ Cut(b).gen = b.gen /\ Cut(b).flushed = b.flushed + Len(b.rows)
    BY <2>1 DEF Cut, Buffers
  <2> QED
    BY <2>2 DEF Buffers
<1>4. uploads' \subseteq Uploads
  BY <1>2 DEF PartsInv
<1>5. ASSUME NEW u \in uploads
      PROVE  /\ Behind(u)'
             /\ u.gen = w.gen => u.to <= w.from
  <2>1. u \in Uploads /\ Behind(u) /\ buf \in Buffers
    BY DEF PartsInv
  <2> QED
    BY <2>1, <1>1, <1>2, <1>3 DEF Behind, Uploads, Buffers
<1>6. Behind(w)'
  BY <1>1, <1>2, <1>3 DEF Behind, Buffers
<1>7. PartsDisjoint'
  BY <1>5 DEF PartsDisjoint, PartsInv
<1> QED
  BY <1>3, <1>4, <1>5, <1>6, <1>7 DEF PartsInv

\* A step that adds no upload, and keeps or only releases the instance.
LEMMA NoNewPart ==
  ASSUME PartsInv, uploads' \subseteq uploads,
         buf' \in Buffers, buf'.gen = buf.gen, buf'.flushed = buf.flushed
  PROVE  PartsInv'
BY DEF PartsInv, PartsDisjoint, Behind

LEMMA ReleasedBuffer ==
  ASSUME NEW b \in Buffers
  PROVE  Released(b) \in Buffers /\ Released(b).gen = b.gen /\ Released(b).flushed = b.flushed
<1>1. <<>> \in Seq(Nat)
  OBVIOUS
<1> QED
  BY <1>1 DEF Released, Buffers

LEMMA AddRowKeeps ==
  ASSUME PartsInv, NEW line \in Nat, AddRow(line)
  PROVE  PartsInv'
<1> DEFINE b == [Instance EXCEPT !.rows = Append(@, line)]
           started == b.pending \union {b.flushed}
<1>1. buf \in Buffers
  BY DEF PartsInv
<1>2. /\ Instance \in Buffers
      /\ \/ Instance = buf
         \/ Instance.gen = buf.gen + 1
  BY <1>1 DEF Instance, NewBuffer, Buffers
<1>3. Append(Instance.rows, line) \in Seq(Nat)
  BY <1>2 DEF Buffers
<1>4. /\ b \in Buffers
      /\ b.gen = Instance.gen /\ b.flushed = Instance.flushed
      /\ started \in SUBSET Nat
  BY <1>2, <1>3 DEF Buffers
<1>5. CASE ShouldFlush(b, line)
  <2>1. PICK p \in SUBSET Nat : buf' = [Cut(b) EXCEPT !.pending = p]
    BY <1>4, <1>5 DEF AddRow
  <2>2. uploads' = uploads \union {UploadOf(b)}
    BY <1>5 DEF AddRow
  <2> HIDE DEF b
  <2> QED
    BY <1>2, <1>4, <2>1, <2>2, NextPart
<1>6. CASE ~ShouldFlush(b, line)
  <2>1. buf' = b /\ uploads' = uploads
    BY <1>6 DEF AddRow
  <2>2. CASE Instance = buf
    BY <2>1, <2>2, <1>4, NoNewPart
  <2>3. CASE Instance.gen = buf.gen + 1
    <3>1. buf' \in Buffers /\ buf'.gen = buf.gen + 1 /\ uploads' = uploads
      BY <2>1, <2>3, <1>4
    <3>2. buf.gen \in Nat
      BY <1>1 DEF Buffers
    <3>3. ASSUME NEW u \in uploads
          PROVE  Behind(u)'
      <4>1. u.gen \in Nat /\ u.gen <= buf.gen
        BY DEF PartsInv, Uploads, Behind
      <4> QED
        BY <3>1, <3>2, <4>1 DEF Behind
    <3> QED
      BY <3>1, <3>3 DEF PartsInv, PartsDisjoint
  <2> QED
    BY <2>2, <2>3, <1>2
<1> QED
  BY <1>5, <1>6

LEMMA UploadSettlesKeeps ==
  ASSUME PartsInv, NEW ok \in BOOLEAN, UploadSettles(ok)
  PROVE  PartsInv'
<1>1. PICK u \in uploads :
        uploads' = (uploads \ {u}) \union
                   {[u EXCEPT !.status = IF ok THEN "landed" ELSE "failed"]}
  BY DEF UploadSettles
<1> DEFINE s == [u EXCEPT !.status = IF ok THEN "landed" ELSE "failed"]
<1>2. buf' = buf
  BY DEF UploadSettles
<1>3. /\ s \in Uploads
      /\ s.gen = u.gen /\ s.from = u.from /\ s.to = u.to
  <2>1. u \in Uploads /\ (IF ok THEN "landed" ELSE "failed") \in Statuses
    BY DEF PartsInv, Statuses
  <2> QED
    BY <2>1 DEF Uploads
<1> HIDE DEF s
<1>4. uploads' = (uploads \ {u}) \union {s}
  BY <1>1 DEF s
<1>5. PartsDisjoint'
  BY <1>3, <1>4 DEF PartsInv, PartsDisjoint
<1> QED
  BY <1>2, <1>3, <1>4, <1>5 DEF PartsInv, Behind

LEMMA FlushAllKeeps ==
  ASSUME PartsInv, FlushAllStart \/ FlushAllStep
  PROVE  PartsInv'
<1>1. buf \in Buffers
  BY DEF PartsInv
<1>2. CASE FlushAllStart \/ PendingRejected \/ LastSettled
  BY <1>1, <1>2, NoNewPart DEF FlushAllStart, PendingRejected, LastSettled
<1>3. CASE PendingLanded
  <2>1. CASE buf.rows = <<>>
    <3>1. buf' = [buf EXCEPT !.pending = {}] /\ uploads' = uploads
      BY <1>3, <2>1 DEF PendingLanded
    <3>2. buf' \in Buffers /\ buf'.gen = buf.gen /\ buf'.flushed = buf.flushed
      BY <1>1, <3>1 DEF Buffers
    <3> QED
      BY <3>1, <3>2, NoNewPart
  <2>2. CASE buf.rows # <<>>
    <3>1. /\ uploads' = uploads \union {UploadOf(buf)}
          /\ buf' = [Cut(buf) EXCEPT !.pending = {}]
      BY <1>3, <2>2 DEF PendingLanded
    <3>2. \E b \in Buffers : /\ b = buf
                              /\ uploads' = uploads \union {UploadOf(b)}
                              /\ buf' = [Cut(b) EXCEPT !.pending = {}]
      BY <1>1, <3>1
    <3>3. {} \in SUBSET Nat
      OBVIOUS
    <3> QED
      BY <3>2, <3>3, NextPart
  <2> QED
    BY <2>1, <2>2
<1>4. CASE Release
  <2>1. buf' = Released(buf) /\ uploads' = uploads
    BY <1>4 DEF Release
  <2> QED
    BY <1>1, <2>1, NoNewPart, ReleasedBuffer
<1> QED
  BY <1>2, <1>3, <1>4 DEF FlushAllStep

LEMMA PartsStep ==
  ASSUME ParserInv, [Next]_vars
  PROVE  PartsInv'
<1>1. buf \in Buffers /\ lineNo \in Nat
  BY DEF ParserInv, PartsInv
<1> USE DEF ParserInv
<1>2. CASE UNCHANGED partVars
  BY <1>1, <1>2, NoNewPart DEF partVars
<1>3. CASE Begin
  BY <1>1, <1>3, NoNewPart DEF Begin, NewManager
<1>4. ASSUME NEW v, Route(v)
      PROVE  PartsInv'
  BY <1>1, <1>2, <1>4, AddRowKeeps DEF Route, TakeRow, DropRubbish, DeadLetter
<1>5. CASE Classify
  BY <1>2, <1>4, <1>5 DEF Classify, SkipLine
<1>6. CASE \E v \in {"parsed", "rubbish", "uncertain"}, used \in {0, 1} : AiAnswers(v, used)
  BY <1>4, <1>6 DEF AiAnswers
<1>7. ASSUME Fatal
      PROVE  PartsInv'
  BY <1>1, <1>7, NoNewPart DEF Fatal, FlushAllAgain
<1>8. CASE RowsRejected \/ PartsRejected \/ ReadFails \/ PublishFails
  BY <1>7, <1>8 DEF RowsRejected, PartsRejected, ReadFails, PublishFails
<1>9. CASE PartsFlush
  BY <1>9, FlushAllKeeps DEF PartsFlush
<1>10. CASE NextLine \/ DrainAfterWait \/ RowsLanded \/ FinalFlush \/ BatchesFlushed
            \/ Finish \/ FinishFatal
  BY <1>2, <1>10 DEF NextLine, DrainAfterWait, RowsLanded, FinalFlush, BatchesFlushed,
       Finish, FinishFatal, End
<1>11. CASE Settles
  BY <1>2, <1>11, UploadSettlesKeeps DEF Settles
<1>12. CASE SettlesBadly
  <2>1. CASE ManifestFails
    BY <1>1, <2>1, NoNewPart DEF ManifestFails
  <2> QED
    BY <1>2, <1>12, <2>1, UploadSettlesKeeps DEF SettlesBadly
<1>13. CASE Crash
  <2>1. buf' = Released(buf) /\ uploads' \subseteq uploads
    BY <1>13 DEF Crash, LoseBuffer
  <2> QED
    BY <1>1, <2>1, NoNewPart, ReleasedBuffer
<1>14. CASE UNCHANGED vars
  BY <1>2, <1>14 DEF vars
<1> QED
  BY <1>3, <1>5, <1>6, <1>8, <1>9, <1>10, <1>11, <1>12, <1>13, <1>14 DEF Next, ParseStep

LEMMA LineStep ==
  ASSUME lineNo \in Nat, [Next]_vars
  PROVE  lineNo' \in Nat
<1>1. CASE Begin \/ NextLine
  BY <1>1 DEF Begin, NextLine
<1>2. CASE UNCHANGED lineNo
  BY <1>2
<1>3. CASE ~(Begin \/ NextLine)
  BY <1>2, <1>3 DEF Next, vars, parseVars, ParseStep, DrainAfterWait, Classify, LoopRest, AiAnswers, RowsLanded, Fatal, RowsRejected, ReadFails, PublishFails, FinalFlush, BatchesFlushed,
  PartsFlush, PartsRejected, Finish, FinishFatal, End, Settles, SettlesBadly, ParseRest, Crash
<1> QED
  BY <1>1, <1>3

LEMMA ParserInit == Init => ParserInv
<1> SUFFICES ASSUME Init PROVE ParserInv
  OBVIOUS
<1>1. NewBuffer(0) \in Buffers
  BY DEF NewBuffer, Buffers
<1>2. buf \in Buffers /\ uploads = {} /\ lineNo = 0
  BY <1>1, ReleasedBuffer DEF Init, PartsInit
<1> QED
  BY <1>2 DEF ParserInv, PartsInv, PartsDisjoint

LEMMA ParserStep == ParserInv /\ [Next]_vars => ParserInv'
BY PartsStep, LineStep DEF ParserInv

(* No upload of a buffer replaces another part of the same buffer, whatever *)
(* the thresholds, the file and the order in which uploads settle or fail.  *)
THEOREM PartsNeverCollide == Spec => []PartsDisjoint
<1>1. ParserInv => PartsDisjoint
  BY DEF ParserInv, PartsInv
<1> QED
  BY ParserInit, ParserStep, <1>1, PTL DEF Spec

-----------------------------------------------------------------------------
(***************************************************************************)
(* What a step does to the parts, to the fates of the lines and to pc.     *)
(***************************************************************************)
loopVars == <<lineNo, fate, clean, outcome>>

Loop == {"read", "drain", "classify", "ai", "backpressure"}

Same == UNCHANGED <<partVars, pc, loopVars>>

Walks ==
  /\ \/ pc = "drain" /\ pc' = "classify"
     \/ pc = "classify" /\ pc' = "ai"
  /\ UNCHANGED <<partVars, loopVars>>

Collects ==
  /\ pc \in {"classify", "ai"}
  /\ AddRow(lineNo)
  /\ \/ backlog' = {} /\ pc' = "read" /\ fate' = [fate EXCEPT ![lineNo] = "parsed"]
     \/ backlog' # {} /\ pc' = "backpressure" /\ UNCHANGED fate
  /\ UNCHANGED <<lineNo, clean, outcome>>

PassesOver ==
  /\ pc \in {"classify", "ai"} /\ pc' = "read"
  /\ \E f \in {"dropped", "failed"} : fate' = [fate EXCEPT ![lineNo] = f]
  /\ UNCHANGED <<partVars, lineNo, clean, outcome>>

Breaks ==
  /\ \/ pc = "backpressure" /\ SomeFailed(backlog)
     \/ pc = "read"
     \/ pc = "flush" /\ flusher \in {"done", "rejected"}
  /\ pc' = "fatal" /\ FlushAllAgain
  /\ UNCHANGED loopVars

Ends ==
  /\ \/ pc = "flush" /\ flusher = "done" /\ dbFlush = "done" /\ outcome' \in {"completed", "rejected"}
     \/ pc = "fatal" /\ outcome' = "failed"
  /\ pc' = "ended"
  /\ UNCHANGED <<partVars, lineNo, fate, clean>>

Uploaded ==
  /\ \E ok \in BOOLEAN : UploadSettles(ok)
  /\ UNCHANGED <<pc, loopVars>>

FlushAlls ==
  /\ pc \in {"flush", "fatal"}
  /\ FlushAllStart \/ FlushAllStep \/ ManifestFails
  /\ UNCHANGED <<pc, loopVars>>

LEMMA Kinds ==
  ASSUME [Next]_vars
  PROVE  \/ Same \/ Begin \/ NextLine \/ Walks \/ Collects \/ PassesOver \/ RowsLanded \/ Breaks
         \/ FinalFlush \/ FlushAlls \/ Ends \/ Uploaded \/ Crash
<1> USE DEF loopVars
<1>1. ASSUME NEW v \in {"parsed", "rubbish", "uncertain"}, Route(v), pc \in {"classify", "ai"},
             UNCHANGED <<lineNo, clean, outcome>>
      PROVE  Collects \/ PassesOver
  BY <1>1 DEF Route, TakeRow, DropRubbish, DeadLetter, Collects, PassesOver
<1>2. CASE Classify
  <2>1. CASE AskAi /\ pc' = "ai" /\ UNCHANGED <<fate, batchVars, partVars>>
    BY <1>2, <2>1 DEF Classify, LoopRest, Walks
  <2>2. CASE SkipLine
    BY <1>2, <2>2 DEF Classify, LoopRest, SkipLine, PassesOver
  <2>3. CASE Route(verdict[lineNo])
    <3>1. verdict[lineNo] \in {"parsed", "rubbish", "uncertain"}
      BY <2>3 DEF Route
    <3> QED BY <1>1, <1>2, <2>3, <3>1 DEF Classify, LoopRest
  <2> QED BY <1>2, <2>1, <2>2, <2>3 DEF Classify
<1>3. CASE \E v \in {"parsed", "rubbish", "uncertain"}, used \in {0, 1} : AiAnswers(v, used)
  BY <1>1, <1>3 DEF AiAnswers
<1>4. CASE RowsRejected \/ PartsRejected \/ ReadFails \/ PublishFails
  BY <1>4 DEF RowsRejected, PartsRejected, ReadFails, PublishFails, Flushed, Fatal, Breaks
<1>5. CASE PartsFlush
  BY <1>5 DEF PartsFlush, FlushAlls, parseVars
<1>6. CASE Finish \/ FinishFatal
  BY <1>6 DEF Finish, FinishFatal, Flushed, End, Ends
<1>7. CASE Settles
  BY <1>7 DEF Settles, Uploaded, Same, parseVars
<1>8. CASE SettlesBadly
  BY <1>8 DEF SettlesBadly, ParseRest, Uploaded, FlushAlls, Same
<1>9. CASE DrainAfterWait
  BY <1>9 DEF DrainAfterWait, LoopRest, Walks
<1>10. CASE BatchesFlushed
  BY <1>10 DEF BatchesFlushed, Same
<1>11. CASE UNCHANGED vars
  BY <1>11 DEF vars, parseVars, Same
<1> QED BY <1>2, <1>3, <1>4, <1>5, <1>6, <1>7, <1>8, <1>9, <1>10, <1>11 DEF Next, ParseStep

-----------------------------------------------------------------------------
(***************************************************************************)
(* Where the loop is.  Lines behind lineNo are unread; the line in hand    *)
(* has no fate yet.  The registry's instance is empty when it is released. *)
(***************************************************************************)
LoopInv ==
  /\ fate \in [Lines -> Fates] /\ lineNo \in 0 .. LineCount
  /\ pc \in Loop =>
       /\ flusher = "idle" /\ paths = {}
       /\ \A l \in Lines : l > lineNo => fate[l] = "unread"
  /\ pc \in Loop /\ pc # "read" => lineNo \in Lines /\ fate[lineNo] = "unread"
  /\ pc = "flush" /\ flusher # "done" => paths = {}

LEMMA LoopInit == Init => LoopInv
BY LineBatchesAssumption DEF Init, LoopInv, Loop, Fates

LEMMA LoopStep == LoopInv /\ [Next]_vars => LoopInv'
<1> SUFFICES ASSUME LoopInv, [Next]_vars PROVE LoopInv'
  OBVIOUS
<1>0. Lines = 1 .. LineCount /\ LineCount \in Nat
  BY LineBatchesAssumption DEF Lines
<1>1. CASE Same
  BY <1>1 DEF Same, LoopInv, loopVars, partVars
<1>2. CASE Begin
  BY <1>0, <1>2 DEF Begin, NewManager, LoopInv, Fates
<1>3. CASE NextLine
  <2>1. lineNo' = lineNo + 1 /\ lineNo < LineCount /\ pc = "read" /\ pc' \in {"drain", "classify"}
        /\ UNCHANGED <<fate, flusher, paths>>
    BY <1>3 DEF NextLine, partVars
  <2> QED BY <1>0, <2>1 DEF LoopInv, Loop
<1>4. CASE Walks
  BY <1>4 DEF Walks, LoopInv, loopVars, partVars, Loop
<1>5. CASE Collects
  <2>1. UNCHANGED <<flusher, paths, lineNo>>
    BY <1>5 DEF Collects, AddRow
  <2> QED BY <1>0, <1>5, <2>1 DEF Collects, LoopInv, Loop, Fates
<1>6. CASE PassesOver
  BY <1>0, <1>6 DEF PassesOver, LoopInv, Loop, Fates, partVars
<1>7. CASE RowsLanded
  BY <1>0, <1>7 DEF RowsLanded, LoopInv, Loop, Fates, partVars
<1>8. CASE Breaks
  BY <1>8 DEF Breaks, FlushAllAgain, LoopInv, Loop, loopVars
<1>9. CASE FinalFlush
  BY <1>9 DEF FinalFlush, LoopInv, Loop, partVars
<1>10. CASE FlushAlls
  BY <1>10 DEF FlushAlls, FlushAllStart, FlushAllStep, ManifestFails, PendingLanded, PendingRejected,
               LastSettled, Release, LoopInv, Loop, loopVars
<1>11. CASE Ends
  BY <1>11 DEF Ends, LoopInv, Loop, partVars
<1>12. CASE Uploaded
  BY <1>12 DEF Uploaded, UploadSettles, LoopInv, loopVars
<1>13. CASE Crash
  BY <1>13 DEF Crash, LoseBuffer, LoopInv, Loop
<1> QED BY <1>1, <1>2, <1>3, <1>4, <1>5, <1>6, <1>7, <1>8, <1>9, <1>10, <1>11, <1>12, <1>13, Kinds

-----------------------------------------------------------------------------
(***************************************************************************)
(* The background tasks: as many as the queue takes, one less while the    *)
(* parse waits for one; and none is open once the final flush is over.     *)
(***************************************************************************)
Task == UNION {[S -> Seq(Nat)] : S \in SUBSET Tables}

TasksInv ==
  /\ batch \in [Tables -> Seq(Nat)] /\ bgFlushes \in Seq(Task)
  /\ Len(bgFlushes) <= QueueDepth
  /\ pc = "drain" => Len(bgFlushes) < QueueDepth
  /\ dbFlush \in {"rest", "done"} => pc \in {"flush", "fatal", "ended"}
  /\ dbFlush = "done" => AllDone
  /\ pc = "ended" /\ outcome \in {"completed", "rejected"} => AllDone

LEMMA TasksInit == Init => TasksInv
<1> SUFFICES ASSUME Init PROVE TasksInv
  OBVIOUS
<1>1. batch \in [Tables -> Seq(Nat)] /\ bgFlushes \in Seq(Task) /\ Len(bgFlushes) = 0
  BY DEF Init, BatchesInit
<1> QED BY <1>1, LineBatchesAssumption DEF Init, TasksInv

LEMMA InsertsAreTasks ==
  ASSUME batch \in [Tables -> Seq(Nat)], NEW S \in SUBSET Tables
  PROVE  Inserts(S) \in Task
BY DEF Inserts, Task

LEMMA DrainKeeps ==
  ASSUME TasksInv, Len(bgFlushes) < QueueDepth, Drain
  PROVE  bgFlushes' \in Seq(Task) /\ Len(bgFlushes') <= QueueDepth
<1>1. Inserts(FullTables) \in Task
  BY InsertsAreTasks DEF TasksInv, FullTables
<1>2. Len(bgFlushes) \in Nat
  BY DEF TasksInv
<1> QED BY <1>1, <1>2, LineBatchesAssumption DEF Drain, TasksInv

LEMMA PushKeeps ==
  ASSUME TasksInv, LoopInv, pc \in {"classify", "ai"}, dbFlush' = dbFlush, pc' \notin {"drain", "ended"},
         UNCHANGED batchVars \/ \E t \in Tables : PushTo(t, lineNo)
  PROVE  TasksInv'
<1>1. lineNo \in Nat /\ dbFlush \notin {"rest", "done"}
  BY LineBatchesAssumption DEF LoopInv, TasksInv
<1>2. ASSUME NEW t \in Tables, PushTo(t, lineNo) PROVE batch' \in [Tables -> Seq(Nat)]
  <2>1. batch \in [Tables -> Seq(Nat)] /\ Append(batch[t], lineNo) \in Seq(Nat)
    BY <1>1 DEF TasksInv
  <2> QED BY <1>2, <2>1 DEF PushTo
<1>3. batch' \in [Tables -> Seq(Nat)]
  BY <1>2 DEF TasksInv, batchVars
<1> QED BY <1>1, <1>3 DEF PushTo, TasksInv, batchVars

LEMMA RouteKeepsTasks ==
  ASSUME TasksInv, LoopInv, pc \in {"classify", "ai"}, dbFlush' = dbFlush, NEW v, Route(v)
  PROVE  TasksInv'
BY PushKeeps DEF Route, TakeRow, DropRubbish, DeadLetter, Tables

\* An insert that settles leaves as many tasks, and finds nothing in a queue that is done.
LEMMA InsertSettlesKeeps ==
  ASSUME TasksInv, NEW ok \in BOOLEAN, InsertSettles(ok), UNCHANGED <<pc, dbFlush, outcome>>
  PROVE  TasksInv'
<1>1. ASSUME NEW t \in Tables, NEW rows, IF ok THEN Stored(t, rows) ELSE NotStored
      PROVE  batch' \in [Tables -> Seq(Nat)]
  <2>1. <<>> \in Seq(Nat) /\ batch \in [Tables -> Seq(Nat)]
    BY DEF TasksInv
  <2>2. CASE batch' = [batch EXCEPT ![t] = <<>>]
    BY <2>1, <2>2
  <2> QED BY <1>1, <2>1, <2>2 DEF Stored, NotStored
<1>2. ASSUME NEW t \in Tables, SettleOldest(t, ok) PROVE TasksInv'
  <2>1. batch' \in [Tables -> Seq(Nat)] /\ UNCHANGED bgFlushes
    BY <1>1, <1>2 DEF SettleOldest
  <2>2. awaited # Done
    BY <1>2 DEF SettleOldest, Done
  <2> QED BY <2>1, <2>2 DEF TasksInv, AllDone
<1>3. ASSUME NEW i \in DOMAIN bgFlushes, NEW t \in Tables, SettleQueued(i, t, ok) PROVE TasksInv'
  <2>1. batch' \in [Tables -> Seq(Nat)]
    BY <1>1, <1>3 DEF SettleQueued
  <2>2. bgFlushes[i] # Done
    BY <1>3 DEF SettleQueued, Done
  <2>3. dbFlush # "done" /\ ~(pc = "ended" /\ outcome \in {"completed", "rejected"})
    BY <2>2 DEF TasksInv, AllDone, TasksDone
  <2>4. Without(bgFlushes[i], t) \in Task
    <3>1. bgFlushes[i] \in Task
      BY DEF TasksInv
    <3>2. PICK S \in SUBSET Tables : bgFlushes[i] \in [S -> Seq(Nat)]
      BY <3>1 DEF Task
    <3>3. Without(bgFlushes[i], t) \in [S \ {t} -> Seq(Nat)]
      BY <3>2 DEF Without, Restrict
    <3> QED BY <3>3 DEF Task
  <2>5. bgFlushes' \in Seq(Task) /\ Len(bgFlushes') = Len(bgFlushes)
    BY <1>3, <2>4 DEF SettleQueued, TasksInv
  <2> QED BY <2>1, <2>3, <2>5 DEF TasksInv
<1>4. ASSUME NEW s \in strays, SettleStray(s, ok) PROVE TasksInv'
  BY <1>4 DEF SettleStray, TasksInv, AllDone, TasksDone
<1> QED BY <1>2, <1>3, <1>4 DEF InsertSettles

LEMMA TasksStep == TasksInv /\ LoopInv /\ [Next]_vars => TasksInv'
<1> SUFFICES ASSUME TasksInv, LoopInv, [Next]_vars PROVE TasksInv'
  OBVIOUS
<1>0. QueueDepth \in Nat \ {0} /\ Len(bgFlushes) \in Nat
  BY LineBatchesAssumption DEF TasksInv
<1>e. <<>> \in Seq(Task) /\ Len(<<>>) = 0 /\ <<>> \in Seq(Nat)
  OBVIOUS
<1>1. CASE UNCHANGED batchVars /\ UNCHANGED <<pc, dbFlush, outcome>>
  BY <1>1 DEF TasksInv, AllDone, TasksDone, batchVars
<1>2. CASE Begin
  BY <1>0, <1>2, <1>e DEF Begin, NewBatches, TasksInv
<1>3. CASE NextLine
  <2>1. pc = "read" /\ UNCHANGED <<dbFlush, batch>>
    BY <1>3 DEF NextLine, LoopRest, TakeOldest, Drain
  <2>2. CASE TakeOldest /\ pc' = "drain"
    <3>1. bgFlushes # <<>> /\ Len(bgFlushes) <= QueueDepth /\ bgFlushes' = Tail(bgFlushes)
      BY <1>0, <2>2 DEF TakeOldest, QueueFull, TasksInv
    <3>2. bgFlushes' \in Seq(Task) /\ Len(bgFlushes') = Len(bgFlushes) - 1
      BY <3>1 DEF TasksInv
    <3> QED BY <1>0, <2>1, <2>2, <3>1, <3>2 DEF TasksInv
  <2>3. CASE ~QueueFull /\ Drain /\ pc' = "classify"
    <3>1. Len(bgFlushes) < QueueDepth
      BY <1>0, <2>3 DEF QueueFull
    <3> QED BY <2>1, <2>3, <3>1, DrainKeeps DEF TasksInv
  <2> QED BY <1>3, <2>2, <2>3 DEF NextLine
<1>4. CASE DrainAfterWait
  <2>1. bgFlushes' \in Seq(Task) /\ Len(bgFlushes') <= QueueDepth
    BY <1>4, DrainKeeps DEF DrainAfterWait, TasksInv
  <2> QED BY <1>4, <2>1 DEF DrainAfterWait, LoopRest, Drain, TasksInv
<1>5. CASE Classify
  BY <1>5, PushKeeps, RouteKeepsTasks DEF Classify, LoopRest, SkipLine
<1>6. CASE \E v \in {"parsed", "rubbish", "uncertain"}, used \in {0, 1} : AiAnswers(v, used)
  BY <1>6, RouteKeepsTasks DEF AiAnswers
<1>7. ASSUME UNCHANGED batchVars, UNCHANGED dbFlush, pc' # "drain",
             pc' = "ended" => dbFlush = "done" \/ outcome' = "failed",
             pc' \in {"flush", "fatal", "ended"} \/ pc \notin {"flush", "fatal", "ended"}
      PROVE  TasksInv'
  BY <1>7 DEF TasksInv, AllDone, TasksDone, batchVars
<1>8. CASE RowsLanded \/ RowsRejected \/ PartsRejected \/ ReadFails \/ PublishFails \/ Finish \/ FinishFatal
  BY <1>7, <1>8 DEF RowsLanded, RowsRejected, PartsRejected, ReadFails, PublishFails, Fatal,
                    LoopRest, Finish, FinishFatal, Flushed, End
<1>9. CASE FinalFlush
  BY <1>9 DEF FinalFlush, FlushRest, TasksInv
<1>10. CASE BatchesFlushed
  <2>1. bgFlushes' = <<>> /\ awaited' = Done /\ UNCHANGED <<batch, pc>> /\ dbFlush = "rest"
    BY <1>10 DEF BatchesFlushed, AllDone, ForgetTasks
  <2> QED BY <1>0, <1>e, <2>1 DEF TasksInv, AllDone, TasksDone
<1>11. CASE PartsFlush
  BY <1>1, <1>11 DEF PartsFlush, parseVars
<1>12. CASE Settles
  BY <1>1, <1>12, InsertSettlesKeeps DEF Settles, parseVars
<1>13. CASE SettlesBadly
  BY <1>1, <1>13, InsertSettlesKeeps DEF SettlesBadly, ParseRest
<1>14. CASE Crash
  BY <1>0, <1>14, <1>e DEF Crash, LoseBatches, TasksInv, AllDone, TasksDone
<1>15. CASE UNCHANGED vars
  BY <1>1, <1>15 DEF vars, parseVars
<1> QED BY <1>2, <1>3, <1>4, <1>5, <1>6, <1>8, <1>9, <1>10, <1>11, <1>12, <1>13, <1>14, <1>15
        DEF Next, ParseStep

-----------------------------------------------------------------------------
(***************************************************************************)
(* What a report names.  No part is empty, so that two parts of one        *)
(* instance never have one name; a report names the parts that had landed  *)
(* when the instance was released, and they stay so.                       *)
(***************************************************************************)
SolidInv ==
  /\ IsFiniteSet(uploads)
  /\ \A u \in uploads : u.rows # <<>> /\ u.to = u.from + Len(u.rows)

EmptyInv == ~buf.live => buf.rows = <<>> /\ buf.pending = {}

Reported ==
  \/ pc = "flush" /\ flusher = "done"
  \/ pc = "ended" /\ outcome \in {"completed", "rejected"}

NamedInv ==
  Reported => /\ ~held
              /\ \A u \in uploads : PartName(u) \in paths /\ u.gen = buf.gen => u.status = "landed"

LEMMA NamesAreUnique ==
  ASSUME PartsInv, SolidInv, NEW u \in uploads, NEW v \in uploads, u.gen = v.gen,
         u.from = v.from \/ u.to = v.to
  PROVE  u = v
<1>1. /\ u.from \in Nat /\ u.to \in Nat /\ v.from \in Nat /\ v.to \in Nat
      /\ u.rows \in Seq(Nat) /\ v.rows \in Seq(Nat)
  BY DEF PartsInv, Uploads
<1>2. Len(u.rows) \in Nat \ {0} /\ Len(v.rows) \in Nat \ {0}
  BY <1>1 DEF SolidInv
<1>3. u.from < u.to /\ v.from < v.to
  BY <1>1, <1>2 DEF SolidInv
<1> QED BY <1>1, <1>3 DEF PartsInv, PartsDisjoint

\* The row that is added comes after those the instance has (after none, in a new one).
Gets(b, line) ==
  /\ b \in Buffers /\ b.live
  /\ b.rows = Append(buf.rows, line) /\ b.pending = buf.pending
  /\ IF buf.live THEN b.gen = buf.gen /\ b.flushed = buf.flushed
                 ELSE b.gen = buf.gen + 1 /\ b.flushed = 0

LEMMA AddRowAdds ==
  ASSUME PartsInv, EmptyInv, NEW line \in Nat, AddRow(line)
  PROVE  \E b : Gets(b, line) /\
           LET started == b.pending \union {b.flushed}
               full == Cardinality(started) >= MaxPending
           IN /\ held' /\ UNCHANGED <<objects, flusher, paths>>
              /\ \/ buf' = b /\ uploads' = uploads /\ backlog' = {}
                 \/ /\ uploads' = uploads \union {UploadOf(b)}
                    /\ buf' = [Cut(b) EXCEPT !.pending = IF full THEN {} ELSE started]
                    /\ backlog' = IF full THEN started ELSE {}
<1> DEFINE b == [Instance EXCEPT !.rows = Append(@, line)]
<1>1. buf \in Buffers
  BY DEF PartsInv
<1>2. Instance \in Buffers /\ Instance.live
  BY <1>1 DEF Instance, NewBuffer, Buffers
<1>3. Append(Instance.rows, line) \in Seq(Nat)
  BY <1>2 DEF Buffers
<1>4. Instance.rows = buf.rows /\ Instance.pending = buf.pending
  BY DEF Instance, NewBuffer, EmptyInv
<1>5. IF buf.live THEN Instance.gen = buf.gen /\ Instance.flushed = buf.flushed
                  ELSE Instance.gen = buf.gen + 1 /\ Instance.flushed = 0
  BY DEF Instance, NewBuffer
<1>6. Gets(b, line)
  BY <1>2, <1>3, <1>4, <1>5 DEF Gets, Buffers
<1>7. WITNESS b
<1> QED BY <1>6 DEF AddRow

\* What cutting the rows of b off leaves.
LEMMA CutLeaves ==
  ASSUME NEW b \in Buffers, NEW p \in SUBSET Nat, NEW c, c = [Cut(b) EXCEPT !.pending = p]
  PROVE  /\ c.gen = b.gen /\ c.live = b.live /\ c.rows = <<>> /\ c.pending = p
         /\ c.flushed = b.flushed + Len(b.rows) /\ c.flushed \in Nat
         /\ LET w == UploadOf(b)
            IN w.gen = b.gen /\ w.from = b.flushed /\ w.to = c.flushed /\ w.rows = b.rows
               /\ w.status = "running"
BY DEF Cut, Buffers, UploadOf

LEMMA SolidStep == ParserInv /\ LoopInv /\ SolidInv /\ EmptyInv /\ [Next]_vars => SolidInv' /\ EmptyInv'
<1> SUFFICES ASSUME ParserInv, LoopInv, SolidInv, EmptyInv, [Next]_vars PROVE SolidInv' /\ EmptyInv'
  OBVIOUS
<1>0. PartsInv /\ buf \in Buffers /\ uploads \subseteq Uploads /\ lineNo \in Nat
  BY DEF ParserInv, PartsInv
<1>1. ASSUME uploads' \subseteq uploads PROVE SolidInv'
  BY <1>1, FS_Subset DEF SolidInv
<1>2. ASSUME NEW b \in Buffers, b.rows # <<>>, uploads' = uploads \union {UploadOf(b)} PROVE SolidInv'
  <2>1. UploadOf(b).rows # <<>> /\ UploadOf(b).to = UploadOf(b).from + Len(UploadOf(b).rows)
    BY <1>2 DEF UploadOf
  <2> QED BY <1>2, <2>1, FS_AddElement DEF SolidInv
<1>3. ASSUME UNCHANGED <<buf, uploads>> PROVE SolidInv' /\ EmptyInv'
  BY <1>1, <1>3 DEF EmptyInv
<1>4. ASSUME buf' = Released(buf) PROVE EmptyInv'
  BY <1>0, <1>4 DEF Released, EmptyInv, Buffers
<1>5. CASE Begin
  BY <1>1, <1>5 DEF Begin, NewManager, EmptyInv
<1>6. CASE Collects
  <2>1. AddRow(lineNo)
    BY <1>6 DEF Collects
  <2>2. PICK b : Gets(b, lineNo) /\
           LET started == b.pending \union {b.flushed}
               full == Cardinality(started) >= MaxPending
           IN \/ buf' = b /\ uploads' = uploads
              \/ /\ uploads' = uploads \union {UploadOf(b)}
                 /\ buf' = [Cut(b) EXCEPT !.pending = IF full THEN {} ELSE started]
    BY <1>0, <2>1, AddRowAdds
  <2>g. b \in Buffers /\ b.live /\ b.rows = Append(buf.rows, lineNo)
    BY <2>2 DEF Gets
  <2>r. buf.rows \in Seq(Nat)
    BY <1>0 DEF Buffers
  <2>3. b \in Buffers /\ b.live /\ b.rows # <<>>
    BY <1>0, <2>g, <2>r
  <2>4. CASE buf' = b /\ uploads' = uploads
    BY <1>1, <2>3, <2>4 DEF EmptyInv
  <2>5. CASE ~(buf' = b /\ uploads' = uploads)
    <3>1. \A p : [Cut(b) EXCEPT !.pending = p].live = b.live
      BY <2>3 DEF Cut, Buffers
    <3> QED BY <1>2, <2>2, <2>3, <2>5, <3>1 DEF EmptyInv
  <2> QED BY <2>4, <2>5
<1>7. CASE FlushAlls
  <2>1. CASE PendingLanded
    <3>1. CASE buf.rows = <<>>
      <4>1. buf' = [buf EXCEPT !.pending = {}] /\ uploads' = uploads
        BY <2>1, <3>1 DEF PendingLanded
      <4>2. buf'.live = buf.live /\ buf'.rows = buf.rows /\ buf'.pending = {}
        BY <1>0, <4>1 DEF Buffers
      <4> QED BY <1>1, <4>1, <4>2 DEF EmptyInv
    <3>2. CASE buf.rows # <<>>
      <4>1. uploads' = uploads \union {UploadOf(buf)} /\ buf' = [Cut(buf) EXCEPT !.pending = {}]
        BY <2>1, <3>2 DEF PendingLanded
      <4>2. buf'.rows = <<>> /\ buf'.pending = {}
        BY <1>0, <4>1 DEF Cut, Buffers
      <4>3. SolidInv'
        BY <1>0, <1>2, <3>2, <4>1
      <4> QED BY <4>2, <4>3 DEF EmptyInv
    <3> QED BY <3>1, <3>2
  <2>2. CASE Release
    BY <1>1, <1>4, <2>2 DEF Release
  <2> QED BY <1>3, <1>7, <2>1, <2>2
          DEF FlushAlls, FlushAllStart, FlushAllStep, ManifestFails, PendingRejected, LastSettled
<1>8. CASE Uploaded
  <2>1. PICK ok \in BOOLEAN, u \in uploads :
          uploads' = (uploads \ {u}) \union {[u EXCEPT !.status = IF ok THEN "landed" ELSE "failed"]}
    BY <1>8 DEF Uploaded, UploadSettles
  <2>2. UNCHANGED buf
    BY <1>8 DEF Uploaded, UploadSettles
  <2>3. u \in Uploads
    BY <1>0
  <2> DEFINE s == [u EXCEPT !.status = IF ok THEN "landed" ELSE "failed"]
  <2>4. s.rows = u.rows /\ s.to = u.to /\ s.from = u.from
    BY <2>3 DEF Uploads
  <2>5. s.rows # <<>> /\ s.to = s.from + Len(s.rows)
    BY <2>4 DEF SolidInv
  <2>6. uploads' = (uploads \ {u}) \union {s}
    BY <2>1
  <2> HIDE DEF s
  <2>7. IsFiniteSet(uploads')
    BY <2>6, FS_AddElement, FS_RemoveElement DEF SolidInv
  <2> QED BY <2>2, <2>5, <2>6, <2>7 DEF SolidInv, EmptyInv
<1>9. CASE Crash
  BY <1>1, <1>4, <1>9 DEF Crash, LoseBuffer
<1> QED BY <1>3, <1>5, <1>6, <1>7, <1>8, <1>9, Kinds
        DEF Same, NextLine, Walks, PassesOver, RowsLanded, Breaks, FinalFlush, Ends, FlushAllAgain, partVars

LEMMA NamedStep ==
  ParserInv /\ LoopInv /\ SolidInv /\ NamedInv /\ [Next]_vars => NamedInv'
<1> SUFFICES ASSUME ParserInv, LoopInv, SolidInv, NamedInv, [Next]_vars, Reported' PROVE NamedInv'
  BY DEF NamedInv
<1> HIDE DEF NamedInv
<1>0. PartsInv /\ buf \in Buffers /\ uploads \subseteq Uploads
  BY DEF ParserInv, PartsInv
<1>1. ASSUME Reported, UNCHANGED <<held, uploads, paths, buf>> PROVE NamedInv'
  BY <1>1 DEF NamedInv, PartName
<1>2. CASE Same
  BY <1>1, <1>2 DEF Same, Reported, loopVars, partVars
<1>3. CASE Begin \/ NextLine \/ Walks \/ Collects \/ PassesOver \/ RowsLanded \/ Breaks
  BY <1>3 DEF Begin, NextLine, Walks, Collects, PassesOver, RowsLanded, Breaks, Reported
<1>4. CASE FinalFlush
  BY <1>4 DEF FinalFlush, Reported, LoopInv, Loop, partVars
<1>5. CASE Ends
  BY <1>1, <1>5 DEF Ends, Reported, partVars
<1>6. CASE Crash
  <2>1. pc = "ended" /\ Reported
    BY <1>6 DEF Crash, Reported
  <2>2. ~held' /\ uploads' \subseteq uploads /\ paths' = paths /\ buf'.gen = buf.gen
    BY <1>0, <1>6, ReleasedBuffer DEF Crash, LoseBuffer
  <2> QED BY <2>1, <2>2 DEF NamedInv, PartName
<1>7. CASE Uploaded
  <2>1. Reported
    BY <1>7 DEF Uploaded, UploadSettles, Reported, loopVars
  <2>2. UNCHANGED <<held, paths, buf>>
    BY <1>7 DEF Uploaded, UploadSettles
  <2>3. PICK ok \in BOOLEAN, u \in uploads :
          /\ u.status = "running"
          /\ uploads' = (uploads \ {u}) \union {[u EXCEPT !.status = IF ok THEN "landed" ELSE "failed"]}
    BY <1>7 DEF Uploaded, UploadSettles
  <2> DEFINE s == [u EXCEPT !.status = IF ok THEN "landed" ELSE "failed"]
  <2>4. s.gen = u.gen /\ s.to = u.to /\ s.from = u.from
    BY <1>0 DEF Uploads
  <2>5. ~(PartName(u) \in paths /\ u.gen = buf.gen)
    BY <2>1, <2>3 DEF NamedInv
  <2>6. uploads' = (uploads \ {u}) \union {s}
    BY <2>3
  <2> HIDE DEF s
  <2> QED BY <2>1, <2>2, <2>4, <2>5, <2>6 DEF NamedInv, PartName
<1>8. CASE FlushAlls
  <2>1. pc = "flush" /\ flusher' = "done"
    BY <1>8 DEF FlushAlls, Reported, loopVars
  <2>2. CASE FlushAllStart
    <3>1. ~held /\ paths = {} /\ UNCHANGED <<held, uploads, paths, buf>>
      BY <1>8, <2>1, <2>2 DEF FlushAllStart, LoopInv, FlushAlls, loopVars
    <3> QED BY <3>1 DEF NamedInv
  <2>3. CASE Release
    <3>1. paths' = {PartName(u) : u \in Landed} /\ ~held' /\ uploads' = uploads /\ buf'.gen = buf.gen
      BY <1>0, <2>3, ReleasedBuffer DEF Release
    <3>2. ASSUME NEW u \in uploads, PartName(u) \in paths', u.gen = buf.gen PROVE u.status = "landed"
      <4>1. PICK v \in Landed : PartName(v) = PartName(u)
        BY <3>1, <3>2
      <4>2. u = v
        BY <1>0, <3>2, <4>1, NamesAreUnique DEF PartName, Landed
      <4> QED BY <4>1, <4>2 DEF Landed
    <3> QED BY <3>1, <3>2 DEF NamedInv, PartName
  <2> QED BY <1>8, <2>1, <2>2, <2>3
          DEF FlushAlls, FlushAllStep, ManifestFails, PendingLanded, PendingRejected, LastSettled
<1> QED BY <1>2, <1>3, <1>4, <1>5, <1>6, <1>7, <1>8, Kinds DEF FinalFlush

ReportInv == ParserInv /\ LoopInv /\ TasksInv /\ SolidInv /\ EmptyInv /\ NamedInv

LEMMA ReportInit == Init => ReportInv
<1> SUFFICES ASSUME Init PROVE ReportInv
  OBVIOUS
<1>1. uploads = {} /\ buf = Released(NewBuffer(0)) /\ pc = "idle"
  BY DEF Init, PartsInit
<1>2. SolidInv
  BY <1>1, FS_EmptySet DEF SolidInv
<1>3. EmptyInv
  BY <1>1 DEF EmptyInv, Released, NewBuffer
<1>4. NamedInv
  BY <1>1 DEF NamedInv, Reported
<1> QED BY <1>2, <1>3, <1>4, ParserInit, LoopInit, TasksInit DEF ReportInv

LEMMA ReportStep == ReportInv /\ [Next]_vars => ReportInv'
BY ParserStep, LoopStep, TasksStep, SolidStep, NamedStep DEF ReportInv

(* When the parse reports, no insert of it is under way, and every part it  *)
(* names has landed, whatever earlier attempts left behind.                 *)
THEOREM ReportsAreFinal == Spec => []NothingLeftOpen
<1>1. ReportInv => NothingLeftOpen
  <2> SUFFICES ASSUME ReportInv, pc = "ended", outcome \in {"completed", "rejected"}
               PROVE  /\ OpenInserts = {} /\ ~held
                      /\ \A u \in uploads : PartName(u) \in paths /\ u.gen = buf.gen => u.status = "landed"
    BY DEF NothingLeftOpen
  <2>1. AllDone
    BY DEF ReportInv, TasksInv
  <2>2. \A task \in {awaited} \union Range(bgFlushes) : DOMAIN task = {}
    BY <2>1 DEF AllDone, TasksDone, Done, Range
  <2>3. OpenInserts = {}
    BY <2>2 DEF OpenInserts
  <2> QED BY <2>3 DEF ReportInv, NamedInv, Reported
<1> QED BY ReportInit, ReportStep, <1>1, PTL DEF Spec

-----------------------------------------------------------------------------
(***************************************************************************)
(* A clean attempt has all uploads to itself, and knows of each that has   *)
(* not landed: addRow's caller waits for it (backlog), or the instance     *)
(* will (pending), or it is the one flush waits for.                       *)
(***************************************************************************)
Running == {u \in uploads : u.status = "running"}

OwnInv ==
  clean =>
    /\ \A u \in uploads : u.gen = buf.gen
    /\ pc \in Loop \/ (pc = "flush" /\ flusher = "idle") =>
         held = buf.live /\ (~buf.live => uploads = {})

PendingInv ==
  clean /\ pc \in Loop \union {"flush"} =>
    /\ IsFiniteSet(buf.pending) /\ Cardinality(buf.pending) < MaxPending
    /\ pc = "backpressure" => IsFiniteSet(backlog) /\ Cardinality(backlog) <= MaxPending

IsAwaited(u) ==
  \/ u.status = "landed"
  \/ pc = "backpressure" /\ u.from \in backlog
  \/ pc # "backpressure" /\ flusher \in {"idle", "pending"} /\ u.from \in buf.pending
  \/ pc # "backpressure" /\ flusher = "last" /\ u.to = buf.flushed

WaitedFor ==
  clean /\ pc \in Loop \union {"flush"} /\ flusher # "rejected" => \A u \in uploads : IsAwaited(u)

BaseInv == ParserInv /\ LoopInv /\ SolidInv /\ EmptyInv

CleanInv == OwnInv /\ PendingInv /\ WaitedFor

\* An upload that settles is the same part as before.
Settled(u, s) ==
  /\ u \in uploads /\ u.status = "running" /\ s.status \in {"landed", "failed"}
  /\ s.gen = u.gen /\ s.from = u.from /\ s.to = u.to /\ s.rows = u.rows
  /\ uploads' = (uploads \ {u}) \union {s}
  /\ objects' = IF s.status = "failed" THEN objects
                ELSE [n \in DOMAIN objects \union {PartName(u)} |->
                        IF n = PartName(u) THEN u.rows ELSE objects[n]]
  /\ UNCHANGED <<buf, held, backlog, flusher, paths, pc, loopVars>>

LEMMA UploadedSettles ==
  ASSUME PartsInv, Uploaded
  PROVE  \E u, s : Settled(u, s)
<1>1. PICK ok \in BOOLEAN, u \in uploads :
        /\ u.status = "running"
        /\ uploads' = (uploads \ {u}) \union {[u EXCEPT !.status = IF ok THEN "landed" ELSE "failed"]}
        /\ objects' = IF ~ok THEN objects
                      ELSE [n \in DOMAIN objects \union {PartName(u)} |->
                              IF n = PartName(u) THEN u.rows ELSE objects[n]]
  BY DEF Uploaded, UploadSettles
<1>2. u \in Uploads
  BY DEF PartsInv
<1> DEFINE s == [u EXCEPT !.status = IF ok THEN "landed" ELSE "failed"]
<1>3. /\ s.gen = u.gen /\ s.from = u.from /\ s.to = u.to /\ s.rows = u.rows
      /\ s.status = IF ok THEN "landed" ELSE "failed"
  BY <1>2 DEF Uploads
<1>4. UNCHANGED <<buf, held, backlog, flusher, paths, pc, loopVars>>
  BY DEF Uploaded, UploadSettles
<1>5. uploads' = (uploads \ {u}) \union {s}
  BY <1>1
<1> HIDE DEF s
<1> QED BY <1>1, <1>3, <1>4, <1>5 DEF Settled

\* A clean attempt begins with nothing.
LEMMA CleanBegins ==
  ASSUME BaseInv, Begin, clean'
  PROVE  /\ uploads' = {} /\ buf' = buf /\ ~buf.live /\ buf.rows = <<>> /\ buf.pending = {}
         /\ ~held' /\ pc' = "read" /\ flusher' = "idle"
BY DEF BaseInv, Begin, NewManager, Quiet, EmptyInv

LEMMA CleanStays ==
  ASSUME [Next]_vars, clean', ~Begin
  PROVE  clean
BY Kinds DEF Same, NextLine, LoopRest, Walks, Collects, PassesOver, RowsLanded, Breaks, FinalFlush,
             FlushAlls, Ends, Uploaded, Crash, loopVars

LEMMA OwnStep == BaseInv /\ OwnInv /\ [Next]_vars => OwnInv'
<1> SUFFICES ASSUME BaseInv, OwnInv, [Next]_vars, clean' PROVE OwnInv'
  BY DEF OwnInv
<1>0. PartsInv /\ buf \in Buffers /\ lineNo \in Nat /\ LoopInv /\ EmptyInv
  BY DEF BaseInv, ParserInv, PartsInv
<1>1. CASE Begin
  <2>1. uploads' = {} /\ buf' = buf /\ ~buf.live /\ pc' = "read"
    BY <1>1, CleanBegins
  <2>2. held' = FALSE /\ buf.live = FALSE
    BY <1>0, <1>1, <2>1 DEF Begin, NewManager, Buffers
  <2> QED BY <2>1, <2>2 DEF OwnInv
<1>2. CASE ~Begin
  <2>c. clean
    BY <1>2, CleanStays
  <2>1. ASSUME UNCHANGED partVars, pc' \in Loop \/ pc' = "flush" => pc \in Loop \/ (pc = "flush" /\ pc' = pc)
        PROVE  OwnInv'
    BY <1>0, <2>1, <2>c DEF OwnInv, partVars, LoopInv
  <2>2. CASE Same \/ NextLine \/ Walks \/ PassesOver \/ RowsLanded \/ FinalFlush \/ Ends
    BY <2>1, <2>2 DEF Same, NextLine, Walks, PassesOver, RowsLanded, FinalFlush, Ends, Loop
  <2>3. CASE Collects
    <3>1. AddRow(lineNo)
      BY <2>3 DEF Collects
    <3>2. PICK b : Gets(b, lineNo) /\
             LET started == b.pending \union {b.flushed}
                 full == Cardinality(started) >= MaxPending
             IN /\ held'
                /\ \/ buf' = b /\ uploads' = uploads
                   \/ /\ uploads' = uploads \union {UploadOf(b)}
                      /\ buf' = [Cut(b) EXCEPT !.pending = IF full THEN {} ELSE started]
      BY <1>0, <3>1, AddRowAdds
    <3>3. b \in Buffers /\ b.live = TRUE /\ \A u \in uploads : u.gen = b.gen
      BY <2>3, <2>c, <3>2 DEF Gets, OwnInv, Collects, Loop, Buffers
    <3>4. held' = TRUE
      BY <3>1 DEF AddRow
    <3>5. CASE buf' = b /\ uploads' = uploads
      BY <3>3, <3>4, <3>5 DEF OwnInv
    <3>6. CASE ~(buf' = b /\ uploads' = uploads)
      <4>1. \A p : [Cut(b) EXCEPT !.pending = p].live = b.live /\ [Cut(b) EXCEPT !.pending = p].gen = b.gen
        BY <3>3 DEF Cut, Buffers
      <4>2. UploadOf(b).gen = b.gen
        BY DEF UploadOf
      <4> QED BY <3>2, <3>3, <3>4, <3>6, <4>1, <4>2 DEF OwnInv
    <3> QED BY <3>5, <3>6
  <2>4. CASE Breaks
    BY <2>4, <2>c DEF Breaks, FlushAllAgain, OwnInv, Loop
  <2>5. CASE FlushAlls
    <3>1. flusher' # "idle" /\ pc' \notin Loop
      BY <2>5 DEF FlushAlls, FlushAllStart, FlushAllStep, ManifestFails, PendingLanded, PendingRejected,
                  LastSettled, Release, loopVars, Loop
    <3>2. CASE PendingLanded /\ buf.rows # <<>>
      <4>1. uploads' = uploads \union {UploadOf(buf)} /\ buf' = [Cut(buf) EXCEPT !.pending = {}]
        BY <3>2 DEF PendingLanded
      <4>2. buf'.gen = buf.gen /\ UploadOf(buf).gen = buf.gen
        BY <1>0, <4>1 DEF Cut, Buffers, UploadOf
      <4> QED BY <2>c, <3>1, <4>1, <4>2 DEF OwnInv
    <3>3. CASE ~(PendingLanded /\ buf.rows # <<>>)
      <4>1. uploads' = uploads /\ (buf' = buf \/ buf' = [buf EXCEPT !.pending = {}] \/ buf' = Released(buf))
        BY <2>5, <3>3 DEF FlushAlls, FlushAllStart, FlushAllStep, ManifestFails, PendingLanded,
                          PendingRejected, LastSettled, Release
      <4>2. buf'.gen = buf.gen
        BY <1>0, <4>1, ReleasedBuffer DEF Buffers
      <4> QED BY <2>c, <3>1, <4>1, <4>2 DEF OwnInv
    <3> QED BY <3>2, <3>3
  <2>6. CASE Uploaded
    <3>1. PICK u, s : Settled(u, s)
      BY <1>0, <2>6, UploadedSettles
    <3> QED BY <2>c, <3>1 DEF Settled, OwnInv
  <2>7. CASE Crash
    BY <1>0, <2>7, <2>c, ReleasedBuffer DEF Crash, LoseBuffer, OwnInv, Loop
  <2> QED BY <1>2, <2>2, <2>3, <2>4, <2>5, <2>6, <2>7, Kinds
<1> QED BY <1>1, <1>2

\* The uploads of a set of first rows are no more than these.
LEMMA OnePartPerRow ==
  ASSUME PartsInv, SolidInv, \A u \in uploads : u.gen = buf.gen,
         NEW S, IsFiniteSet(S), \A u \in Running : u.from \in S
  PROVE  IsFiniteSet(Running) /\ Cardinality(Running) \in Nat /\ Cardinality(Running) <= Cardinality(S)
<1> DEFINE f == [u \in Running |-> u.from]
<1>1. f \in [Running -> S]
  OBVIOUS
<1>2. \A u, v \in Running : f[u] = f[v] => u = v
  BY NamesAreUnique DEF Running
<1>3. f \in Injection(Running, S)
  BY <1>1, <1>2 DEF Injection, IsInjective
<1> QED BY <1>3, FS_Injection, FS_CardinalityType

\* What the instance may have pending beside what it cuts off.
LEMMA OneMorePending ==
  ASSUME NEW S \in SUBSET Nat, NEW n \in Nat, IsFiniteSet(S), Cardinality(S) < MaxPending
  PROVE  /\ IsFiniteSet(S \union {n}) /\ Cardinality(S \union {n}) \in Nat
         /\ Cardinality(S \union {n}) <= MaxPending
<1>1. Cardinality(S) \in Nat /\ MaxPending \in Nat
  BY FS_CardinalityType, OutputPartsAssumption
<1>2. /\ IsFiniteSet(S \union {n})
      /\ Cardinality(S \union {n}) = Cardinality(S) \/ Cardinality(S \union {n}) = Cardinality(S) + 1
  BY FS_AddElement
<1> QED BY <1>1, <1>2

LEMMA NothingPending == IsFiniteSet({}) /\ Cardinality({}) = 0 /\ 0 < MaxPending
BY FS_EmptySet, OutputPartsAssumption

LEMMA PendingStep == BaseInv /\ PendingInv /\ [Next]_vars => PendingInv'
<1> SUFFICES ASSUME BaseInv, PendingInv, [Next]_vars, clean', pc' \in Loop \union {"flush"}
             PROVE  PendingInv'
  BY DEF PendingInv
<1> USE DEF Loop
<1>0. PartsInv /\ buf \in Buffers /\ lineNo \in Nat /\ EmptyInv
  BY DEF BaseInv, ParserInv, PartsInv
<1>1. CASE Begin
  <2>1. buf' = buf /\ buf.pending = {} /\ pc' = "read"
    BY <1>1, CleanBegins
  <2> QED BY <2>1, NothingPending DEF PendingInv
<1>2. CASE ~Begin
  <2>c. clean
    BY <1>2, CleanStays
  <2>1. ASSUME UNCHANGED buf, pc \in Loop \union {"flush"},
               pc' = "backpressure" => pc = "backpressure" /\ UNCHANGED backlog
        PROVE  PendingInv'
    BY <2>1, <2>c DEF PendingInv
  <2>2. CASE Same \/ NextLine \/ Walks \/ PassesOver \/ RowsLanded \/ FinalFlush
    BY <2>1, <2>2 DEF Same, NextLine, Walks, PassesOver, RowsLanded, FinalFlush, partVars
  <2>3. CASE Collects
    <3>1. AddRow(lineNo)
      BY <2>3 DEF Collects
    <3>2. PICK b : Gets(b, lineNo) /\
           LET started == b.pending \union {b.flushed}
               full == Cardinality(started) >= MaxPending
           IN \/ buf' = b /\ uploads' = uploads /\ backlog' = {}
              \/ /\ buf' = [Cut(b) EXCEPT !.pending = IF full THEN {} ELSE started]
                 /\ backlog' = IF full THEN started ELSE {}
      BY <1>0, <3>1, AddRowAdds
    <3> DEFINE started == b.pending \union {b.flushed}
               full == Cardinality(started) >= MaxPending
    <3>3. b \in Buffers /\ b.pending = buf.pending /\ b.pending \in SUBSET Nat /\ b.flushed \in Nat
      BY <3>2 DEF Gets, Buffers
    <3>4. IsFiniteSet(b.pending) /\ Cardinality(b.pending) < MaxPending
      BY <2>3, <2>c, <3>3 DEF PendingInv, Collects
    <3>5. IsFiniteSet(started) /\ Cardinality(started) \in Nat /\ Cardinality(started) <= MaxPending
      BY <3>3, <3>4, OneMorePending
    <3>6. CASE buf' = b /\ backlog' = {}
      BY <2>3, <3>4, <3>6 DEF Collects, PendingInv
    <3>7. CASE /\ buf' = [Cut(b) EXCEPT !.pending = IF full THEN {} ELSE started]
               /\ backlog' = IF full THEN started ELSE {}
      <4>1. buf'.pending = IF full THEN {} ELSE started
        BY <3>3, <3>7 DEF Cut, Buffers
      <4>2. IsFiniteSet(buf'.pending) /\ Cardinality(buf'.pending) < MaxPending
        BY <3>5, <4>1, NothingPending, OutputPartsAssumption
      <4>3. backlog' # {} => IsFiniteSet(backlog') /\ Cardinality(backlog') <= MaxPending
        BY <3>5, <3>7
      <4>4. pc' = "backpressure" => backlog' # {}
        BY <2>3 DEF Collects
      <4> QED BY <4>2, <4>3, <4>4 DEF PendingInv
    <3> QED BY <3>2, <3>6, <3>7
  <2>4. CASE Breaks \/ Ends \/ Crash
    BY <2>4 DEF Breaks, Ends, Crash
  <2>5. CASE FlushAlls
    <3>1. pc = "flush" /\ pc' = "flush"
      BY <2>5 DEF FlushAlls, loopVars
    <3>2. UNCHANGED buf \/ buf'.pending = {}
      <4>1. \/ buf' = buf \/ buf' = [buf EXCEPT !.pending = {}] \/ buf' = Released(buf)
            \/ buf' = [Cut(buf) EXCEPT !.pending = {}]
        BY <2>5 DEF FlushAlls, FlushAllStart, FlushAllStep, ManifestFails, PendingLanded,
                    PendingRejected, LastSettled, Release
      <4> QED BY <1>0, <4>1 DEF Released, Cut, Buffers
    <3> QED BY <2>c, <3>1, <3>2, NothingPending DEF PendingInv
  <2>6. CASE Uploaded
    BY <2>1, <2>6 DEF Uploaded, UploadSettles
  <2> QED BY <1>2, <2>2, <2>3, <2>4, <2>5, <2>6, Kinds
<1> QED BY <1>1, <1>2

LEMMA WaitedStep == BaseInv /\ CleanInv /\ [Next]_vars => WaitedFor'
<1> SUFFICES ASSUME BaseInv, CleanInv, [Next]_vars, clean', pc' \in Loop \union {"flush"},
                    flusher' # "rejected", NEW v \in uploads'
             PROVE  IsAwaited(v)'
  BY DEF WaitedFor
<1> USE DEF Loop
<1>0. PartsInv /\ SolidInv /\ buf \in Buffers /\ lineNo \in Nat /\ EmptyInv /\ LoopInv
  BY DEF BaseInv, ParserInv, PartsInv
<1>1. CASE Begin
  BY <1>1, CleanBegins
<1>2. CASE ~Begin
  <2>c. clean
    BY <1>2, CleanStays
  <2>w. pc \in Loop \union {"flush"} /\ flusher # "rejected" => \A u \in uploads : IsAwaited(u) /\ u.gen = buf.gen
    BY <2>c DEF CleanInv, WaitedFor, OwnInv
  <2>i. pc \in Loop => flusher = "idle"
    BY <1>0 DEF LoopInv
  <2>1. CASE Same
    BY <2>1, <2>w DEF Same, IsAwaited, partVars, loopVars
  <2>2. CASE NextLine \/ Walks \/ PassesOver \/ FinalFlush
    <3>1. UNCHANGED partVars /\ pc \in Loop /\ pc # "backpressure" /\ pc' # "backpressure"
      BY <2>2 DEF NextLine, Walks, PassesOver, FinalFlush
    <3> QED BY <2>w, <2>i, <3>1 DEF IsAwaited, partVars
  <2>3. CASE RowsLanded
    <3>1. UNCHANGED partVars /\ pc = "backpressure" /\ AllLanded(backlog)
      BY <2>3 DEF RowsLanded
    <3> QED BY <2>w, <2>i, <3>1 DEF IsAwaited, partVars, AllLanded, Own
  <2>4. CASE Collects
    <3>1. AddRow(lineNo) /\ pc \in {"classify", "ai"} /\ flusher' = "idle"
      BY <2>4, <2>i DEF Collects, AddRow
    <3>2. PICK b : Gets(b, lineNo) /\
           LET started == b.pending \union {b.flushed}
               full == Cardinality(started) >= MaxPending
           IN \/ buf' = b /\ uploads' = uploads /\ backlog' = {}
              \/ /\ uploads' = uploads \union {UploadOf(b)}
                 /\ buf' = [Cut(b) EXCEPT !.pending = IF full THEN {} ELSE started]
                 /\ backlog' = IF full THEN started ELSE {}
      BY <1>0, <3>1, AddRowAdds
    <3> DEFINE started == b.pending \union {b.flushed}
               full == Cardinality(started) >= MaxPending
    <3>3. b \in Buffers /\ b.pending = buf.pending
      BY <3>2 DEF Gets
    <3>4. \A u \in uploads : u.status = "landed" \/ u.from \in buf.pending
      BY <2>w, <2>i, <3>1 DEF IsAwaited
    <3>5. CASE buf' = b /\ uploads' = uploads /\ backlog' = {}
      <4>1. pc' = "read"
        BY <2>4, <3>5 DEF Collects
      <4> QED BY <3>1, <3>3, <3>4, <3>5, <4>1 DEF IsAwaited
    <3>6. CASE /\ uploads' = uploads \union {UploadOf(b)}
               /\ buf' = [Cut(b) EXCEPT !.pending = IF full THEN {} ELSE started]
               /\ backlog' = IF full THEN started ELSE {}
      <4>1. buf'.pending = IF full THEN {} ELSE started
        BY <3>3, <3>6 DEF Cut, Buffers
      <4>2. v.status = "landed" \/ v.from \in started
        BY <3>3, <3>4, <3>6 DEF UploadOf
      <4>3. (pc' = "backpressure") = full /\ (pc' = "read") = (~full)
        BY <2>4, <3>6 DEF Collects
      <4> QED BY <3>1, <3>6, <4>1, <4>2, <4>3 DEF IsAwaited
    <3> QED BY <3>2, <3>5, <3>6
  <2>5. CASE Breaks \/ Ends \/ Crash
    BY <2>5 DEF Breaks, Ends, Crash
  <2>6. CASE FlushAlls
    <3>1. pc = "flush" /\ pc' = "flush"
      BY <2>6 DEF FlushAlls, loopVars
    <3>2. CASE FlushAllStart
      <4>1. UNCHANGED <<uploads, buf, held>> /\ flusher = "idle"
            /\ (flusher' = "pending" \/ (~held /\ flusher' = "done"))
        BY <3>2 DEF FlushAllStart
      <4>2. ~held => uploads = {}
        BY <2>c, <3>1, <4>1 DEF CleanInv, OwnInv
      <4> QED BY <2>w, <3>1, <4>1, <4>2 DEF IsAwaited
    <3>3. CASE PendingLanded
      <4>1. \A u \in uploads : u.status = "landed"
        BY <2>w, <3>1, <3>3 DEF PendingLanded, IsAwaited, AllLanded, Own
      <4>2. CASE buf.rows = <<>>
        BY <3>3, <4>1, <4>2 DEF PendingLanded, IsAwaited
      <4>3. CASE buf.rows # <<>>
        <5>1. uploads' = uploads \union {UploadOf(buf)} /\ flusher' = "last"
              /\ buf' = [Cut(buf) EXCEPT !.pending = {}]
          BY <3>3, <4>3 DEF PendingLanded
        <5>2. UploadOf(buf).to = buf'.flushed
          BY <1>0, <5>1 DEF UploadOf, Cut, Buffers
        <5> QED BY <3>1, <4>1, <5>1, <5>2 DEF IsAwaited
      <4> QED BY <4>2, <4>3
    <3>4. CASE LastSettled
      <4>1. flusher = "last" /\ flusher' = "manifest" /\ uploads' = uploads
            /\ \A u \in LastUpload : u.status = "landed"
        BY <3>4 DEF LastSettled
      <4> QED BY <2>w, <3>1, <4>1 DEF IsAwaited, LastUpload
    <3>5. CASE Release
      BY <2>w, <3>1, <3>5 DEF Release, IsAwaited
    <3> QED BY <2>6, <3>2, <3>3, <3>4, <3>5 DEF FlushAlls, FlushAllStep, ManifestFails, PendingRejected
  <2>7. CASE Uploaded
    <3>1. PICK u, s : Settled(u, s)
      BY <1>0, <2>7, UploadedSettles
    <3>2. IsAwaited(u) /\ u.status # "landed" /\ (v \in uploads => IsAwaited(v))
      BY <2>w, <3>1 DEF Settled
    <3>3. CASE v \in uploads
      BY <3>1, <3>2, <3>3 DEF Settled, IsAwaited
    <3>4. CASE v = s
      BY <3>1, <3>2, <3>4 DEF Settled, IsAwaited
    <3> QED BY <3>1, <3>3, <3>4 DEF Settled
  <2> QED BY <1>2, <2>1, <2>2, <2>3, <2>4, <2>5, <2>6, <2>7, Kinds
<1> QED BY <1>1, <1>2

-----------------------------------------------------------------------------
(***************************************************************************)
(* No more than MaxPending uploads run.  In the loop and the final flush   *)
(* they are among those that are awaited; the error path may cut one more  *)
(* part, but it is entered with one less running.                          *)
(***************************************************************************)
RunningInv ==
  clean =>
    /\ Cardinality(Running) <= MaxPending
    /\ (\/ pc = "fatal" /\ flusher \in {"idle", "pending"}
        \/ pc = "flush" /\ flusher = "rejected") => Cardinality(Running) < MaxPending

LEMMA RunningIsFinite ==
  ASSUME SolidInv
  PROVE  IsFiniteSet(Running) /\ Cardinality(Running) \in Nat
BY FS_Subset, FS_CardinalityType DEF Running, SolidInv

FewAwaited ==
  clean /\ pc \in Loop \union {"flush"} /\ flusher # "rejected" =>
    /\ Cardinality(Running) <= MaxPending
    /\ pc # "backpressure" /\ flusher # "last" => Cardinality(Running) < MaxPending

LEMMA AwaitedAreFew == BaseInv /\ CleanInv => FewAwaited
<1> SUFFICES ASSUME BaseInv, CleanInv, clean, pc \in Loop \union {"flush"}, flusher # "rejected"
             PROVE  /\ Cardinality(Running) <= MaxPending
                    /\ pc # "backpressure" /\ flusher # "last" => Cardinality(Running) < MaxPending
  BY DEF FewAwaited
<1>0. PartsInv /\ SolidInv
  BY DEF BaseInv, ParserInv
<1>1. \A u \in uploads : IsAwaited(u) /\ u.gen = buf.gen
  BY DEF CleanInv, WaitedFor, OwnInv
<1>2. MaxPending \in Nat \ {0}
  BY OutputPartsAssumption
<1>3. CASE pc = "backpressure"
  <2>1. \A u \in Running : u.from \in backlog
    BY <1>1, <1>3 DEF IsAwaited, Running
  <2>2. IsFiniteSet(backlog) /\ Cardinality(backlog) <= MaxPending
    BY <1>3 DEF CleanInv, PendingInv, Loop
  <2>3. Cardinality(Running) \in Nat /\ Cardinality(Running) <= Cardinality(backlog)
    BY <1>0, <1>1, <2>1, <2>2, OnePartPerRow
  <2> QED BY <1>2, <1>3, <2>2, <2>3, FS_CardinalityType
<1>4. CASE pc # "backpressure" /\ flusher \in {"idle", "pending"}
  <2>1. \A u \in Running : u.from \in buf.pending
    BY <1>1, <1>4 DEF IsAwaited, Running
  <2>2. IsFiniteSet(buf.pending) /\ Cardinality(buf.pending) < MaxPending
    BY DEF CleanInv, PendingInv
  <2>3. Cardinality(Running) \in Nat /\ Cardinality(Running) <= Cardinality(buf.pending)
    BY <1>0, <1>1, <2>1, <2>2, OnePartPerRow
  <2> QED BY <1>2, <2>2, <2>3, FS_CardinalityType
<1>5. CASE pc # "backpressure" /\ flusher = "last"
  <2>1. \A u, v \in Running : u = v
    BY <1>0, <1>1, <1>5, NamesAreUnique DEF IsAwaited, Running
  <2>2. Running # {} => \E u \in Running : Running = {u}
    BY <2>1
  <2>3. Cardinality(Running) = 0 \/ Cardinality(Running) = 1
    BY <2>2, FS_EmptySet, FS_Singleton
  <2> QED BY <1>2, <1>5, <2>3
<1>6. CASE pc # "backpressure" /\ flusher \notin {"idle", "pending", "last"}
  <2>1. Running = {}
    BY <1>1, <1>6 DEF IsAwaited, Running
  <2> QED BY <1>2, <2>1, FS_EmptySet
<1> QED BY <1>3, <1>4, <1>5, <1>6

\* A failed upload among the awaited ones leaves one less running.
LEMMA OneHasFailed ==
  ASSUME PartsInv, SolidInv, CleanInv, clean, pc = "backpressure", flusher = "idle", SomeFailed(backlog)
  PROVE  Cardinality(Running) < MaxPending
<1>1. \A u \in uploads : IsAwaited(u) /\ u.gen = buf.gen
  BY DEF CleanInv, WaitedFor, OwnInv, Loop
<1>2. PICK f \in uploads : f.gen = buf.gen /\ f.from \in backlog /\ f.status = "failed"
  BY DEF SomeFailed, Own
<1>3. \A u \in Running : u.from \in backlog \ {f.from}
  <2> SUFFICES ASSUME NEW u \in Running PROVE u.from \in backlog \ {f.from}
    OBVIOUS
  <2>1. u \in uploads /\ u.status = "running" /\ u.from \in backlog
    BY <1>1 DEF IsAwaited, Running
  <2>2. u.from # f.from
    BY <1>1, <1>2, <2>1, NamesAreUnique
  <2> QED BY <2>1, <2>2
<1>4. IsFiniteSet(backlog) /\ Cardinality(backlog) <= MaxPending /\ Cardinality(backlog) \in Nat
  BY FS_CardinalityType DEF CleanInv, PendingInv, Loop
<1>5. IsFiniteSet(backlog \ {f.from}) /\ Cardinality(backlog \ {f.from}) = Cardinality(backlog) - 1
  BY <1>2, <1>4, FS_RemoveElement
<1>6. Cardinality(Running) \in Nat /\ Cardinality(Running) <= Cardinality(backlog) - 1
  BY <1>1, <1>3, <1>5, OnePartPerRow
<1> QED BY <1>4, <1>6, OutputPartsAssumption

LEMMA RunningStep ==
  BaseInv /\ CleanInv /\ RunningInv /\ BaseInv' /\ CleanInv' /\ [Next]_vars => RunningInv'
<1> SUFFICES ASSUME BaseInv, CleanInv, RunningInv, BaseInv', CleanInv', [Next]_vars, clean'
             PROVE  RunningInv'
  BY DEF RunningInv
<1>0. PartsInv /\ SolidInv /\ LoopInv /\ buf \in Buffers
  BY DEF BaseInv, ParserInv, PartsInv
<1>a. FewAwaited /\ FewAwaited'
  BY AwaitedAreFew, PTL
<1>m. MaxPending \in Nat \ {0}
  BY OutputPartsAssumption
<1>f. IsFiniteSet(Running) /\ Cardinality(Running) \in Nat
  BY <1>0, RunningIsFinite
<1>i. pc \in Loop => flusher = "idle"
  BY <1>0 DEF LoopInv
<1>1. CASE pc' \in Loop \union {"flush"} /\ flusher' # "rejected"
  <2>2. Cardinality(Running') <= MaxPending
    BY <1>1, <1>a DEF FewAwaited
  <2>3. pc' # "fatal"
    BY <1>1 DEF Loop
  <2> QED BY <1>1, <2>2, <2>3 DEF RunningInv
<1>2. CASE ~(pc' \in Loop \union {"flush"} /\ flusher' # "rejected")
  <2>c. clean
    BY <1>2, CleanStays DEF Begin, NewManager, Loop
  <2>s. ASSUME Running' \subseteq Running PROVE Cardinality(Running') \in Nat /\ Cardinality(Running') <= Cardinality(Running)
    BY <1>f, <2>s, FS_Subset, FS_CardinalityType
  <2>r. Cardinality(Running) <= MaxPending
    BY <2>c DEF RunningInv
  <2>1. ASSUME Running' \subseteq Running, pc' = pc, flusher' = flusher PROVE RunningInv'
    BY <1>f, <1>m, <2>1, <2>c, <2>s DEF RunningInv
  <2>2. CASE Same
    BY <2>1, <2>2 DEF Same, Running, partVars
  <2>3. CASE Begin \/ NextLine \/ Walks \/ Collects \/ PassesOver \/ RowsLanded \/ FinalFlush
    <3>1. pc' \in Loop \union {"flush"} /\ (pc \in Loop => flusher' = flusher)
      BY <2>3 DEF Begin, NextLine, Walks, Collects, AddRow, PassesOver, RowsLanded, FinalFlush, Loop, partVars
    <3>2. pc \in Loop \/ Begin
      BY <2>3 DEF NextLine, Walks, Collects, PassesOver, RowsLanded, FinalFlush, Loop
    <3> QED BY <1>2, <1>i, <3>1, <3>2 DEF Begin, NewManager
  <2>4. CASE Breaks
    <3>1. Running' = Running
      BY <2>4 DEF Breaks, FlushAllAgain, Running
    <3>2. ASSUME pc = "backpressure", SomeFailed(backlog) PROVE Cardinality(Running) < MaxPending
      BY <1>0, <1>i, <2>c, <3>2, OneHasFailed DEF Loop
    <3>3. ASSUME pc = "read" \/ (pc = "flush" /\ flusher = "done")
          PROVE  Cardinality(Running) < MaxPending
      BY <1>a, <1>i, <2>c, <3>3 DEF FewAwaited, Loop
    <3>4. ASSUME pc = "flush", flusher = "rejected" PROVE Cardinality(Running) < MaxPending
      BY <2>c, <3>4 DEF RunningInv
    <3>5. Cardinality(Running) < MaxPending
      BY <2>4, <3>2, <3>3, <3>4 DEF Breaks
    <3> QED BY <2>r, <3>1, <3>5 DEF RunningInv
  <2>5. CASE FlushAlls
    <3>1. pc' = pc /\ pc \in {"flush", "fatal"}
      BY <2>5 DEF FlushAlls, loopVars
    <3>2. CASE PendingLanded
      <4>1. pc = "fatal" /\ flusher = "pending" /\ flusher' \notin {"idle", "pending", "rejected"}
        BY <1>2, <3>1, <3>2 DEF PendingLanded
      <4>2. Cardinality(Running) < MaxPending
        BY <2>c, <4>1 DEF RunningInv
      <4>3. Running' \subseteq Running \union {UploadOf(buf)}
        BY <3>2 DEF PendingLanded, Running
      <4>4. /\ IsFiniteSet(Running \union {UploadOf(buf)})
            /\ \/ Cardinality(Running \union {UploadOf(buf)}) = Cardinality(Running)
               \/ Cardinality(Running \union {UploadOf(buf)}) = Cardinality(Running) + 1
        BY <1>f, FS_AddElement
      <4>5. Cardinality(Running') <= MaxPending
        BY <1>f, <1>m, <4>2, <4>3, <4>4, FS_Subset, FS_CardinalityType
      <4> QED BY <3>1, <4>1, <4>5 DEF RunningInv
    <3>3. CASE ~PendingLanded
      <4>1. Running' = Running
        BY <2>5, <3>3 DEF FlushAlls, FlushAllStart, FlushAllStep, ManifestFails, PendingRejected,
                          LastSettled, Release, Running
      <4>2. CASE pc = "fatal"
        <5>1. flusher' \in {"idle", "pending"} => flusher \in {"idle", "pending"}
          BY <2>5, <3>3 DEF FlushAlls, FlushAllStart, FlushAllStep, ManifestFails, PendingRejected,
                            LastSettled, Release
        <5> QED BY <2>c, <3>1, <4>1, <4>2, <5>1 DEF RunningInv
      <4>3. CASE pc = "flush"
        <5>1. flusher' = "rejected"
          BY <1>2, <3>1, <4>3
        <5>2. flusher # "rejected"
          BY <2>5, <3>3, <4>3 DEF FlushAlls, FlushAllStart, FlushAllStep, ManifestFails,
                            PendingRejected, LastSettled, Release
        <5>3. CASE flusher # "last"
          BY <1>a, <2>c, <2>r, <4>1, <4>3, <5>2, <5>3 DEF FewAwaited, RunningInv, Loop
        <5>4. CASE flusher = "last"
          <6>1. PICK f \in LastUpload : f.status = "failed"
            BY <2>5, <3>3, <5>1, <5>4 DEF FlushAlls, FlushAllStart, FlushAllStep, ManifestFails,
                            PendingRejected, LastSettled, Release
          <6>2. \A u \in uploads : IsAwaited(u) /\ u.gen = buf.gen
            BY <2>c, <4>3, <5>2 DEF CleanInv, WaitedFor, OwnInv
          <6>3. \A u \in Running : u = f
            BY <1>0, <4>3, <5>4, <6>1, <6>2, NamesAreUnique DEF IsAwaited, Running, LastUpload
          <6>4. Running = {}
            BY <6>1, <6>3 DEF Running
          <6> QED BY <1>m, <4>1, <6>4, FS_EmptySet DEF RunningInv
        <5> QED BY <5>3, <5>4
      <4> QED BY <3>1, <4>2, <4>3
    <3> QED BY <3>2, <3>3
  <2>6. CASE Ends
    <3>1. Running' = Running /\ pc' = "ended"
      BY <2>6 DEF Ends, Running, partVars
    <3> QED BY <2>r, <3>1 DEF RunningInv
  <2>7. CASE Uploaded
    <3>1. PICK u, s : Settled(u, s)
      BY <1>0, <2>7, UploadedSettles
    <3> QED BY <2>1, <3>1 DEF Settled, Running
  <2>8. CASE Crash
    <3>1. Running' \subseteq Running /\ pc' = "ended"
      BY <2>8 DEF Crash, LoseBuffer, Running
    <3> QED BY <1>f, <1>m, <2>r, <2>s, <3>1 DEF RunningInv
  <2> QED BY <2>2, <2>3, <2>4, <2>5, <2>6, <2>7, <2>8, Kinds
<1> QED BY <1>1, <1>2

PressureInv == BaseInv /\ TasksInv /\ CleanInv /\ RunningInv

LEMMA PressureInit == Init => PressureInv
<1> SUFFICES ASSUME Init PROVE PressureInv
  OBVIOUS
<1>1. BaseInv /\ TasksInv
  BY ReportInit DEF ReportInv, BaseInv
<1>2. uploads = {} /\ pc = "idle"
  BY DEF Init, PartsInit
<1>3. CleanInv
  BY <1>2 DEF CleanInv, OwnInv, PendingInv, WaitedFor, Loop
<1>4. Running = {}
  BY <1>2 DEF Running
<1>5. Cardinality(Running) < MaxPending /\ Cardinality(Running) <= MaxPending
  BY <1>4, NothingPending, OutputPartsAssumption
<1>6. RunningInv
  BY <1>5 DEF RunningInv
<1> QED BY <1>1, <1>3, <1>6 DEF PressureInv

LEMMA BaseStep == BaseInv /\ [Next]_vars => BaseInv'
BY ParserStep, LoopStep, SolidStep DEF BaseInv

LEMMA CleanStep == BaseInv /\ CleanInv /\ [Next]_vars => CleanInv'
BY OwnStep, PendingStep, WaitedStep DEF CleanInv

LEMMA PressureStep == PressureInv /\ [Next]_vars => PressureInv'
<1> SUFFICES ASSUME PressureInv, [Next]_vars PROVE PressureInv'
  OBVIOUS
<1>1. BaseInv' /\ CleanInv' /\ TasksInv'
  BY BaseStep, CleanStep, TasksStep DEF PressureInv, BaseInv
<1> QED BY <1>1, RunningStep DEF PressureInv

(* The back-pressure of the loop holds, for any sizes of the queue and of   *)
(* the limit, and any faults.                                               *)
THEOREM PressureHolds == Spec => []BackgroundBounded
<1>1. PressureInv => BackgroundBounded
  <2> SUFFICES ASSUME PressureInv PROVE BackgroundBounded
    OBVIOUS
  <2>1. clean => {u \in uploads : u.gen = buf.gen /\ u.status = "running"} = Running
    BY DEF PressureInv, CleanInv, OwnInv, Running
  <2> QED BY <2>1 DEF PressureInv, RunningInv, TasksInv, BackgroundBounded
<1> QED BY PressureInit, PressureStep, <1>1, PTL DEF Spec

-----------------------------------------------------------------------------
(***************************************************************************)
(* What is published.  RowsHeld(U, r, G): the parts U and the buffered     *)
(* rows r hold each line of G once, and no other line.                     *)
(***************************************************************************)
RowsHeld(U, r, G) ==
  /\ \A u \in U : \A i \in DOMAIN u.rows : u.rows[i] \in G
  /\ \A i \in DOMAIN r : r[i] \in G
  /\ \A l \in G : \/ \E u \in U : \E i \in DOMAIN u.rows : u.rows[i] = l
                  \/ \E i \in DOMAIN r : r[i] = l
  /\ \A u, v \in U : \A i \in DOMAIN u.rows, j \in DOMAIN v.rows :
       u.rows[i] = v.rows[j] => u = v /\ i = j
  /\ \A i, j \in DOMAIN r : r[i] = r[j] => i = j
  /\ \A u \in U : \A i \in DOMAIN u.rows, j \in DOMAIN r : u.rows[i] # r[j]

LEMMA NoRowsHeld == RowsHeld({}, <<>>, {})
BY DEF RowsHeld

LEMMA OneRowMore ==
  ASSUME NEW U, NEW r \in Seq(Nat), NEW G, NEW l \in Nat, l \notin G, RowsHeld(U, r, G)
  PROVE  RowsHeld(U, Append(r, l), G \union {l})
<1> DEFINE q == Append(r, l)
           n == Len(r) + 1
<1>1. /\ DOMAIN r = 1 .. Len(r) /\ Len(r) \in Nat
      /\ DOMAIN q = 1 .. n /\ n \in DOMAIN q /\ n \notin DOMAIN r
      /\ q[n] = l /\ DOMAIN q = DOMAIN r \union {n}
      /\ \A i \in DOMAIN r : q[i] = r[i]
  OBVIOUS
<1> HIDE DEF q, n
<1>2. /\ \A u \in U : \A i \in DOMAIN u.rows : u.rows[i] \in G
      /\ \A i \in DOMAIN r : r[i] \in G
  BY DEF RowsHeld
<1>3. \A i \in DOMAIN q : q[i] \in G \union {l}
  BY <1>1, <1>2
<1>4. \A k \in G \union {l} : \/ \E u \in U : \E i \in DOMAIN u.rows : u.rows[i] = k
                             \/ \E i \in DOMAIN q : q[i] = k
  <2> SUFFICES ASSUME NEW k \in G \union {l},
                      ~ \E u \in U : \E i \in DOMAIN u.rows : u.rows[i] = k
               PROVE  \E i \in DOMAIN q : q[i] = k
    OBVIOUS
  <2>1. CASE k = l
    BY <1>1, <2>1
  <2>2. CASE k \in G
    <3>1. PICK i \in DOMAIN r : r[i] = k
      BY <2>2 DEF RowsHeld
    <3> QED BY <1>1, <3>1
  <2> QED BY <2>1, <2>2
<1>5. \A i, j \in DOMAIN q : q[i] = q[j] => i = j
  <2>1. \A i, j \in DOMAIN r : r[i] = r[j] => i = j
    BY DEF RowsHeld
  <2> QED BY <1>1, <1>2, <2>1
<1>6. \A u \in U : \A i \in DOMAIN u.rows, j \in DOMAIN q : u.rows[i] # q[j]
  <2>1. \A u \in U : \A i \in DOMAIN u.rows, j \in DOMAIN r : u.rows[i] # r[j]
    BY DEF RowsHeld
  <2> SUFFICES ASSUME NEW u \in U, NEW i \in DOMAIN u.rows, NEW j \in DOMAIN q
               PROVE  u.rows[i] # q[j]
    OBVIOUS
  <2>2. u.rows[i] \in G
    BY <1>2
  <2>3. CASE j = n
    BY <1>1, <2>2, <2>3
  <2>4. CASE j \in DOMAIN r
    BY <1>1, <2>1, <2>4
  <2> QED BY <1>1, <2>3, <2>4
<1>7. \A u, v \in U : \A i \in DOMAIN u.rows, j \in DOMAIN v.rows :
        u.rows[i] = v.rows[j] => u = v /\ i = j
  BY DEF RowsHeld
<1>8. RowsHeld(U, q, G \union {l})
  BY <1>2, <1>3, <1>4, <1>5, <1>6, <1>7 DEF RowsHeld
<1> QED BY <1>8 DEF q

LEMMA RowsCutOff ==
  ASSUME NEW U, NEW r, NEW G, NEW w, w.rows = r, RowsHeld(U, r, G)
  PROVE  RowsHeld(U \union {w}, <<>>, G)
BY DEF RowsHeld

LEMMA RowsSettled ==
  ASSUME NEW U, NEW r, NEW G, NEW u \in U, NEW s, s.rows = u.rows, RowsHeld(U, r, G)
  PROVE  RowsHeld((U \ {u}) \union {s}, r, G)
BY DEF RowsHeld

\* The lines that have a row: those that count as parsed, and the one addRow's caller has not
\* counted yet.
Gathered == LinesOf("parsed") \union (IF pc = "backpressure" THEN {lineNo} ELSE {})

RowsInv ==
  clean /\ (pc \in Loop \union {"flush"} \/ Completed) => RowsHeld(uploads, buf.rows, Gathered)

\* The objects of the parts that landed hold their rows.
StoredInv ==
  clean => \A u \in uploads : u.status = "landed" =>
             PartName(u) \in DOMAIN objects /\ objects[PartName(u)] = u.rows

\* flushAll leaves nothing in the buffer, and names every part.
AllOutInv ==
  clean =>
    /\ (pc = "flush" /\ flusher \in {"last", "manifest", "done"}) \/ Completed => buf.rows = <<>>
    /\ Completed => \A u \in uploads : u.status = "landed"
    /\ (pc = "flush" /\ flusher = "done") \/ Completed => paths = {PartName(u) : u \in uploads}

PublishInv == BaseInv /\ CleanInv /\ RowsInv /\ StoredInv /\ AllOutInv

LEMMA GatheredSame ==
  ASSUME fate' = fate, pc' # "backpressure", pc # "backpressure"
  PROVE  Gathered' = Gathered
BY DEF Gathered, LinesOf

LEMMA RowsStep == BaseInv /\ RowsInv /\ AllOutInv /\ [Next]_vars => RowsInv'
<1> SUFFICES ASSUME BaseInv, RowsInv, AllOutInv, [Next]_vars, clean',
                    pc' \in Loop \union {"flush"} \/ Completed'
             PROVE  RowsHeld(uploads', buf.rows', Gathered')
  BY DEF RowsInv
<1> USE DEF Loop
<1>0. PartsInv /\ LoopInv /\ EmptyInv /\ buf \in Buffers /\ uploads \subseteq Uploads /\ lineNo \in Nat
  BY DEF BaseInv, ParserInv, PartsInv
<1>1. CASE Begin
  <2>1. uploads' = {} /\ buf.rows' = <<>> /\ pc' = "read"
    BY <1>1, CleanBegins
  <2>2. Gathered' = {}
    BY <1>1, <2>1 DEF Begin, Gathered, LinesOf
  <2> QED BY <2>1, <2>2, NoRowsHeld
<1>2. CASE ~Begin
  <2>c. clean
    BY <1>2, CleanStays
  <2>h. pc \in Loop \union {"flush"} \/ Completed => RowsHeld(uploads, buf.rows, Gathered)
    BY <2>c DEF RowsInv
  <2>1. ASSUME UNCHANGED <<buf, uploads>>, Gathered' = Gathered, pc \in Loop \union {"flush"} \/ Completed
        PROVE  RowsHeld(uploads', buf.rows', Gathered')
    BY <2>1, <2>h
  <2>2. CASE Same
    BY <2>1, <2>2 DEF Same, partVars, loopVars, Gathered, LinesOf, Completed
  <2>3. CASE NextLine \/ Walks \/ FinalFlush
    <3>1. UNCHANGED <<buf, uploads>> /\ fate' = fate /\ pc \in Loop /\ pc # "backpressure" /\ pc' # "backpressure"
      BY <2>3 DEF NextLine, Walks, FinalFlush, partVars, loopVars
    <3> QED BY <2>1, <3>1, GatheredSame
  <2>4. CASE PassesOver
    <3>1. UNCHANGED <<buf, uploads>> /\ pc \in {"classify", "ai"} /\ pc' = "read"
      BY <2>4 DEF PassesOver, partVars
    <3>2. PICK f \in {"dropped", "failed"} : fate' = [fate EXCEPT ![lineNo] = f]
      BY <2>4 DEF PassesOver
    <3>3. fate \in [Lines -> Fates] /\ fate[lineNo] = "unread"
      BY <1>0, <3>1 DEF LoopInv
    <3>4. Gathered' = Gathered
      BY <3>1, <3>2, <3>3 DEF Gathered, LinesOf
    <3> QED BY <2>1, <3>1, <3>4
  <2>5. CASE RowsLanded
    <3>1. UNCHANGED <<buf, uploads>> /\ pc = "backpressure" /\ pc' = "read"
          /\ fate' = [fate EXCEPT ![lineNo] = "parsed"]
      BY <2>5 DEF RowsLanded, partVars
    <3>2. fate \in [Lines -> Fates] /\ lineNo \in Lines
      BY <1>0, <3>1 DEF LoopInv
    <3>3. Gathered' = Gathered
      BY <3>1, <3>2 DEF Gathered, LinesOf
    <3> QED BY <2>1, <3>1, <3>3
  <2>6. CASE Collects
    <3>1. AddRow(lineNo) /\ pc \in {"classify", "ai"} /\ lineNo' = lineNo
      BY <2>6 DEF Collects
    <3>2. PICK b : Gets(b, lineNo) /\
           LET started == b.pending \union {b.flushed}
               full == Cardinality(started) >= MaxPending
           IN \/ buf' = b /\ uploads' = uploads
              \/ /\ uploads' = uploads \union {UploadOf(b)}
                 /\ buf' = [Cut(b) EXCEPT !.pending = IF full THEN {} ELSE started]
      BY <1>0, <3>1, AddRowAdds
    <3>3. fate \in [Lines -> Fates] /\ lineNo \in Lines /\ fate[lineNo] = "unread"
      BY <1>0, <3>1 DEF LoopInv
    <3>4. lineNo \notin Gathered /\ Gathered' = Gathered \union {lineNo}
      BY <2>6, <3>1, <3>3 DEF Collects, Gathered, LinesOf
    <3>5. b \in Buffers /\ b.rows = Append(buf.rows, lineNo) /\ buf.rows \in Seq(Nat)
      BY <1>0, <3>2 DEF Gets, Buffers
    <3>6. RowsHeld(uploads, b.rows, Gathered')
      BY <1>0, <2>h, <3>1, <3>4, <3>5, OneRowMore
    <3>7. CASE buf' = b /\ uploads' = uploads
      BY <3>6, <3>7
    <3>8. CASE ~(buf' = b /\ uploads' = uploads)
      <4>1. \A p : [Cut(b) EXCEPT !.pending = p].rows = <<>>
        BY <3>5 DEF Cut, Buffers
      <4>2. buf.rows' = <<>> /\ uploads' = uploads \union {UploadOf(b)}
        BY <3>2, <3>8, <4>1
      <4>3. UploadOf(b).rows = b.rows
        BY DEF UploadOf
      <4> QED BY <3>6, <4>2, <4>3, RowsCutOff
    <3> QED BY <3>7, <3>8
  <2>7. CASE Breaks
    BY <2>7 DEF Breaks, Completed
  <2>8. CASE Ends
    <3>1. pc = "flush" /\ pc' = "ended" /\ UNCHANGED <<buf, uploads, fate>>
      BY <2>8 DEF Ends, Completed, partVars
    <3> QED BY <2>1, <3>1, GatheredSame
  <2>9. CASE FlushAlls
    <3>1. pc = "flush" /\ pc' = "flush" /\ fate' = fate
      BY <2>9 DEF FlushAlls, Completed, loopVars
    <3>2. Gathered' = Gathered
      BY <3>1, GatheredSame
    <3>3. CASE PendingLanded
      <4>1. CASE buf.rows = <<>>
        <5>1. uploads' = uploads /\ buf' = [buf EXCEPT !.pending = {}]
          BY <3>3, <4>1 DEF PendingLanded
        <5>2. buf.rows' = buf.rows
          BY <1>0, <5>1 DEF Buffers
        <5> QED BY <2>h, <3>1, <3>2, <5>1, <5>2
      <4>2. CASE buf.rows # <<>>
        <5>1. uploads' = uploads \union {UploadOf(buf)} /\ buf' = [Cut(buf) EXCEPT !.pending = {}]
          BY <3>3, <4>2 DEF PendingLanded
        <5>2. buf.rows' = <<>> /\ UploadOf(buf).rows = buf.rows
          BY <1>0, <5>1 DEF Cut, Buffers, UploadOf
        <5>3. RowsHeld(uploads, buf.rows, Gathered')
          BY <2>h, <3>1, <3>2
        <5>4. RowsHeld(uploads \union {UploadOf(buf)}, <<>>, Gathered')
          BY <5>2, <5>3, RowsCutOff
        <5> QED BY <5>1, <5>2, <5>4
      <4> QED BY <4>1, <4>2
    <3>4. CASE Release
      <4>1. buf.rows = <<>> /\ uploads' = uploads /\ buf' = Released(buf)
        BY <2>c, <3>1, <3>4 DEF Release, AllOutInv
      <4>2. buf.rows' = <<>>
        BY <1>0, <4>1 DEF Released, Buffers
      <4> QED BY <2>h, <3>1, <3>2, <4>1, <4>2
    <3>5. CASE ~(PendingLanded \/ Release)
      <4>1. UNCHANGED <<buf, uploads>>
        BY <2>9, <3>5 DEF FlushAlls, FlushAllStart, FlushAllStep, ManifestFails, PendingRejected, LastSettled
      <4> QED BY <2>1, <3>1, <3>2, <4>1
    <3> QED BY <3>3, <3>4, <3>5
  <2>10. CASE Uploaded
    <3>1. PICK u, s : Settled(u, s)
      BY <1>0, <2>10, UploadedSettles
    <3>2. UNCHANGED <<buf, pc, lineNo, fate, outcome>>
      BY <3>1 DEF Settled, loopVars
    <3>3. Gathered' = Gathered /\ (pc \in Loop \union {"flush"} \/ Completed)
      BY <3>2 DEF Gathered, LinesOf, Completed
    <3> QED BY <2>h, <3>1, <3>2, <3>3, RowsSettled DEF Settled
  <2>11. CASE Crash
    <3>1. Completed /\ fate' = fate /\ pc = "ended" /\ pc' = "ended"
      BY <2>11 DEF Crash, Completed
    <3>2. buf.rows = <<>> /\ \A u \in uploads : u.status = "landed"
      BY <2>c, <3>1 DEF AllOutInv
    <3>3. buf' = Released(buf) /\ uploads' = uploads
      BY <2>11, <3>2 DEF Crash, LoseBuffer
    <3>4. buf.rows' = <<>>
      BY <1>0, <3>3 DEF Released, Buffers
    <3> QED BY <2>h, <3>1, <3>2, <3>3, <3>4, GatheredSame
  <2> QED BY <1>2, <2>2, <2>3, <2>4, <2>5, <2>6, <2>7, <2>8, <2>9, <2>10, <2>11, Kinds
<1> QED BY <1>1, <1>2

LEMMA StoredStep == BaseInv /\ OwnInv /\ StoredInv /\ [Next]_vars => StoredInv'
<1> SUFFICES ASSUME BaseInv, OwnInv, StoredInv, [Next]_vars, clean' PROVE StoredInv'
  BY DEF StoredInv
<1>0. PartsInv /\ SolidInv /\ EmptyInv /\ buf \in Buffers /\ uploads \subseteq Uploads /\ lineNo \in Nat
  BY DEF BaseInv, ParserInv, PartsInv
<1>1. CASE Begin
  BY <1>1, CleanBegins DEF StoredInv
<1>2. CASE ~Begin
  <2>c. clean
    BY <1>2, CleanStays
  <2>h. \A u \in uploads : u.status = "landed" =>
          PartName(u) \in DOMAIN objects /\ objects[PartName(u)] = u.rows
    BY <2>c DEF StoredInv
  <2>1. ASSUME objects' = objects, \A u \in uploads' : u \in uploads \/ u.status = "running"
        PROVE  StoredInv'
    BY <2>1, <2>h DEF StoredInv, PartName
  <2>2. CASE Same \/ NextLine \/ Walks \/ PassesOver \/ RowsLanded \/ Breaks \/ FinalFlush \/ Ends
    <3>1. UNCHANGED <<objects, uploads>>
      BY <2>2 DEF Same, NextLine, Walks, PassesOver, RowsLanded, Breaks, FlushAllAgain, FinalFlush, Ends, partVars
    <3> QED BY <2>1, <3>1
  <2>3. CASE Collects
    <3>1. AddRow(lineNo)
      BY <2>3 DEF Collects
    <3>2. objects' = objects /\ \E b : uploads' \subseteq uploads \union {UploadOf(b)}
      BY <3>1 DEF AddRow
    <3> QED BY <2>1, <3>2 DEF UploadOf
  <2>4. CASE FlushAlls
    <3>1. objects' = objects /\ uploads' \subseteq uploads \union {UploadOf(buf)}
      BY <2>4 DEF FlushAlls, FlushAllStart, FlushAllStep, ManifestFails, PendingLanded, PendingRejected,
                  LastSettled, Release
    <3> QED BY <2>1, <3>1 DEF UploadOf
  <2>5. CASE Crash
    <3>1. objects' = objects /\ uploads' \subseteq uploads
      BY <2>5 DEF Crash, LoseBuffer
    <3> QED BY <2>1, <3>1
  <2>6. CASE Uploaded
    <3>1. PICK u, s : Settled(u, s)
      BY <1>0, <2>6, UploadedSettles
    <3>2. /\ u \in uploads /\ s.from = u.from /\ s.to = u.to /\ s.rows = u.rows
          /\ uploads' = (uploads \ {u}) \union {s} /\ s.status \in {"landed", "failed"}
      BY <3>1 DEF Settled
    <3>3. CASE s.status = "failed"
      <4>1. objects' = objects
        BY <3>1, <3>3 DEF Settled
      <4> QED BY <2>h, <3>2, <3>3, <4>1 DEF StoredInv, PartName
    <3>4. CASE s.status = "landed"
      <4>1. objects' = [n \in DOMAIN objects \union {PartName(u)} |->
                          IF n = PartName(u) THEN u.rows ELSE objects[n]]
        BY <3>1, <3>4 DEF Settled
      <4>2. /\ DOMAIN objects' = DOMAIN objects \union {PartName(u)}
            /\ objects'[PartName(u)] = u.rows
            /\ \A n \in DOMAIN objects : n # PartName(u) => objects'[n] = objects[n]
        BY <4>1
      <4>3. ASSUME NEW v \in uploads, v # u
            PROVE  PartName(v) # PartName(u)
        BY <1>0, <2>c, <3>2, <4>3, NamesAreUnique DEF OwnInv, PartName
      <4>4. PartName(s) = PartName(u)
        BY <3>2 DEF PartName
      <4> QED BY <2>h, <3>2, <4>2, <4>3, <4>4 DEF StoredInv, PartName
    <3> QED BY <3>2, <3>3, <3>4
  <2> QED BY <1>2, <2>2, <2>3, <2>4, <2>5, <2>6, Kinds
<1> QED BY <1>1, <1>2

\* In a clean attempt what landed is what every upload was, once flushAll has waited for them.
LEMMA AllLandedOnce ==
  ASSUME CleanInv, clean, pc = "flush", flusher \in {"manifest", "done"}
  PROVE  (\A u \in uploads : u.status = "landed") /\ Landed = uploads
BY DEF CleanInv, WaitedFor, OwnInv, IsAwaited, Landed, Loop

LEMMA AllOutStep == BaseInv /\ CleanInv /\ AllOutInv /\ [Next]_vars => AllOutInv'
<1> SUFFICES ASSUME BaseInv, CleanInv, AllOutInv, [Next]_vars, clean' PROVE AllOutInv'
  BY DEF AllOutInv
<1>0. PartsInv /\ LoopInv /\ SolidInv /\ EmptyInv /\ OwnInv /\ buf \in Buffers
  BY DEF BaseInv, CleanInv, ParserInv, PartsInv
<1>1. CASE Begin
  BY <1>1, CleanBegins DEF AllOutInv, Completed
<1>2. CASE ~Begin
  <2>c. clean
    BY <1>2, CleanStays
  <2>1. CASE Same
    BY <2>1, <2>c DEF Same, AllOutInv, Completed, partVars, loopVars, PartName
  <2>2. CASE pc' \in Loop \union {"fatal"}
    BY <2>2 DEF AllOutInv, Completed, Loop
  <2>3. CASE NextLine \/ Walks \/ Collects \/ PassesOver \/ RowsLanded \/ Breaks
    BY <2>2, <2>3 DEF NextLine, Walks, Collects, PassesOver, RowsLanded, Breaks, Loop
  <2>4. CASE FinalFlush
    <3>1. pc' = "flush" /\ flusher' = "idle"
      BY <1>0, <2>4 DEF FinalFlush, LoopInv, Loop, partVars
    <3> QED BY <3>1 DEF AllOutInv, Completed
  <2>5. CASE Ends
    <3>1. CASE outcome' = "failed"
      BY <2>5, <3>1 DEF Ends, AllOutInv, Completed
    <3>2. CASE outcome' # "failed"
      <4>1. pc = "flush" /\ flusher = "done" /\ pc' = "ended" /\ UNCHANGED <<buf, uploads, paths>>
        BY <2>5, <3>2 DEF Ends, partVars
      <4>2. \A u \in uploads : u.status = "landed"
        BY <2>c, <4>1, AllLandedOnce
      <4> QED BY <2>c, <4>1, <4>2 DEF AllOutInv, PartName
    <3> QED BY <3>1, <3>2
  <2>6. CASE Uploaded
    <3>1. PICK u, s : Settled(u, s)
      BY <1>0, <2>6, UploadedSettles
    <3>2. u.status # "landed" /\ u \in uploads /\ UNCHANGED <<buf, flusher, paths, pc, outcome>>
      BY <3>1 DEF Settled, loopVars
    <3>3. ~Completed /\ ~(pc = "flush" /\ flusher = "done")
      BY <2>c, <3>2, AllLandedOnce DEF AllOutInv
    <3> QED BY <2>c, <3>2, <3>3 DEF AllOutInv, Completed
  <2>7. CASE Crash
    <3>1. CASE ~Completed'
      BY <2>7, <3>1 DEF Crash, AllOutInv
    <3>2. CASE Completed'
      <4>1. Completed /\ pc' = "ended" /\ buf' = Released(buf) /\ paths' = paths
            /\ uploads' = {u \in uploads : u.status # "running"}
        BY <2>7, <3>2 DEF Crash, LoseBuffer, Completed
      <4>2. uploads' = uploads
        BY <2>c, <4>1 DEF AllOutInv
      <4>3. buf'.rows = <<>>
        BY <1>0, <4>1 DEF Released, Buffers
      <4> QED BY <2>c, <4>1, <4>2, <4>3 DEF AllOutInv, PartName
    <3> QED BY <3>1, <3>2
  <2>8. CASE FlushAlls
    <3>1. CASE pc = "fatal"
      BY <2>2, <2>8, <3>1 DEF FlushAlls, loopVars
    <3>2. CASE pc = "flush"
      <4>1. pc' = "flush"
        BY <2>8, <3>2 DEF FlushAlls, loopVars
      <4>h. flusher \in {"last", "manifest", "done"} => buf.rows = <<>>
        BY <2>c, <3>2 DEF AllOutInv
      <4>2. CASE FlushAllStart
        <5>1. CASE held
          BY <4>1, <4>2, <5>1 DEF FlushAllStart, AllOutInv, Completed
        <5>2. CASE ~held
          <6>1. ~buf.live /\ uploads = {} /\ flusher = "idle"
            BY <1>0, <2>c, <3>2, <4>2, <5>2 DEF OwnInv, FlushAllStart
          <6>2. buf.rows = <<>> /\ paths = {}
            BY <1>0, <3>2, <6>1 DEF EmptyInv, LoopInv
          <6>3. UNCHANGED <<buf, uploads, paths>>
            BY <4>2 DEF FlushAllStart
          <6> QED BY <4>1, <6>1, <6>2, <6>3 DEF AllOutInv, Completed
        <5> QED BY <5>1, <5>2
      <4>3. CASE PendingLanded
        <5>1. flusher' \in {"last", "manifest"}
          BY <4>3 DEF PendingLanded
        <5>2. CASE buf.rows = <<>>
          <6>1. buf' = [buf EXCEPT !.pending = {}]
            BY <4>3, <5>2 DEF PendingLanded
          <6>2. buf'.rows = <<>>
            BY <1>0, <5>2, <6>1 DEF Buffers
          <6> QED BY <4>1, <5>1, <6>2 DEF AllOutInv, Completed
        <5>3. CASE buf.rows # <<>>
          <6>1. buf' = [Cut(buf) EXCEPT !.pending = {}]
            BY <4>3, <5>3 DEF PendingLanded
          <6>2. buf'.rows = <<>>
            BY <1>0, <6>1 DEF Cut, Buffers
          <6> QED BY <4>1, <5>1, <6>2 DEF AllOutInv, Completed
        <5> QED BY <5>2, <5>3
      <4>4. CASE PendingRejected \/ LastSettled \/ ManifestFails
        <5>1. /\ UNCHANGED <<buf, uploads, paths>> /\ flusher' # "done"
              /\ flusher' # "rejected" => flusher = "last"
          BY <4>4 DEF PendingRejected, LastSettled, ManifestFails
        <5> QED BY <4>1, <4>h, <5>1 DEF AllOutInv, Completed
      <4>5. CASE Release
        <5>1. /\ flusher = "manifest" /\ buf' = Released(buf) /\ uploads' = uploads
              /\ paths' = {PartName(u) : u \in Landed}
          BY <4>5 DEF Release
        <5>2. Landed = uploads
          BY <2>c, <3>2, <5>1, AllLandedOnce
        <5>3. buf'.rows = <<>>
          BY <1>0, <5>1 DEF Released, Buffers
        <5> QED BY <4>1, <5>1, <5>2, <5>3 DEF AllOutInv, Completed, PartName
      <4> QED BY <2>8, <4>2, <4>3, <4>4, <4>5 DEF FlushAlls, FlushAllStep
    <3> QED BY <2>8, <3>1, <3>2 DEF FlushAlls
  <2> QED BY <1>2, <2>1, <2>3, <2>4, <2>5, <2>6, <2>7, <2>8, Kinds
<1> QED BY <1>1, <1>2

LEMMA PublishInit == Init => PublishInv
<1> SUFFICES ASSUME Init PROVE PublishInv
  OBVIOUS
<1>1. BaseInv /\ CleanInv
  BY PressureInit DEF PressureInv
<1>2. uploads = {} /\ pc = "idle"
  BY DEF Init, PartsInit
<1> QED BY <1>1, <1>2 DEF PublishInv, RowsInv, StoredInv, AllOutInv, Completed, Loop

LEMMA PublishStep == PublishInv /\ [Next]_vars => PublishInv'
BY BaseStep, CleanStep, RowsStep, StoredStep, AllOutStep DEF PublishInv, CleanInv

\* What is known of the uploads of a clean attempt that completed.
LEMMA CompletedParts ==
  ASSUME PublishInv, Completed, clean
  PROVE  /\ paths = {PartName(u) : u \in uploads} /\ uploads \subseteq Uploads
         /\ \A u \in uploads : PartName(u) \in DOMAIN objects /\ objects[PartName(u)] = u.rows
         /\ RowsHeld(uploads, <<>>, LinesOf("parsed"))
<1>1. paths = {PartName(u) : u \in uploads} /\ buf.rows = <<>> /\ \A u \in uploads : u.status = "landed"
  BY DEF PublishInv, AllOutInv
<1>2. Gathered = LinesOf("parsed")
  BY DEF Completed, Gathered
<1>3. RowsHeld(uploads, <<>>, LinesOf("parsed"))
  BY <1>1, <1>2 DEF PublishInv, RowsInv
<1> QED BY <1>1, <1>3 DEF PublishInv, StoredInv, BaseInv, ParserInv, PartsInv

LEMMA UpToIsFinite ==
  ASSUME NEW n \in Nat
  PROVE  IsFiniteSet(1 .. n) /\ Cardinality(1 .. n) = n
<1>1. 1 \in Int /\ n \in Int
  OBVIOUS
<1>2. IsFiniteSet(1 .. n)
  BY <1>1, FS_Interval
<1>3. Cardinality(1 .. n) = IF 1 > n THEN 0 ELSE n - 1 + 1
  BY <1>1, FS_Interval
<1> QED BY <1>2, <1>3

\* No part is longer than the file.
LEMMA PartsAreShort ==
  ASSUME NEW u \in Uploads, \A i \in DOMAIN u.rows : u.rows[i] \in LinesOf("parsed"),
         \A i, j \in DOMAIN u.rows : u.rows[i] = u.rows[j] => i = j
  PROVE  DOMAIN u.rows \subseteq 1 .. LineCount
<1>1. u.rows \in Seq(Nat) /\ LineCount \in Nat /\ LinesOf("parsed") \subseteq 1 .. LineCount
  BY LineBatchesAssumption DEF Uploads, LinesOf, Lines
<1>2. DOMAIN u.rows = 1 .. Len(u.rows) /\ Len(u.rows) \in Nat
  BY <1>1
<1> DEFINE f == [i \in 1 .. Len(u.rows) |-> u.rows[i]]
<1>3. f \in Injection(1 .. Len(u.rows), 1 .. LineCount)
  BY <1>1, <1>2 DEF Injection, IsInjective
<1>4. /\ IsFiniteSet(1 .. LineCount) /\ Cardinality(1 .. LineCount) = LineCount
      /\ Cardinality(1 .. Len(u.rows)) = Len(u.rows)
  BY <1>1, <1>2, UpToIsFinite
<1>5. Len(u.rows) <= LineCount
  BY <1>3, <1>4, FS_Injection
<1> QED BY <1>1, <1>2, <1>5

(* A parse that began with nothing of an earlier one and completed has      *)
(* published every line it parsed exactly once: the objects that            *)
(* PARSING_COMPLETED names are there and hold these lines, none twice, for  *)
(* any file, thresholds and faults before and in that parse.                *)
THEOREM PublishedExactly == Spec => []PublishedPartsExact
<1>1. PublishInv => PublishedPartsExact
  <2> SUFFICES ASSUME PublishInv, Completed, clean
               PROVE  /\ paths \subseteq DOMAIN objects
                      /\ {objects[r[1]][r[2]] : r \in PublishedRows} = LinesOf("parsed")
                      /\ Cardinality(PublishedRows) = Cardinality(LinesOf("parsed"))
    BY DEF PublishedPartsExact
  <2> DEFINE G == LinesOf("parsed")
             g == [r \in PublishedRows |-> objects[r[1]][r[2]]]
  <2>1. /\ paths = {PartName(u) : u \in uploads} /\ uploads \subseteq Uploads
        /\ \A u \in uploads : PartName(u) \in DOMAIN objects /\ objects[PartName(u)] = u.rows
        /\ RowsHeld(uploads, <<>>, G)
    BY CompletedParts
  <2>2. /\ \A u \in uploads : \A i \in DOMAIN u.rows : u.rows[i] \in G
        /\ \A l \in G : \E u \in uploads : \E i \in DOMAIN u.rows : u.rows[i] = l
        /\ \A u, v \in uploads : \A i \in DOMAIN u.rows, j \in DOMAIN v.rows :
             u.rows[i] = v.rows[j] => u = v /\ i = j
    BY <2>1 DEF RowsHeld
  <2> HIDE DEF G
  <2>3. \A u \in uploads : DOMAIN u.rows \subseteq 1 .. LineCount
    BY <2>1, <2>2, PartsAreShort DEF G
  <2>4. ASSUME NEW u \in uploads, NEW i \in DOMAIN u.rows
        PROVE  <<PartName(u), i>> \in PublishedRows /\ objects[PartName(u)][i] = u.rows[i]
    BY <2>1, <2>3 DEF PublishedRows
  <2>5. ASSUME NEW r \in PublishedRows
        PROVE  \E u \in uploads : \E i \in DOMAIN u.rows :
                 r = <<PartName(u), i>> /\ objects[r[1]][r[2]] = u.rows[i]
    <3>1. PICK n \in paths : \E i \in DOMAIN objects[n] : r = <<n, i>>
      BY DEF PublishedRows
    <3>2. PICK i \in DOMAIN objects[n] : r = <<n, i>>
      BY <3>1
    <3>3. PICK u \in uploads : n = PartName(u)
      BY <2>1
    <3> QED BY <2>1, <3>2, <3>3
  <2>6. {objects[r[1]][r[2]] : r \in PublishedRows} = G
    <3>1. ASSUME NEW r \in PublishedRows PROVE objects[r[1]][r[2]] \in G
      BY <2>2, <2>5
    <3>2. ASSUME NEW l \in G PROVE \E r \in PublishedRows : objects[r[1]][r[2]] = l
      <4>1. PICK u \in uploads : \E i \in DOMAIN u.rows : u.rows[i] = l
        BY <2>2
      <4>2. PICK i \in DOMAIN u.rows : u.rows[i] = l
        BY <4>1
      <4>3. <<PartName(u), i>> \in PublishedRows /\ objects[PartName(u)][i] = l
        BY <2>4, <4>2
      <4> DEFINE r == <<PartName(u), i>>
      <4>4. r \in PublishedRows /\ objects[r[1]][r[2]] = l
        BY <4>3
      <4> QED BY <4>4
    <3> QED BY <3>1, <3>2
  <2>7. g \in [PublishedRows -> G] /\ \A l \in G : \E r \in PublishedRows : g[r] = l
    BY <2>6
  <2>8. ASSUME NEW r \in PublishedRows, NEW q \in PublishedRows, objects[r[1]][r[2]] = objects[q[1]][q[2]]
        PROVE  r = q
    <3>1. PICK u \in uploads : \E i \in DOMAIN u.rows :
                 r = <<PartName(u), i>> /\ objects[r[1]][r[2]] = u.rows[i]
      BY <2>5
    <3>2. PICK i \in DOMAIN u.rows : r = <<PartName(u), i>> /\ objects[r[1]][r[2]] = u.rows[i]
      BY <3>1
    <3>3. PICK v \in uploads : \E j \in DOMAIN v.rows :
                 q = <<PartName(v), j>> /\ objects[q[1]][q[2]] = v.rows[j]
      BY <2>5
    <3>4. PICK j \in DOMAIN v.rows : q = <<PartName(v), j>> /\ objects[q[1]][q[2]] = v.rows[j]
      BY <3>3
    <3>5. u = v /\ i = j
      BY <2>2, <2>8, <3>2, <3>4
    <3> QED BY <3>2, <3>4, <3>5
  <2>9. IsFiniteSet(G)
    <3>1. G \subseteq 1 .. LineCount /\ LineCount \in Nat
      BY LineBatchesAssumption DEF G, LinesOf, Lines
    <3>2. IsFiniteSet(1 .. LineCount)
      BY <3>1, UpToIsFinite
    <3> QED BY <3>1, <3>2, FS_Subset
  <2>10. g \in Bijection(PublishedRows, G)
    BY <2>7, <2>8 DEF Bijection, Injection, Surjection, IsInjective
  <2>11. Cardinality(PublishedRows) = Cardinality(G)
    BY <2>9, <2>10, FS_Injection DEF Bijection
  <2>12. paths \subseteq DOMAIN objects
    BY <2>1
  <2> QED BY <2>6, <2>11, <2>12 DEF G
<1> QED BY PublishInit, PublishStep, <1>1, PTL DEF Spec
=============================================================================
