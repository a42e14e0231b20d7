--------------------------- MODULE OutputParts ---------------------------
(***************************************************************************)
(* The Parquet parts of one job: OutputBuffer, one instance per job in a    *)
(* registry of the process, and OutputManager.flushAll.                     *)
(*                                                                          *)
(* addRow cuts the buffered rows into a part when the threshold is reached  *)
(* and uploads it in the background under the name                          *)
(* <job>-<first row>-<last row>.  When MaxPending uploads have been started *)
(* since the last wait the caller waits for all of them.  flushAll waits    *)
(* for the pending uploads, uploads the rest, writes the manifest and       *)
(* releases the instance.                                                   *)
(*                                                                          *)
(* A promise that was rejected stays in pendingFlushes: an instance whose   *)
(* flushAll failed there is still registered, with that promise in it, and  *)
(* is the buffer of the next parse of the job in the same process.          *)
(***************************************************************************)
EXTENDS Integers, Sequences, FiniteSets

CONSTANTS PartRows,    \* OUTPUT_BUFFER_FLUSH_THRESHOLD_ROWS
          HeavyLines,  \* lines whose rows reach OUTPUT_BUFFER_FLUSH_THRESHOLD_BYTES
          MaxPending   \* OUTPUT_BUFFER_MAX_PENDING_FLUSHES

ASSUME OutputPartsAssumption ==
  /\ PartRows \in Nat \ {0}
  /\ MaxPending \in Nat \ {0}

VARIABLES buf,      \* the instance in the registry, if live
          held,     \* OutputManager.buffers has it
          uploads,  \* every upload: its instance, its rows and how it went
          objects,  \* what the bucket holds under each part name
          backlog,  \* first rows of the uploads that addRow's caller waits for
          flusher,  \* where flushAll is
          paths     \* the part names flushAll returned
partVars == <<buf, held, uploads, objects, backlog, flusher, paths>>

\* An instance counts what it has cut off (totalFlushed) and lists its
\* pending uploads by first row.
NewBuffer(gen) ==
  [gen |-> gen, live |-> TRUE, rows |-> <<>>, flushed |-> 0, pending |-> {}]
Released(b) == [b EXCEPT !.live = FALSE, !.rows = <<>>, !.pending = {}]

PartsInit ==
  /\ buf = Released(NewBuffer(0))
  /\ held = FALSE
  /\ uploads = {}
  /\ objects = <<>>
  /\ backlog = {}
  /\ flusher = "idle"
  /\ paths = {}

PartName(u) == <<u.from, u.to>>

\* The upload of the rows the instance b holds.
UploadOf(b) ==
  [gen |-> b.gen, from |-> b.flushed, to |-> b.flushed + Len(b.rows),
   rows |-> b.rows, status |-> "running"]
\* The instance b once these rows are cut off.
CutUncounted(b) == [b EXCEPT !.rows = <<>>]
Cut(b) == [b EXCEPT !.rows = <<>>, !.flushed = b.flushed + Len(b.rows)]

\* The registry's instance, created when there is none (getInstance).
Instance == IF buf.live THEN buf ELSE NewBuffer(buf.gen + 1)

ShouldFlush(b, line) == Len(b.rows) >= PartRows \/ line \in HeavyLines

\* getBuffer and addRow.
AddRow(line) ==
  LET b == [Instance EXCEPT !.rows = Append(@, line)]
      started == b.pending \union {b.flushed}
      full == Cardinality(started) >= MaxPending
  IN /\ held' = TRUE
     /\ IF ShouldFlush(b, line)
        THEN /\ uploads' = uploads \union {UploadOf(b)}
             /\ buf' = [Cut(b) EXCEPT !.pending = IF full THEN {} ELSE started]
             /\ backlog' = IF full THEN started ELSE {}
        ELSE /\ buf' = b
             /\ backlog' = {}
             /\ UNCHANGED uploads
     /\ UNCHANGED <<objects, flusher, paths>>

\* The uploads of the registered instance whose first rows are in S.
Own(S) == {u \in uploads : u.gen = buf.gen /\ u.from \in S}
NoneFailed(S) == \A u \in Own(S) : u.status # "failed"
AllLanded(S) == \A u \in Own(S) : u.status = "landed"
Swallowed(S) == FALSE
SomeFailed(S) == \E u \in Own(S) : u.status = "failed"

\* flushPart ends: the object is there, or the upload is rejected.
UploadSettles(ok) ==
  \E u \in uploads :
     /\ u.status = "running"
     /\ uploads' = (uploads \ {u}) \union
                   {[u EXCEPT !.status = IF ok THEN "landed" ELSE "failed"]}
     /\ objects' = IF ~ok THEN objects
                   ELSE [n \in DOMAIN objects \union {PartName(u)} |->
                           IF n = PartName(u) THEN u.rows ELSE objects[n]]
     /\ UNCHANGED <<buf, held, backlog, flusher, paths>>

\* flushAll begins.  It has nothing to do for a parse that never asked for
\* the buffer.
FlushAllStart ==
  /\ flusher = "idle"
  /\ flusher' = IF held THEN "pending" ELSE "done"
  /\ UNCHANGED <<buf, held, uploads, objects, backlog, paths>>

\* waitForPendingFlush and the first half of flush.
PendingLanded ==
  /\ flusher = "pending"
  /\ AllLanded(buf.pending)
  /\ IF buf.rows = <<>>
     THEN /\ buf' = [buf EXCEPT !.pending = {}]
          /\ flusher' = "manifest"
          /\ UNCHANGED uploads
     ELSE /\ uploads' = uploads \union {UploadOf(buf)}
          /\ buf' = [Cut(buf) EXCEPT !.pending = {}]
          /\ flusher' = "last"
  /\ UNCHANGED <<held, objects, backlog, paths>>

PendingRejected ==
  /\ flusher = "pending"
  /\ SomeFailed(buf.pending)
  /\ flusher' = "rejected"
  /\ UNCHANGED <<buf, held, uploads, objects, backlog, paths>>

\* The upload flush itself waits for.
LastUpload == {u \in uploads : u.gen = buf.gen /\ u.to = buf.flushed}

LastSettled ==
  /\ flusher = "last"
  /\ \/ /\ \A u \in LastUpload : u.status = "landed"
        /\ flusher' = "manifest"
     \/ /\ \E u \in LastUpload : u.status = "failed"
        /\ flusher' = "rejected"
  /\ UNCHANGED <<buf, held, uploads, objects, backlog, paths>>

Landed == {u \in uploads : u.gen = buf.gen /\ u.status = "landed"}

\* The manifest, the output_parts rows and releaseInstance.
Release ==
  /\ flusher = "manifest"
  /\ flusher' = "done"
  /\ paths' = {PartName(u) : u \in Landed}
  /\ buf' = Released(buf)
  /\ held' = FALSE
  /\ UNCHANGED <<uploads, objects, backlog>>

\* putJson throws before anything is released.
ManifestFails ==
  /\ flusher = "manifest"
  /\ Landed # {}
  /\ flusher' = "rejected"
  /\ UNCHANGED <<buf, held, uploads, objects, backlog, paths>>

FlushAllStep == PendingLanded \/ PendingRejected \/ LastSettled \/ Release

\* flushAll is called again, in parseJob's finally.
FlushAllAgain ==
  /\ flusher' = "idle"
  /\ backlog' = {}
  /\ UNCHANGED <<buf, held, uploads, objects, paths>>

\* A new attempt has a manager of its own, but the registry's instance.  What
\* a released instance has uploaded is of no further use to the process.
NewManager ==
  /\ uploads' = {u \in uploads : u.status = "running" \/ (buf.live /\ u.gen = buf.gen)}
  /\ held' = FALSE
  /\ backlog' = {}
  /\ flusher' = "idle"
  /\ paths' = {}
  /\ UNCHANGED <<buf, objects>>

\* The process is gone: the registry is empty, running uploads are lost.
LoseBuffer ==
  /\ buf' = Released(buf)
  /\ held' = FALSE
  /\ uploads' = {u \in uploads : u.status # "running"}
  /\ backlog' = {}
  /\ flusher' = "idle"
  /\ UNCHANGED <<objects, paths>>

Quiet == ~buf.live /\ \A u \in uploads : u.status # "running"

-----------------------------------------------------------------------------
(* Two parts of one instance never share a row number, so no upload of an   *)
(* instance replaces an object of another one of it: addRow and flush count *)
(* the rows they cut off before their first await.                          *)
PartsDisjoint ==
  \A u, v \in uploads :
     u.gen = v.gen /\ u # v => u.to <= v.from \/ v.to <= u.from
=============================================================================
