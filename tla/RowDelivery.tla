---------------------------- MODULE RowDelivery ----------------------------
(***************************************************************************)
(* How the rows of a parsed job get into parsed_records.                   *)
(* FinalizationService merges the parts into one object when they are      *)
(* small and puts line numbers right, StateMachineImpl sends the paths to  *)
(* the load queue, and each delivery of that message loads them through a  *)
(* staging table.                                                          *)
(* Pipeline has the same steps as Finalize, SavePaths and LoadRows.        *)
(***************************************************************************)
EXTENDS Naturals, SequencesExt

CONSTANTS
  Jobs,            \* what a job may have: [parts, deadLetters, isJson]
  Loaders,
  MaxMergedRows,   \* MAX_MERGED_PART_BYTES, in rows
  Copies,          \* of the load message: a send that is late is repeated
  MaxLoads         \* bound: a row is loaded so often, and then once by each handler

Merged == "merged"
Rows == [offset : Nat, index : Nat, line : Nat]
DeadLetters == [offset : Nat, line : Nat]

\* A row is one of the records made of the line at an offset.
SameRow(r, s) == r.offset = s.offset /\ r.index = s.index

RowsOfJob(j) == UNION {ToSet(j.parts[path]) : path \in DOMAIN j.parts}

\* The parser writes a row once, and counts the lines as it reads them: all that it made of
\* the line at an offset has one line number, or none.
JobOk(j) ==
  /\ IsFiniteSet(DOMAIN j.parts) /\ j.parts \in [DOMAIN j.parts -> Seq(Rows)]
  /\ \A p, q \in DOMAIN j.parts : \A i \in DOMAIN j.parts[p] : \A k \in DOMAIN j.parts[q] :
       SameRow(j.parts[p][i], j.parts[q][k]) => (p = q /\ i = k)
  /\ IsFiniteSet(j.deadLetters) /\ j.deadLetters \subseteq DeadLetters
  /\ \A row \in RowsOfJob(j) : \A other \in RowsOfJob(j) \cup j.deadLetters :
       (row.offset = other.offset /\ row.line # 0) => other.line = row.line

ASSUME JobsAssumption == \A j \in Jobs : JobOk(j)

VARIABLES
  job,         \* the job: the paths of its parts, its dead letters and rubbish
  objects,     \* the rows of each object: [offset, index, line], line 0 for none
  final,       \* where finalizeAndAdvance is
  paths,       \* the paths it returns
  copies,      \* copies of the load message in the queue
  loading,     \* each handler of a copy: where it is, what it has to insert
  table,       \* parsed_records, a bag of rows
  announced    \* LOADING_COMPLETED was sent

vars == <<job, objects, final, paths, copies, loading, table, announced>>
finalVars == <<final, paths, copies>>
loadVars == <<loading, table, announced>>

NoCopy == "none"
ParsedRows == RowsOfJob(job)
-----------------------------------------------------------------------------
Idle == [at |-> "idle", copy |-> NoCopy, left |-> <<>>]

Init ==
  /\ job \in Jobs
  /\ objects = job.parts /\ final = "parsed" /\ paths = <<>> /\ copies = {}
  /\ loading = [l \in Loaders |-> Idle]
  /\ table = EmptyBag /\ announced = FALSE

RowsOf(list) == FlattenSeq([k \in 1 .. Len(list) |-> objects[list[k]]])
RowsRead(list, read) == FlattenSeq([k \in 1 .. Len(list) |-> IF list[k] \in read THEN objects[list[k]] ELSE <<>>])

\* normalizeLineNumbers: in the order of their lines, those of one line as they were; a row
\* without a line is given its place.
IsBefore(rows, i, k) == rows[i].line < rows[k].line \/ (rows[i].line = rows[k].line /\ i < k)

Before(rows, k) == Cardinality({i \in DOMAIN rows : IsBefore(rows, i, k)})

ByLine(rows) == [n \in DOMAIN rows |-> rows[CHOOSE k \in DOMAIN rows : Before(rows, k) = n - 1]]

PlaceForEach(rows) == [k \in DOMAIN rows |-> [rows[k] EXCEPT !.line = k]]
PlaceForNone(rows) == [k \in DOMAIN rows |-> IF rows[k].line = 0 THEN [rows[k] EXCEPT !.line = k] ELSE rows[k]]

\* The paths of the parts all end in output/<job>-..., so they are one group.
PartPaths == SetToSeq(DOMAIN job.parts)

MergeGroup ==
  LET rows == RowsOf(PartPaths)
  IN  IF rows = <<>> \/ Len(rows) > MaxMergedRows
      THEN paths' = PartPaths /\ UNCHANGED objects
      ELSE /\ paths' = <<Merged>>
           /\ objects' = [path \in DOMAIN objects \cup {Merged} |->
                            IF path = Merged THEN PlaceForNone(ByLine(rows)) ELSE objects[path]]

\* finalizeOutput.  What throws fails the job; the merged object may have been
\* written by then.
Finalizes ==
  /\ final = "parsed"
  /\ IF PartPaths = <<>> THEN final' = "advance" /\ UNCHANGED <<objects, paths>>
     ELSE MergeGroup /\ final' \in {"backfill", "failed"}
  /\ UNCHANGED <<job, copies, loadVars>>

\* The line of each offset: of the last row, or of a dead letter or a rubbish line, which
\* come after the rows.
LineOf(known, offset) == known[Max({k \in DOMAIN known : known[k].offset = offset})].line

Backfilled(row, known) ==
  IF \E k \in DOMAIN known : known[k].offset = row.offset
  THEN [row EXCEPT !.line = LineOf(known, row.offset)] ELSE row

NothingToBackfill == job.isJson \/ job.deadLetters = {}

\* An object is read for the map, or left out of it when that fails; then each is read and
\* written again, and left alone when that fails.
BackfillLineNumbers ==
  /\ final = "backfill"
  /\ \E listed, rewritten \in SUBSET ToSet(paths) :
       LET known == RowsRead(paths, listed) \o SetToSeq(job.deadLetters)
       IN  objects' =
             [path \in DOMAIN objects |->
                IF NothingToBackfill \/ path \notin rewritten THEN objects[path]
                ELSE [k \in DOMAIN objects[path] |-> Backfilled(objects[path][k], known)]]
  /\ final' \in {"advance", "failed"}
  /\ UNCHANGED <<job, paths, copies, loadVars>>

\* The paths are saved, the job is SAVING_TO_DATABASE, the load message is sent.
Advances ==
  /\ final = "advance" /\ final' = "sent"
  /\ copies' \in SUBSET Copies \ {{}}
  /\ UNCHANGED <<job, objects, paths, loadVars>>

FinalizerDies ==
  /\ final = "advance"
  /\ final' = "dead"
  /\ UNCHANGED <<job, objects, paths, copies, loadVars>>
-----------------------------------------------------------------------------
\* bulkLoadFromGcs has one INSERT for all the staged rows, where UPSERT_BATCH would
\* have one for each batch.
Upserts(rows) == [k \in 1 .. Len(rows) |-> <<rows[k]>>]
Inserts(rows) == <<rows>>

At(l, place) == loading[l].at = place
Goes(l, place, left) == loading' = [loading EXCEPT ![l].at = place, ![l].left = left]
Forgets(l) == loading' = [loading EXCEPT ![l] = Idle]

\* Any copy may be delivered again while it is not deleted.
Receives(l) ==
  /\ At(l, "idle") /\ \A row \in BagToSet(table) : table[row] <= MaxLoads
  /\ \E copy \in copies :
       loading' = [loading EXCEPT ![l].at = IF paths = <<>> THEN "announce" ELSE "stage", ![l].copy = copy]
  /\ UNCHANGED <<job, objects, finalVars, table, announced>>

\* waitForJob: a load job that ends with an error has staged nothing, and throws.
AfterJob(error) == IF error THEN "fails" ELSE "insert"

Stages(l) ==
  /\ At(l, "stage")
  /\ \E error \in BOOLEAN : Goes(l, AfterJob(error), Inserts(IF error THEN <<>> ELSE RowsOf(paths)))
  /\ UNCHANGED <<job, objects, finalVars, table, announced>>

\* An INSERT that throws has inserted its rows or none of them.
InsertsRows(l) ==
  /\ At(l, "insert") /\ loading[l].left # <<>>
  /\ \/ Goes(l, "insert", Tail(loading[l].left)) /\ table' = table (+) ToBag(Head(loading[l].left))
     \/ Goes(l, "fails", <<>>) /\ table' \in {table, table (+) ToBag(Head(loading[l].left))}
  /\ UNCHANGED <<job, objects, finalVars, announced>>

DropsStaging(l) ==
  /\ At(l, "insert") /\ loading[l].left = <<>>
  /\ \E place \in {"announce", "fails"} : Goes(l, place, <<>>)
  /\ UNCHANGED <<job, objects, finalVars, table, announced>>

\* LOADING_COMPLETED; when its send throws, the load fails.
Announces(l) ==
  /\ At(l, "announce")
  /\ announced' = TRUE
  /\ \E place \in {"ack", "fails"} : Goes(l, place, <<>>)
  /\ UNCHANGED <<job, objects, finalVars, table>>

\* ERROR_OCCURRED; when its send throws, the message stays.
Fails(l) ==
  /\ At(l, "fails")
  /\ Goes(l, "ack", <<>>) \/ Forgets(l)
  /\ UNCHANGED <<job, objects, finalVars, table, announced>>

Deletes(l) ==
  /\ At(l, "ack")
  /\ copies' = copies \ {loading[l].copy}
  /\ Forgets(l)
  /\ UNCHANGED <<job, objects, final, paths, table, announced>>

LoaderDies(l) ==
  /\ ~At(l, "idle")
  /\ Forgets(l)
  /\ UNCHANGED <<job, objects, finalVars, table, announced>>

Next ==
  \/ Finalizes \/ BackfillLineNumbers \/ Advances \/ FinalizerDies
  \/ \E l \in Loaders :
       \/ Receives(l) \/ Stages(l) \/ InsertsRows(l) \/ DropsStaging(l)
       \/ Announces(l) \/ Fails(l) \/ Deletes(l) \/ LoaderDies(l)

Spec == Init /\ [][Next]_vars
-----------------------------------------------------------------------------
LoadsOf(row) == {r \in BagToSet(table) : SameRow(r, row)}
TimesLoaded(row) == MapThenSumSet(LAMBDA r : table[r], LoadsOf(row))

\* LOADING_COMPLETED is the truth: once a job's load was announced, every row that was
\* parsed is in parsed_records with the line number the parser gave it, whatever was
\* merged, renumbered and written again on its way, and whichever of the handlers of
\* the load failed.
AnnouncedRowsAreThere ==
  announced => \A row \in ParsedRows :
    /\ LoadsOf(row) # {}
    /\ row.line # 0 => LoadsOf(row) = {row}

\* A job is loaded as a whole: deliveries of its message that come twice, at once, or
\* after a load that died may load it again, but never a part of it, so that every row
\* is there as often as every other.
WholeLoads ==
  \A row, other \in ParsedRows : TimesLoaded(row) = TimesLoaded(other)
=============================================================================
