--------------------------- MODULE LineClassifier ---------------------------
(***************************************************************************)
(* LineClassifierServiceImpl.classify with what the stream parser does     *)
(* around it: the first line of a file is tried as a header, a parsed row  *)
(* is completed from its meta and cleaned, an uncertain JSON line is kept  *)
(* as a row of its own.  The lines of one file are read in order, once per *)
(* attempt; a later attempt in the same process finds the classifier the   *)
(* way the earlier one left it (getInstance compares the job's id only).   *)
(*                                                                         *)
(* A job is [spec, names, map, inferred, guesses, ai, json, mysql,         *)
(* templates, rubbish, start, lines]: its fields, the header and the       *)
(* column map it came with (<<>> when none), what the model may answer    *)
(* about its header or its first lines, the kind of its file, the learned  *)
(* templates, how the file starts and the lines it may go on with.         *)
(***************************************************************************)
EXTENDS TemplateRows, AiAnswers

CONSTANTS
  Jobs,          \* profiles of jobs and files
  DumpStarts,    \* atoms that are the first line of a PostgreSQL dump
  Comments,      \* atoms that are SQL comments
  CopyOf,        \* CopyOf[a]: the columns of the COPY statement that atom a is
  CopyEnd,       \* the line that ends a COPY block
  LongLines,     \* lines longer than MAX_LINE_LENGTH
  MaxLines,      \* bound: lines of a file after its start
  MaxAttempts    \* bound: attempts at the job

ASSUME ClassifierAssumption == MaxLines \in Nat /\ MaxAttempts \in Nat \ {0}

VARIABLES
  job,       \* the job
  file,      \* the lines of its file known so far
  pos,       \* lines read by this attempt
  attempt,   \* number of this attempt
  stale,     \* the classifier served an earlier attempt
  cls,       \* the state of the classifier
  sniffed,   \* the first line was tried as a header (aiHeaderMapped)
  last       \* <<>>, or the line read last and what became of it

vars == <<job, file, pos, attempt, stale, cls, sniffed, last>>

spec == job.spec
Fields == ToSet(spec)
-----------------------------------------------------------------------------
(***************************************************************************)
(* The classifier's own state.                                             *)
(***************************************************************************)
New == [ firstLine |-> TRUE, header |-> NoHeader, fromFile |-> FALSE,
         dump |-> FALSE, columns |-> <<>>, mapping |-> <<>> ]

SetHeader(c, header, fromFile) == [c EXCEPT !.header = header, !.fromFile = fromFile]

\* The header the job came with, set when the attempt starts, or the one the AI
\* service may infer from the head of the file.
WithMeta(map) == [f \in DOMAIN map \cup {Meta} |-> IF f \in DOMAIN map THEN map[f] ELSE <<>>]

Prepared(j, c) ==
  LET map == IF j.map = <<>> THEN [f \in ToSet(j.spec) \cup {Meta} |-> <<>>] ELSE j.map
      with(m, names) == SetHeader(c, HeaderFromNames(j.spec, m, names), FALSE)
      guesses == {InferHeaders(j.spec, answers) : answers \in j.guesses} \ {<<>>}
  IN  IF j.names # <<>> THEN {with(map, j.names)}
      ELSE {c} \cup {with(WithMeta(g[1].map), g[1].names) :
                       g \in IF j.ai /\ j.map = <<>> THEN guesses ELSE {}}
-----------------------------------------------------------------------------
(***************************************************************************)
(* The first line as a header, before the line itself is classified.       *)
(***************************************************************************)
IsOne(line, atoms) == Len(line) = 1 /\ line[1] \in atoms

LabelledValue(line) == Len(line) >= 3 /\ line[1] \in Labels /\ line[2] = ":"

LooksStructured(line) ==
  \/ IsBlob(line) \/ IsList(line) \/ LabelledValue(line)
  \/ job.json \/ job.mysql
  \/ IsOne(line, DumpStarts \cup Comments \cup DOMAIN CopyOf)

\* What the AI service may return for a header line: a map of the columns, or
\* nothing.
HeaderAnswers(line) ==
  IF job.ai THEN {<<>>} \cup {MapHeaderColumns(spec, line, <<a>>) : a \in job.inferred} ELSE {<<>>}

SniffFound(line, c, answer, found) ==
  LET all == found # <<>> /\ \A f \in Fields : found[1].map[f] # <<>>
      map == IF answer # <<>> /\ ~all THEN <<WithMeta(answer[1])>>
             ELSE [k \in DOMAIN found |-> found[k].map]
  IN  IF map = <<>> THEN c ELSE SetHeader(c, HeaderFromLine(spec, map[1], line), TRUE)

Sniff(line, c, answer) ==
  IF sniffed \/ job.map # <<>> \/ job.names # <<>> \/ LooksStructured(line) THEN c
  ELSE SniffFound(line, c, answer, DetectHeader(spec, line))
-----------------------------------------------------------------------------
(***************************************************************************)
(* The outcomes, and the last check of a row's values.                     *)
(***************************************************************************)
Outcome(verdict, via, row, meta, c) ==
  [verdict |-> verdict, via |-> via, row |-> row, meta |-> meta, cls |-> c]

NoRow == [f \in {} |-> <<>>]

Rubbish(via, c) == Outcome("rubbish", via, NoRow, <<>>, c)
Uncertain(c) == Outcome("uncertain", "", NoRow, <<>>, c)

IsBinary(text) == ~Blank(text) /\ ToSet(text) \subseteq Binary

\* Of a list of addresses the first valid one is taken.
Coerced(f, value) ==
  IF IsList(value) /\ (IsStrong(f) \/ Word[f] = <<"url">>)
  THEN FirstWhere(Elements(value) \o <<value>>, LAMBDA v : Validates(f, v) \/ v = value)[1]
  ELSE value

Rejects(record) ==
  \/ \E f \in DOMAIN record.row : IsBinary(record.row[f])
  \/ \E e \in ToSet(record.meta) : e.path = <<>> /\ IsBinary(e.value)

Parsed(via, record, c) ==
  IF Rejects(record) THEN Rubbish("binary-field", c)
  ELSE Outcome("parsed", via, [f \in DOMAIN record.row |-> Coerced(f, record.row[f])], record.meta, c)
-----------------------------------------------------------------------------
(***************************************************************************)
(* The stages, in their order.                                             *)
(***************************************************************************)
\* classifySqlDump.
Left(c) == [c EXCEPT !.columns = <<>>, !.mapping = <<>>]

Entered(c, columns) ==
  [c EXCEPT !.columns = columns, !.mapping = CopyMapping(spec, columns), !.firstLine = FALSE]

InDump(line, c) ==
  IF c.columns # <<>>
  THEN IF line = CopyEnd THEN Rubbish("pg-copy-end", Left(c))
       ELSE Parsed("pg-copy", CopyRecord(spec, c.columns, c.mapping, line), c)
  ELSE IF IsOne(line, DOMAIN CopyOf)
       THEN Rubbish("pg-copy-start", Entered(c, CopyOf[line[1]]))
       ELSE Rubbish("pg-sql-junk", c)

\* The first line may be a header; kv text and JSON never are.
HeaderSeen(line, c, found) ==
  IF found = <<>> THEN c ELSE SetHeader(c, HeaderFromLine(spec, found[1].map, line), TRUE)

AtFirstLine(line, c, structured) ==
  LET seen == [c EXCEPT !.firstLine = FALSE]
  IN  IF ~c.firstLine \/ structured \/ HasMap(c.header) THEN seen
      ELSE HeaderSeen(line, seen, DetectHeader(spec, line))

\* The header row, or a row that repeats the labels: the classifier afterwards,
\* in a sequence that is empty when the line is a row like others.
FirstAsHeader(c, split) ==
  IF c.fromFile
  THEN IF split = <<>> THEN <<c>> ELSE <<[c EXCEPT !.header.parts = split[1].parts]>>
  ELSE IF split # <<>> /\ RepeatsHeader(c.header, split[1].parts)
  THEN <<[c EXCEPT !.header.delim = split[1].delim]>> ELSE <<>>

AsHeader(line, c, first, structured) ==
  IF ~first
  THEN IF c.header.delim # "" /\ RepeatsHeader(c.header, Cells(line, c.header.delim)) THEN <<c>> ELSE <<>>
  ELSE IF ~HasMap(c.header) \/ structured THEN <<>> ELSE FirstAsHeader(c, BestSplit(line))

ByColumnMap(line, c) ==
  IF job.map = <<>> \/ HasMap(c.header) THEN <<>> ELSE ColumnMapRecord(spec, job.map, line)

LearnedAs(line, c, best) ==
  IF best # <<>> THEN Parsed(best[1].id, best[1].record[1], c)
  ELSE IF \E sig \in job.rubbish : ToSet(line) \cap sig # {} THEN Rubbish("rubbish-template", c)
  ELSE Uncertain(c)

Learned(line, c) == LearnedAs(line, c, BestTemplate(spec, line, job.templates))

\* The readers in their order, each an outcome in a sequence that is empty when the
\* line is not for it.
Read(via, record, c) == [k \in DOMAIN record |-> Parsed(via, record[k], c)]

LooseJson(loose, c) ==
  IF loose = <<>> \/ Rejects(loose[1]) THEN Uncertain(c) ELSE Parsed("json", loose[1], c)

ByRow(line, c, cells) ==
  LET after == [c EXCEPT !.header = cells.header]
  IN  IF cells.record # <<>>
      THEN Parsed(IF HasMap(c.header) THEN "csv-mapped" ELSE "csv-auto", cells.record[1], after)
      ELSE IF IsBlob(line) \/ IsList(line) THEN LooseJson(LooseJsonRecord(spec, line), after)
      ELSE Learned(line, after)

AsRow(line, c, kv) ==
  Else(Read("csv-column-map", ByColumnMap(line, c), c),
       Else(Read("json", JsonRecord(spec, line), c),
            Else(Read("kv", kv, c),
                 <<ByRow(line, c, DelimitedRecord(spec, c.header, line))>>)))[1]

RowOrHeader(line, c, kv, header) ==
  IF header # <<>> THEN Rubbish("header", header[1]) ELSE AsRow(line, c, kv)

ByStages(line, c, first, structured, kv) ==
  RowOrHeader(line, c, kv, AsHeader(line, c, first, structured))

FromFirst(line, c, kv) ==
  LET structured == IsBlob(line) \/ IsList(line) \/ kv # <<>>
  IN  ByStages(line, AtFirstLine(line, c, structured), c.firstLine, structured, kv)

Classify(line, c) ==
  IF ~c.dump /\ IsOne(line, DumpStarts) THEN Rubbish("pg-dump-start", [c EXCEPT !.dump = TRUE])
  ELSE IF c.dump THEN InDump(line, c)
  ELSE IF Blank(line) \/ IsBinary(line) THEN Rubbish("gate", c)
  ELSE IF line \in LongLines THEN Uncertain(c)
  ELSE FromFirst(line, c, IF IsBlob(line) \/ IsList(line) THEN <<>> ELSE KvRecord(spec, line))

\* The rows of a MySQL dump, JSON already, skip the classifier.
MySqlRow(line, c) ==
  LET key(f) == IF job.map # <<>> /\ job.map[f] # <<>> THEN Cell(job.names, job.map[f][1]) ELSE <<f>>
      hit(f) == SelectSeq(Blobs[line[1]], LAMBDA p : <<p.key>> = key(f))
  IN  Outcome("parsed", "mysql", [f \in Fields |-> IF hit(f) = <<>> THEN <<>> ELSE Last(hit(f)).value],
              <<Entry(<<>>, line)>>, c)
-----------------------------------------------------------------------------
(***************************************************************************)
(* enrichFromMeta: fields still without a value, or with one, get what     *)
(* meta holds under their name; a first and a last name make the name.     *)
(***************************************************************************)
\* The entries of meta, those of the JSON text under "meta" in it last, and those
\* that stay in meta: all of them, or only the nested ones.
MetaEntries(meta) ==
  IF Len(meta) = 1 /\ meta[1].path = <<>>
  THEN IF IsBlob(meta[1].value) THEN Children(<<>>, meta[1].value) ELSE <<>>
  ELSE meta

Nested(entries) ==
  LET e == FirstWhere(entries, LAMBDA o : o.path = <<Meta>> /\ IsBlob(o.value))
  IN  IF e = <<>> THEN <<>> ELSE Children(<<>>, e[1].value)

NameOf(entries, words) ==
  FirstWhere(entries, LAMBDA e : Includes(Norm(e.path), words))

HasText(found) == found # <<>> /\ IsText(found[1].value) /\ ~Blank(found[1].value)

Exact(all, f) == FirstWhere(all, LAMBDA e : Norm(e.path) = Word[f] /\ ~Blank(e.value))

\* The entry of every field, and the first and the last name where the name has none.
Exacts(all) == [f \in Fields |-> Exact(all, f)]

NamePair(first, lastn) == IF HasText(first) /\ HasText(lastn) THEN first \o lastn ELSE <<>>

FullName(all) ==
  FirstWhere(NameOf(all, <<"full", "name">>), LAMBDA e : HasText(<<e>>))

\* Where each field takes from meta.
Sources(exact, pair, full) ==
  [f \in Fields \cup {"name"} |->
     IF f \in Fields /\ exact[f] # <<>> THEN exact[f]
     ELSE IF f = "name" /\ pair # <<>> THEN pair
     ELSE IF f \in Fields \cap {"name", "user_name"} THEN full ELSE <<>>]

Enriched(old, source, value) ==
  IF source = <<>> THEN old
  ELSE IF Blank(old) THEN value
  ELSE IF IsText(value) THEN old \o <<",">> \o value ELSE old

EnrichedBy(row, kept, sources) ==
  [ row  |-> [f \in DOMAIN row \cup {"name"} |->
                IF f \notin DOMAIN sources THEN row[f]
                ELSE Enriched(IF f \in DOMAIN row THEN row[f] ELSE <<>>, sources[f],
                            FlattenSeq([k \in DOMAIN sources[f] |-> sources[f][k].value]))],
    meta |-> SelectSeq(kept, LAMBDA e : \A f \in DOMAIN sources : e \notin ToSet(sources[f])) ]

EnrichFrom(row, top, nested) ==
  EnrichedBy(row, IF nested # <<>> THEN nested ELSE top,
    Sources(Exacts(top \o nested),
            NamePair(NameOf(top \o nested, <<"first">>), NameOf(top \o nested, <<"last">>)),
            FullName(top \o nested)))

EnrichOf(row, meta, entries) ==
  IF entries = <<>> THEN [row |-> row, meta |-> meta]
  ELSE EnrichFrom(row, entries, Nested(entries))

Enrich(row, meta) == EnrichOf(row, meta, MetaEntries(meta))

\* What is stored of a line: the row, the rubbish line or the dead letter.
StoredAs(line, verdict, via, row, meta) ==
  [line |-> line, verdict |-> verdict, via |-> via, row |-> row, meta |-> meta]

StoredRow(line, via, full) ==
  StoredAs(line, "parsed", via,
           Cleaned(full.row, InvalidStrong(SelectSeq(spec, LAMBDA f : f \in DOMAIN full.row), full.row)),
           full.meta)

Stored(line, o) ==
  IF o.verdict = "parsed"
  THEN StoredRow(line, o.via, IF job.mysql THEN [row |-> o.row, meta |-> o.meta] ELSE Enrich(o.row, o.meta))
  ELSE IF o.verdict = "uncertain" /\ (job.json \/ IsBlob(line) \/ IsList(line))
  THEN StoredAs(line, "parsed", "json-raw-meta", [f \in Fields |-> <<>>], <<Entry(<<>>, line)>>)
  ELSE StoredAs(line, o.verdict, o.via, NoRow, <<>>)
-----------------------------------------------------------------------------
TypeOK ==
  /\ job \in Jobs /\ pos \in 0..Len(file) /\ Len(file) <= Len(job.start) + MaxLines
  /\ attempt \in 1..MaxAttempts /\ stale \in BOOLEAN /\ sniffed \in BOOLEAN
  /\ DOMAIN cls = DOMAIN New /\ Len(cls.columns) = Len(cls.mapping)
  /\ HasMap(cls.header) => DOMAIN cls.header.map = Fields \cup {Meta}

Init ==
  /\ job \in Jobs /\ file = job.start /\ pos = 0 /\ attempt = 1
  /\ stale = FALSE /\ sniffed = FALSE /\ last = <<>>
  /\ cls \in Prepared(job, New)

StoreLine(line, o) ==
  /\ cls' = o.cls
  /\ last' = <<Stored(line, o)>>
  /\ sniffed' = TRUE /\ pos' = pos + 1
  /\ UNCHANGED <<job, attempt, stale>>

Classified(line, c) ==
  IF job.mysql /\ job.names # <<>> THEN MySqlRow(line, c) ELSE Classify(line, c)

Take(line) ==
  \E answer \in HeaderAnswers(line) : StoreLine(line, Classified(line, Sniff(line, cls, answer)))

\* The next line: one known before (of the start, or read by an earlier attempt), or
\* one that nobody has read.
NextLines ==
  IF pos < Len(file) THEN {file[pos + 1]}
  ELSE IF pos < Len(job.start) + MaxLines THEN job.lines ELSE {}

ReadLine ==
  \E line \in NextLines :
    Take(line) /\ file' = IF pos < Len(file) THEN file ELSE Append(file, line)

\* The attempt failed; another one starts, in this process or in a new one.
Retry(same) ==
  /\ attempt < MaxAttempts /\ file # <<>>
  /\ attempt' = attempt + 1 /\ pos' = 0 /\ sniffed' = FALSE /\ last' = <<>>
  /\ stale' = same
  /\ cls' \in Prepared(job, IF same THEN cls ELSE New)
  /\ UNCHANGED <<job, file>>

Next == ReadLine \/ Retry(TRUE) \/ Retry(FALSE)

Spec == Init /\ [][Next]_vars
-----------------------------------------------------------------------------
(***************************************************************************)
(* What a row keeps of its line.  Values are told apart by their atoms.    *)
(***************************************************************************)
Record1 == last[1]

Is(verdict, via) == last # <<>> /\ Record1.verdict = verdict /\ Record1.via \in via

HeldBy(cell) ==
  {f \in DOMAIN Record1.row : ToSet(cell) \subseteq ToSet(Record1.row[f])}

InMeta(cell) == \E e \in ToSet(Record1.meta) : ToSet(cell) \subseteq ToSet(e.value)

Once(cell) == Cardinality(HeldBy(cell)) + CountIf(InMeta(cell)) = 1

Kept(cell) == HeldBy(cell) # {} \/ InMeta(cell)

\* groupWeakFieldsByContent promises that every cell which is claimed by no field
\* ends in meta: without a header each cell of a row that is read by its content
\* alone ends in one field or in meta, never in two places and never nowhere,
\* whatever strong and weak fields compete for it.
CellsEndOnce ==
  Is("parsed", {"csv-auto"}) =>
    \A cell \in ToSet(RowCells(cls.header, Record1.line)) :
      (~Blank(cell) /\ ~IsBlob(cell)) => Once(cell)

\* What applyHeaderMap and enrichFromMeta take from a row read by a header: a value
\* that is not valid for the email or phone field it was read into; the columns that
\* no field takes, when the header maps a column to "meta" or the row has JSON text
\* under that label; that JSON text itself, which is opened; and an email or phone
\* of the row that the JSON text has as well, which the two together make invalid.
HasField(i, f) == i \in ToSet(cls.header.map[f])

Packed(parts) ==
  {j \in DOMAIN parts : /\ IsBlob(parts[j])
                        /\ HasField(j, Meta) \/ Cell(cls.header.parts, j) = <<Meta>>}

NotValid(parts, i) ==
  \E f \in Fields : /\ IsStrong(f) /\ HasField(i, f)
                   /\ ~Validates(f, Joint(parts, cls.header.map[f]))

DisplacedByMeta(parts, i) ==
  /\ \A f \in Fields \cup {Meta} : ~HasField(i, f)
  /\ cls.header.map[Meta] # <<>> \/ Packed(parts) # {}

DoubledByMeta(parts, i) ==
  \E f \in Fields : /\ IsStrong(f) /\ HasField(i, f)
                   /\ \E j \in Packed(parts) : Exact(Children(<<>>, parts[j]), f) # <<>>


\* Of a JSON object without JSON text under "meta" every value under a key of its
\* own ends in one field or in meta: no field takes the key another one has used,
\* none falls between them.
KeysEndOnce ==
  Is("parsed", {"json"}) =>
    LET obj == Flattened(spec, JsonObject(Record1.line)[1])
        single(e) == \A o \in ToSet(obj) \ {e} : Norm(o.path) # Norm(e.path)
    IN  \A e \in ToSet(obj) :
          (Present(e.value) /\ ~IsList(e.value) /\ single(e) /\ MetaPairs(obj) = <<>>) =>
            Once(e.value)

\* The columns of the COPY block that line n of the file is in.
BlockOf(n) ==
  LET in(i) == /\ IsOne(file[i], DOMAIN CopyOf)
               /\ \E k \in 1..(i - 1) : IsOne(file[k], DumpStarts)
               /\ \A k \in (i + 1)..n : file[k] # CopyEnd
      starts == {i \in 1..(n - 1) : in(i)}
  IN  IF starts = {} THEN <<>> ELSE CopyOf[file[Min(starts)][1]]

\* resolvePgCopyMapping is made once per block: a classifier that served no
\* earlier attempt reads the rows of a COPY block, and no others, by the columns of
\* that block, and gives a column named like a field to that field whatever
\* aliases the other columns match.
CopyFollowsItsBlock ==
  (last # <<>> /\ ~stale) =>
    LET columns == BlockOf(pos)
        values  == CopyValues(columns, Record1.line)
    IN  /\ Record1.via = "pg-copy" => columns # <<>>
        /\ Is("parsed", {"pg-copy"}) =>
             \A i \in DOMAIN columns : \A f \in Fields \ CopyFields :
               SameName(columns[i], f) => Record1.row[f] = values[i]
=============================================================================
