--------------------------- MODULE DelimitedRows ---------------------------
(***************************************************************************)
(* Records from delimited lines: the choice of the delimiter, the header   *)
(* row, rows read by a header, by a column map the client gave, by their   *)
(* content alone, and the JSON cells of a row.                             *)
(*                                                                         *)
(* A quoted cell is one atom, so that quotes never appear.  A column map   *)
(* gives every field (and "meta") the columns it is made of, <<>> when it  *)
(* has none.                                                               *)
(***************************************************************************)
EXTENDS ObjectRecords, Integers

CONSTANTS
  Schemes,       \* atoms that may be the scheme of a URI
  Slashed,       \* atoms that start with //
  IdLike,        \* atoms ID_LIKE_RE accepts: seven digits and more, order numbers
  Salutations,   \* Mr, Mrs ...
  ZipLike,       \* atoms of four to six digits
  Binary,        \* atoms full of unprintable characters
  Dotted         \* Dotted[f]: <<column, key>> of a field "column.key"

Meta == "meta"
-----------------------------------------------------------------------------
(***************************************************************************)
(* Splitting.  "http://x" is not split at its colon.                       *)
(***************************************************************************)
MergedScheme(parts, d) ==
  IF /\ d = ":" /\ Len(parts) >= 3
     /\ Len(parts[1]) = 1 /\ parts[1][1] \in Schemes
     /\ ~Blank(parts[2]) /\ parts[2][1] \in Slashed
  THEN <<parts[1] \o <<":">> \o parts[2]>> \o SubSeq(parts, 3, Len(parts))
  ELSE parts

Cells(line, d) == MergedScheme(Split(line, {d}), d)

\* The delimiter that makes most cells, two at least; the first one of equals.
MostCells(splits) ==
  FirstWhere(splits, LAMBDA s : \A r \in ToSet(splits) : Len(r.parts) <= Len(s.parts))

BestSplit(line) ==
  MostCells(SelectSeq([k \in DOMAIN Delimiters |->
                         [parts |-> Cells(line, Delimiters[k]), delim |-> Delimiters[k]]],
                      LAMBDA s : Len(s.parts) >= 2))

Cell(parts, i) == IF i \in DOMAIN parts THEN parts[i] ELSE <<>>

\* The cells of some columns, as one value.
Joint(parts, columns) == FlattenSeq([k \in DOMAIN columns |-> Cell(parts, columns[k])])

Indices(parts, Test(_)) ==
  SetToSortSeq({i \in DOMAIN parts : Test(parts[i])}, <)
-----------------------------------------------------------------------------
(***************************************************************************)
(* Headers: [map, parts, delim], delim = "" when no line told it.          *)
(***************************************************************************)
Header(map, parts, delim) == [map |-> map, parts |-> parts, delim |-> delim]

LabelCell(cell) ==
  Blank(cell) \/ IsBlob(cell) \/ (cell[1] \in Labels /\ ToSet(cell) \subseteq Labels \cup {","})

\* The columns of a field: those whose label is its name, an alias or numbered,
\* or, when there are fewer of them than it has components, its components'.
ColumnsOf(parts, f) ==
  LET own   == Indices(parts, LAMBDA cell : KeyMatches(cell, f))
      comps == ToSet(Components(f))
      first == { i \in DOMAIN parts :
                   /\ Norm(parts[i]) \in comps
                   /\ \A j \in 1..(i - 1) : Norm(parts[j]) # Norm(parts[i]) }
  IN  IF comps # {} /\ Len(own) < Len(Components(f)) /\ Cardinality(first) >= 2
      THEN SetToSortSeq(first, <) ELSE own

\* detectHeader: every cell may be a label and half of the fields are found.
FirstBlob(parts) == FirstWhere([i \in DOMAIN parts |-> i], LAMBDA i : IsBlob(parts[i]))

LabelledColumns(spec, parts, delim) ==
  Header([f \in ToSet(spec) \cup {Meta} |-> IF f = Meta THEN FirstBlob(parts) ELSE ColumnsOf(parts, f)],
         parts, delim)

Found(spec, splits) == [k \in DOMAIN splits |-> LabelledColumns(spec, splits[k].parts, splits[k].delim)]

DetectHeader(spec, line) ==
  SelectSeq(Found(spec, BestSplit(line)), LAMBDA header :
    /\ \A i \in DOMAIN header.parts : LabelCell(header.parts[i])
    /\ Cardinality({f \in ToSet(spec) : header.map[f] # <<>>}) >= Max({1, Len(spec) \div 2}))

\* setHeaderMap: a column the map leaves out goes to the first field without a
\* column that one of the names in its label is an alias of.
AliasColumn(spec, s, i) ==
  LET label == s.parts[i]
      taken == UNION {ToSet(s.map[f]) : f \in DOMAIN s.map}
      free  == FirstWhere(spec, LAMBDA f :
                 s.map[f] = <<>> /\ KeyTokens(label) \cap ToSet(AliasesOf(f)) # {})
  IN  IF i \in taken \/ Blank(label) \/ label = <<Meta>> \/ free = <<>> THEN s
      ELSE [s EXCEPT !.map[free[1]] = <<i>>]

WithAliases(spec, header) ==
  FoldLeft(LAMBDA s, i : AliasColumn(spec, s, i), header, [i \in DOMAIN header.parts |-> i])

HeaderFromSplit(spec, map, line, split) ==
  WithAliases(spec, IF split = <<>> THEN Header(map, <<line>>, "")
                    ELSE Header(map, split[1].parts, split[1].delim))

HeaderFromLine(spec, map, line) == HeaderFromSplit(spec, map, line, BestSplit(line))

HeaderFromNames(spec, map, names) == WithAliases(spec, Header(map, names, ""))

\* isDuplicateHeaderRow: at least half of the labels, and two, come again.
RepeatsHeader(header, parts) ==
  LET both == {i \in DOMAIN header.parts \cap DOMAIN parts : ~Blank(header.parts[i])}
      same == {i \in both : Norm(parts[i]) = Norm(header.parts[i])}
  IN  /\ Cardinality(both) >= 2
      /\ Cardinality(same) >= Max({2, (Cardinality(both) + 1) \div 2})
-----------------------------------------------------------------------------
(***************************************************************************)
(* applyHeaderMap.                                                         *)
(***************************************************************************)
\* A header that ends in "meta": the cells past it are one text.
Rejoined(header, parts) ==
  LET n == Len(header.parts)
      d == IF header.delim = "" THEN "," ELSE header.delim
      overflow == FoldLeft(LAMBDA text, i : text \o <<d>> \o parts[i], parts[n],
                           [k \in 1..(Len(parts) - n) |-> n + k])
  IN  IF n >= 2 /\ Len(parts) > n /\ header.parts[n] = <<Meta>>
      THEN Append(SubSeq(parts, 1, n - 1), overflow) ELSE parts

Difference(m, n) == IF m > n THEN m - n ELSE n - m

\* The header still fits: about as many cells, or a value valid where it should be.
Fits(spec, header, parts) ==
  \/ Difference(Len(header.parts), Len(parts)) <= 2
  \/ \E f \in ToSet(spec) :
       /\ Word[f] \in {<<"email">>, <<"phone">>, <<"zip">>, <<"date">>, <<"url">>}
       /\ header.map[f] # <<>>
       /\ Validates(f, Cell(parts, header.map[f][1]))


UnmappedColumns(spec, header) ==
  SetToSortSeq(DOMAIN header.parts \ UNION {ToSet(header.map[f]) : f \in ToSet(spec)}, <)

\* An object has one value per key: of two columns of one name the last stays.
LabelledMeta(spec, header, parts) ==
  LET cols == SelectSeq(UnmappedColumns(spec, header), LAMBDA i : ~Blank(Cell(parts, i)))
      last == SelectSeq(cols, LAMBDA i :
                \A j \in ToSet(cols) : j > i => header.parts[j] # header.parts[i])
  IN  [k \in DOMAIN last |-> Entry(header.parts[last[k]], Cell(parts, last[k]))]

\* Raw text in the meta column has no path.
HeaderMeta(spec, header, parts) ==
  LET text == Joint(parts, header.map[Meta])
  IN  IF header.map[Meta] = <<>> THEN LabelledMeta(spec, header, parts)
      ELSE IF Blank(text) THEN <<>> ELSE <<Entry(<<>>, text)>>

\* JSON text in the meta column also feeds the fields still empty, and stays there.
PayloadPairs(header, meta) ==
  LET path == IF header.map[Meta] # <<>> THEN <<>> ELSE <<Meta>>
      e == FirstWhere(meta, LAMBDA m : m.path = path)
  IN  IF e # <<>> /\ IsBlob(e[1].value) THEN Blobs[e[1].value[1]] ELSE <<>>

RowWith(spec, direct, pairs, meta) ==
  LET from(f) == FirstWhere(pairs, LAMBDA p : p.key = f)
      filled(f) == IF Blank(direct[f]) /\ from(f) # <<>> THEN from(f)[1].value ELSE direct[f]
  IN  IF meta = <<>> /\ \A f \in ToSet(spec) : Blank(direct[f]) THEN <<>>
      ELSE Record([f \in ToSet(spec) |-> filled(f)], meta)

ByHeaderWith(spec, header, parts, meta) ==
  RowWith(spec, [f \in ToSet(spec) |-> Joint(parts, header.map[f])], PayloadPairs(header, meta), meta)

ByHeader(spec, header, parts) == ByHeaderWith(spec, header, parts, HeaderMeta(spec, header, parts))
-----------------------------------------------------------------------------
(***************************************************************************)
(* parseDelimitedByContent and groupWeakFieldsByContent: no header.        *)
(***************************************************************************)
Guess(row, claimed) == [row |-> row, claimed |-> claimed]

FirstValid(parts, g, f) ==
  FirstWhere([i \in DOMAIN parts |-> i], LAMBDA i : i \notin g.claimed /\ Validates(f, parts[i]))

TakeStrongAgain(parts, g, f) ==
  LET hit == FirstValid(parts, g, f)
  IN  IF ~IsStrong(f) \/ hit = <<>> THEN g ELSE Guess([g.row EXCEPT ![f] = parts[hit[1]]], g.claimed)

TakeStrong(parts, g, f) ==
  LET hit == FirstValid(parts, g, f)
  IN  IF ~IsStrong(f) \/ hit = <<>> THEN g
      ELSE Guess([g.row EXCEPT ![f] = parts[hit[1]]], g.claimed \cup {hit[1]})

IsWeakText(cell) ==
  /\ ~Blank(cell) /\ ~(ToSet(cell) \subseteq {",", ";"})
  /\ ~(Len(cell) = 1 /\ cell[1] \in IdLike \cup Salutations)

\* Neighbouring columns make a run; one run alone is cut before a zip code.
RunsOfColumns(columns) ==
  FoldLeft(LAMBDA rs, i :
             IF rs # <<>> /\ Last(Last(rs)) = i - 1
             THEN [rs EXCEPT ![Len(rs)] = Append(@, i)] ELSE Append(rs, <<i>>),
           <<>>, columns)

ZipAt(parts, i) == Len(parts[i]) = 1 /\ parts[i][1] \in ZipLike

CutAtZip(parts, run) ==
  LET zips == {k \in DOMAIN run : ZipAt(parts, run[k])}
  IN  IF 1 \in zips \/ zips = {} THEN <<run>>
      ELSE <<SubSeq(run, 1, Min(zips) - 1), SubSeq(run, Min(zips), Len(run))>>

Runs(parts, runs, fields) ==
  IF Len(runs) # 1 \/ Len(fields) <= 1 THEN runs ELSE CutAtZip(parts, runs[1])

\* The k-th field takes the k-th run; the last field all runs that are left.
RunsOf(runs, k, last) ==
  IF k > Len(runs) THEN <<>>
  ELSE IF last THEN FlattenSeq(SubSeq(runs, k, Len(runs))) ELSE runs[k]

GroupRuns(parts, g, fields, runs) ==
  FoldLeft(LAMBDA s, k :
    LET chosen == RunsOf(runs, k, k = Len(fields))
    IN  Guess([s.row EXCEPT ![fields[k]] = Joint(parts, chosen)], s.claimed \cup ToSet(chosen)),
    g, [k \in DOMAIN fields |-> k])

GroupFields(parts, g, fields, columns) ==
  IF fields = <<>> \/ columns = <<>> THEN g
  ELSE GroupRuns(parts, g, fields, Runs(parts, RunsOfColumns(columns), fields))

GroupWeak(spec, parts, g) ==
  LET columns == SelectSeq([i \in DOMAIN parts |-> i], LAMBDA i :
                   i \notin g.claimed /\ IsWeakText(parts[i]))
      fields  == SelectSeq(spec, LAMBDA f :
                   ~IsStrong(f) /\ Word[f] \notin {<<"zip">>, <<"date">>, <<"url">>} /\ Blank(g.row[f]))
  IN  GroupFields(parts, g, fields, columns)

ColumnMeta(parts, claimed) ==
  LET rest == SelectSeq([i \in DOMAIN parts |-> i], LAMBDA i : i \notin claimed /\ ~Blank(parts[i]))
  IN  [k \in DOMAIN rest |-> Entry(<<Indexes[rest[k]]>>, parts[rest[k]])]

Grouped(spec, parts, strong, row, meta) ==
  IF \/ strong.claimed # {}
     \/ Len(parts) > 4 /\ (meta # <<>> \/ \E f \in ToSet(spec) : ~Blank(row[f]))
  THEN Record(row, meta) ELSE <<>>

WithWeak(spec, parts, strong, all) ==
  Grouped(spec, parts, strong, all.row, ColumnMeta(parts, all.claimed))

WithStrong(spec, parts, strong) == WithWeak(spec, parts, strong, GroupWeak(spec, parts, strong))

ByContent(spec, parts) ==
  WithStrong(spec, parts, FoldLeft(LAMBDA g, f : TakeStrong(parts, g, f),
                                   Guess([f \in ToSet(spec) |-> <<>>], {}), spec))
-----------------------------------------------------------------------------
(***************************************************************************)
(* liftFieldsFromEmbeddedJson: fields still empty are looked for in every  *)
(* JSON cell; "column.key" only in its column, whose cell then leaves meta.*)
(***************************************************************************)
LiftedPair(blob, label, f) ==
  LET pairs == Blobs[blob[1]]
      ofColumn == f \in DOMAIN Dotted
      exact(k)  == IF ofColumn THEN k = Dotted[f][2] ELSE k = f
      alike(k)  == IF ofColumn THEN Word[k] = Word[Dotted[f][2]] ELSE KeyMatches(<<k>>, f)
      hit == FirstWhere(pairs, LAMBDA p : exact(p.key))
  IN  IF ofColumn /\ (Blank(label) \/ Norm(label) # Word[Dotted[f][1]]) THEN <<>>
      ELSE IF hit # <<>> THEN hit ELSE FirstWhere(pairs, LAMBDA p : alike(p.key))

LiftField(parts, labels, s, i, f) ==
  LET label == Cell(labels, i)
      pair  == LiftedPair(parts[i], label, f)
  IN  IF ~Blank(s.row[f]) \/ pair = <<>> THEN s
      ELSE [ row  |-> [s.row EXCEPT ![f] = pair[1].value],
             gone |-> IF f \in DOMAIN Dotted THEN s.gone \cup {label} ELSE s.gone ]

LiftedFrom(record, s) ==
  Record(s.row, SelectSeq(record.meta, LAMBDA e : e.path \notin s.gone))

Lift(spec, record, parts, labels) ==
  LiftedFrom(record,
    FoldLeft(LAMBDA s1, i :
      FoldLeft(LAMBDA s2, f : LiftField(parts, labels, s2, i, f), s1, spec),
      [row |-> record.row, gone |-> {}], Indices(parts, IsBlob)))
-----------------------------------------------------------------------------
(***************************************************************************)
(* parseDelimitedRecord: a record or <<>>, and the header from then on.    *)
(* Rows are split like their header, and anew when they come out short.    *)
(***************************************************************************)
NoHeader == Header(<<>>, <<>>, "")

HasMap(header) == header.map # <<>>

CellsOf(header, fixed, best) ==
  IF header.delim = "" THEN IF best = <<>> THEN <<>> ELSE best[1].parts
  ELSE IF /\ Len(header.parts) >= 2 /\ Len(fixed) < Len(header.parts)
          /\ best # <<>> /\ Len(best[1].parts) > Len(fixed)
       THEN best[1].parts ELSE fixed

RowCells(header, line) == CellsOf(header, Cells(line, header.delim), BestSplit(line))

Lifted(spec, record, parts, labels) ==
  IF record = <<>> THEN <<>> ELSE Lift(spec, record[1], parts, labels)

Result(record, header) == [record |-> record, header |-> header]

\* A row that does not fit its header may be a new one.
ByParts(spec, header, parts, found) ==
  IF HasMap(header) /\ Fits(spec, header, parts)
  THEN Result(Lifted(spec, ByHeader(spec, header, parts), parts, header.parts), header)
  ELSE IF HasMap(header) /\ found # <<>>
  THEN Result(<<>>, Header(found[1].map, parts, found[1].delim))
  ELSE Result(Lifted(spec, ByContent(spec, parts), parts, header.parts), header)

ByCells(spec, header, line, cells) ==
  IF IsBlob(line) \/ IsList(line) \/ cells = <<>> THEN Result(<<>>, header)
  ELSE ByParts(spec, header, IF HasMap(header) THEN Rejoined(header, cells) ELSE cells, DetectHeader(spec, line))

DelimitedRecord(spec, header, line) == ByCells(spec, header, line, RowCells(header, line))

\* applyColumnMap: the client's own map; some email or phone must be valid.
ValidRow(spec, row) ==
  IF \E f \in ToSet(spec) : IsStrong(f) /\ Validates(f, row[f]) THEN Record(row, <<>>) ELSE <<>>

ByColumns(spec, map, split) ==
  IF split = <<>> THEN <<>>
  ELSE ValidRow(spec, [f \in ToSet(spec) |-> Joint(split[1].parts, map[f])])

ColumnMapRecord(spec, map, line) == ByColumns(spec, map, BestSplit(line))
=============================================================================
