------------------------------ MODULE DumpRows ------------------------------
(***************************************************************************)
(* The rows of a database dump, from the lines of its file: the INSERTs of *)
(* a MySQL dump (GcsUtils.streamMysqlDumpRows) and the COPY blocks of a    *)
(* PostgreSQL one (streamPostgresCopyRows).  A word of SQL, and a word of  *)
(* a name, is one byte.                                                    *)
(***************************************************************************)
EXTENDS ByteLines

VARIABLE dump    \* what the file is a dump of: its kind and its rows of cells

CREATE == "CREATE TABLE t"
INSERT == "INSERT INTO t"
VALUES == "VALUES"
COPY == "COPY t"
STDIN == "FROM stdin;"
NULL == "NULL"
BACKSLASH == "\\"
SINGLE == "'"
TAB == "\t"
CR == "\r"
White == {" ", NL, TAB, CR}
Digits == {"0", "7"}
BACKTICK == "backtick"
NameQuotes == {BACKTICK, QUOTE, SINGLE}
Keywords == {"PRIMARY", "UNIQUE", "KEY", "INDEX", "CONSTRAINT", "FOREIGN", "CHECK", "FULLTEXT", "SPATIAL"}
-----------------------------------------------------------------------------
\* Texts.
TrimEnd(text) == SubSeq(text, 1, Max({0} \cup {i \in 1 .. Len(text) : text[i] \notin White}))
Trim(text) == Reverse(TrimEnd(Reverse(TrimEnd(text))))

PositionsOf(byte, text) == {i \in 1 .. Len(text) : text[i] = byte}

\* The pieces of text between the bytes at cuts.
Pieces(text, cuts) ==
  LET bounds == SetToSortSeq(cuts \cup {0, Len(text) + 1}, <)
  IN  [k \in 1 .. Len(bounds) - 1 |-> SubSeq(text, bounds[k] + 1, bounds[k + 1] - 1)]

\* text.replace with pairs of bytes, from left to right.
Replace(text, with) ==
  LET Pair(k) == <<text[k], text[k + 1]>>
      Step(st, k) ==
        IF st.skips THEN [st EXCEPT !.skips = FALSE]
        ELSE IF k < Len(text) /\ Pair(k) \in DOMAIN with
        THEN [done |-> Append(st.done, with[Pair(k)]), skips |-> TRUE]
        ELSE [st EXCEPT !.done = Append(@, text[k])]
  IN  FoldLeft(Step, [done |-> <<>>, skips |-> FALSE], [k \in 1 .. Len(text) |-> k]).done

\* The scan that takes a backslash for any other byte.
BareWithoutEscapes(text) ==
  LET Step(st, i) ==
        IF st.quote # "" THEN (IF text[i] = st.quote THEN [st EXCEPT !.quote = ""] ELSE st)
        ELSE IF text[i] \in {SINGLE, QUOTE} THEN [st EXCEPT !.quote = text[i]]
        ELSE [st EXCEPT !.bare = @ \cup {i}]
  IN  FoldLeft(Step, [quote |-> "", bare |-> {}], [i \in 1 .. Len(text) |-> i]).bare

\* The positions of text that are neither between quotes nor quotes themselves.
Bare(text) ==
  LET Quoted(st, i) ==
        IF st.escaped THEN [st EXCEPT !.escaped = FALSE]
        ELSE IF text[i] = BACKSLASH THEN [st EXCEPT !.escaped = TRUE]
        ELSE IF text[i] = st.quote THEN [st EXCEPT !.quote = ""]
        ELSE st
      Step(st, i) ==
        IF st.quote # "" THEN Quoted(st, i)
        ELSE IF text[i] \in {SINGLE, QUOTE} THEN [st EXCEPT !.quote = text[i]]
        ELSE [st EXCEPT !.bare = @ \cup {i}]
      fresh == [quote |-> "", escaped |-> FALSE, bare |-> {}]
  IN  FoldLeft(Step, fresh, [i \in 1 .. Len(text) |-> i]).bare

\* How many parentheses are open after position i.
Depth(text, bare, i) ==
  Cardinality({j \in bare \cap PositionsOf("(", text) : j <= i})
    - Cardinality({j \in bare \cap PositionsOf(")", text) : j <= i})
-----------------------------------------------------------------------------
\* Cells and rows.
Null == [type |-> "null", text |-> <<>>]
Text(text) == [type |-> "text", text |-> text]
Number(digits) ==
  [type |-> "number",
   text |-> SubSeq(digits, Min({Len(digits)} \cup {i \in 1 .. Len(digits) : digits[i] # "0"}), Len(digits))]

IsNumeric(text) == text # <<>> /\ \A i \in 1 .. Len(text) : text[i] \in Digits

\* coerceMysqlValue: the escapes go before the doubled quotes.
CoerceMysql(raw) ==
  LET escapes == [pair \in {<<BACKSLASH, byte>> : byte \in {SINGLE, QUOTE, BACKSLASH}} |-> pair[2]]
      doubled == [pair \in {<<SINGLE, SINGLE>>} |-> SINGLE]
  IN  IF raw = <<NULL>> THEN Null
      ELSE IF Len(raw) >= 2 /\ Head(raw) = SINGLE /\ Last(raw) = SINGLE
      THEN Text(Replace(Replace(Tail(Front(raw)), escapes), doubled))
      ELSE IF IsNumeric(raw) THEN Number(raw)
      ELSE Text(raw)

\* coercePostgresCopyValue: one escape after the other.
CoerceCopy(raw) ==
  LET Escape(byte, for) == [pair \in {<<BACKSLASH, byte>>} |-> for]
      unescaped == FoldLeft(Replace, raw, << Escape(BACKSLASH, BACKSLASH), Escape("n", NL),
                                             Escape("t", TAB), Escape("r", CR) >>)
  IN  IF raw = <<BACKSLASH, "N">> THEN Null
      ELSE IF IsNumeric(unescaped) THEN Number(unescaped)
      ELSE Text(unescaped)

\* A row of cells under the names of the columns; what has no column is meta.
Row(columns, cells, offset) ==
  LET named == Min({Len(columns), Len(cells)})
  IN  [cells |-> [k \in 1 .. named |-> [column |-> columns[k], cell |-> cells[k]]],
       meta |-> SubSeq(cells, named + 1, Len(cells)),
       offset |-> offset]

\* A name without its quotes.
Unquoted(text) == SelectSeq(Trim(text), LAMBDA byte : byte \notin NameQuotes)
Names(list) == SelectSeq([k \in 1 .. Len(list) |-> Unquoted(list[k])], LAMBDA name : name # <<>>)
-----------------------------------------------------------------------------
\* MySQL.  A statement ends with a line that ends with ";".
EndsStatement(text) == TrimEnd(text) # <<>> /\ Last(TrimEnd(text)) = ";"

TextOf(line) == SelectSeq(Bytes(line), LAMBDA byte : byte # NL)

Statements ==
  LET Step(st, line) ==
        LET buffer == st.buffer \o TextOf(line)
            offset == IF st.buffer = <<>> THEN line.offset ELSE st.offset
        IN  IF EndsStatement(TextOf(line))
            THEN [buffer |-> <<>>, offset |-> offset,
                  done |-> Append(st.done, [text |-> Trim(buffer), offset |-> offset])]
            ELSE [st EXCEPT !.buffer = Append(buffer, " "), !.offset = offset]
  IN  FoldLeft(Step, [buffer |-> <<>>, offset |-> 0, done |-> <<>>], out).done

\* parseMysqlCreateTableColumns: the first word of each part that is no key.
CreateColumns(sql) ==
  LET body == SubSeq(sql, 1 + Min(PositionsOf("(", sql)), Len(sql))
      bare == Bare(body)
      closes == {i \in bare \cap PositionsOf(")", body) : Depth(body, bare, i) < 0}
      end == IF closes = {} THEN Len(body) + 1 ELSE Min(closes)
      cuts == {i \in bare \cap PositionsOf(",", body) : i < end /\ Depth(body, bare, i) = 0}
      words == [k \in 1 .. Cardinality(cuts) + 1 |-> Unquoted(Pieces(SubSeq(body, 1, end - 1), cuts)[k])]
      named == SelectSeq(words, LAMBDA word : word # <<>> /\ word[1] \notin Keywords)
  IN  [k \in 1 .. Len(named) |-> <<named[k][1]>>]

\* parseMysqlInsertColumnList looks for a list in parentheses in what stands before
\* the ")" that VALUES follows.
InsertColumns(sql) ==
  LET StartsValues(text) == text # <<>> /\ text[1] = VALUES
      ends == {i \in PositionsOf(")", sql) : StartsValues(Trim(SubSeq(sql, i + 1, Len(sql))))}
      between == TrimEnd(SubSeq(sql, 1, Min(ends) - 1))
      opens == {i \in PositionsOf("(", between) : ")" \notin ToSet(SubSeq(between, i, Len(between) - 1))}
      list == SubSeq(between, Min(opens) + 1, Len(between) - 1)
  IN  IF ends = {} \/ Last(between) # ")" \/ opens = {} THEN <<>>
      ELSE Names(Pieces(list, PositionsOf(",", list)))

\* splitMysqlValues: an empty last value is none.
Values(tuple) ==
  LET values == Pieces(tuple, Bare(tuple) \cap PositionsOf(",", tuple))
  IN  IF Last(values) = <<>> THEN Front(values) ELSE values

\* parseMysqlInsertTuples: up to the ";", one row for each pair of parentheses.
InsertRows(sql, columns, offset) ==
  LET start == 1 + Min(PositionsOf(VALUES, sql))
      text == SubSeq(sql, start, Len(sql))
      bare == Bare(text)
      end == Min({Len(text) + 1} \cup (bare \cap PositionsOf(";", text)))
      At(byte, depth) == {i \in bare \cap PositionsOf(byte, text) : i < end /\ Depth(text, bare, i) = depth}
      closes == SetToSortSeq(At(")", 0), <)
      Opened(i) == Max({j \in At("(", 1) : j < i})
      Cells(i) ==
        LET values == Values(SubSeq(text, Opened(i) + 1, i - 1))
        IN  [k \in 1 .. Len(values) |-> CoerceMysql(Trim(values[k]))]
  IN  [k \in 1 .. Len(closes) |-> Row(columns, Cells(closes[k]), offset + start - 1 + Opened(closes[k]))]

MysqlRows ==
  LET Insert(st, statement) ==
        LET own == InsertColumns(statement.text)
            columns == IF own = <<>> THEN st.columns ELSE own
        IN  IF columns = <<>> THEN st
            ELSE [st EXCEPT !.rows = @ \o InsertRows(statement.text, columns, statement.offset)]
      Step(st, statement) ==
        CASE statement.text[1] = CREATE -> [st EXCEPT !.columns = CreateColumns(statement.text)]
          [] statement.text[1] = INSERT -> Insert(st, statement)
          [] OTHER -> st
  IN  FoldLeft(Step, [columns |-> <<>>, rows |-> <<>>], Statements).rows
-----------------------------------------------------------------------------
\* PostgreSQL.
EndsCopy(text) == Trim(text) \in {<<BACKSLASH, ".">>, <<".">>}

CopyColumns(text) ==
  LET list == SubSeq(text, Min(PositionsOf("(", text)) + 1, Min(PositionsOf(")", text)) - 1)
  IN  Names(Pieces(list, PositionsOf(",", list)))

CopiedRow(columns, text, offset) ==
  LET values == Pieces(text, PositionsOf(TAB, text))
      cells == [k \in 1 .. Max({Len(values), Len(columns)}) |->
                  IF k <= Len(values) THEN CoerceCopy(values[k]) ELSE Null]
  IN  Row(columns, cells, offset)

CopyRows ==
  LET Outside(st, text) == IF {COPY, STDIN} \subseteq ToSet(text) THEN [st EXCEPT !.columns = CopyColumns(text)] ELSE st
      Step(st, line) ==
        IF st.columns = <<>> THEN Outside(st, TextOf(line))
        ELSE IF EndsCopy(TextOf(line)) THEN [st EXCEPT !.columns = <<>>]
        ELSE [st EXCEPT !.rows = Append(@, CopiedRow(st.columns, TextOf(line), line.offset))]
  IN  FoldLeft(Step, [columns |-> <<>>, rows |-> <<>>], out).rows

RowsRead == IF dump.kind = "mysql" THEN MysqlRows ELSE CopyRows
-----------------------------------------------------------------------------
\* A COPY block does not tell a number from a text of digits, which loses its leading
\* zeros.
ReadsAs(cell) == IF dump.kind = "copy" /\ cell.type = "text" /\ IsNumeric(cell.text) THEN Number(cell.text) ELSE cell

\* The texts that the coercions do not give back: in a MySQL dump those with two
\* single quotes in a row or a newline, in a COPY block those with a backslash
\* before "n", "t" or "r".
Follow(text, byte, next) == \E i \in 1 .. Len(text) - 1 : text[i] \in byte /\ text[i + 1] \in next

NotRestored(cell) ==
  /\ cell.type = "text"
  /\ IF dump.kind = "mysql" THEN Follow(cell.text, {SINGLE}, {SINGLE}) \/ NL \in ToSet(cell.text)
     ELSE Follow(cell.text, {BACKSLASH}, {"n", "t", "r"})

\* The rows that look like an end, after which rows are lost: in a MySQL dump a text
\* with ";" before a newline (when the tool writes newlines as they are), in a COPY
\* block a row that is a single ".".
LooksLikeEnd(row) ==
  IF dump.kind = "mysql" THEN \E c \in DOMAIN row : Follow(row[c].text, {";"}, {NL})
  ELSE /\ \A c \in DOMAIN row : row[c].type = "text"
       /\ FlattenSeq([c \in DOMAIN row |-> row[c].text]) = <<".">>

\* The rows that are read from a dump are the rows it was made of, in their order and
\* every cell under its column, whatever bytes are in it, and no two have the same
\* offset, which is what the parsed rows are told apart by.  It excludes what is
\* named above: after a row that looks like an end nothing is promised, a cell of
\* NotRestored may hold another text (its row and the other cells are there all the
\* same), and digits of a COPY block come as numbers.
RowsSurvive ==
  (at = "done" /\ dump.kind # "text" /\ \A k \in DOMAIN dump.rows : ~LooksLikeEnd(dump.rows[k])) =>
    /\ Len(RowsRead) = Len(dump.rows)
    /\ \A k \in DOMAIN dump.rows :
         /\ RowsRead[k].meta = <<>>
         /\ Len(RowsRead[k].cells) = Len(dump.columns)
         /\ \A c \in DOMAIN dump.columns :
              /\ RowsRead[k].cells[c].column = dump.columns[c]
              /\ \/ RowsRead[k].cells[c].cell = ReadsAs(dump.rows[k][c])
                 \/ NotRestored(dump.rows[k][c])
    /\ \A k \in 1 .. Len(dump.rows) - 1 : RowsRead[k].offset < RowsRead[k + 1].offset
=============================================================================
