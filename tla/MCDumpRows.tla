----------------------------- MODULE MCDumpRows -----------------------------
(***************************************************************************)
(* Small objects: all the texts of a few bytes, texts with "Email:", and   *)
(* dumps as mysqldump, pg_dump and other tools write them.                 *)
(***************************************************************************)
EXTENDS DumpRows

CONSTANTS TextLength, EmailLength

\* Texts longer and shorter than SmallFile, lines longer and shorter than
\* MaxLineBytes, and texts that are cut before "Email:".
Texts ==
  LET long == [k \in 1 .. MaxLineBytes - 3 |-> "x"]
  IN  SeqOf({"x", NL, QUOTE}, TextLength)
        \cup {long \o text : text \in SeqOf({"x", NL, QUOTE}, 4)}
        \cup {<<"x">> \o text : text \in SeqOf({"x", " ", "Email:"}, EmailLength)}

Columns == <<<<"a">>, <<"b">>>>

Join(parts, by) ==
  FoldLeft(LAMBDA text, k : text \o (IF k = 1 THEN <<>> ELSE by) \o parts[k], <<>>, [k \in 1 .. Len(parts) |-> k])

\* A text of each byte that a reader treats in its own way, alone and among others,
\* and the texts a reader gets wrong.
Special == {SINGLE, QUOTE, BACKSLASH, ",", "(", ")", ";", TAB}
MysqlCells ==
  {Null, Number(<<"7">>), Text(<<>>), Text(<<"7">>)} \cup {Text(<<"x", byte>>) : byte \in Special}
    \cup {Text(<<BACKSLASH, SINGLE, ")", ",">>)}
    \cup {Text(<<SINGLE, SINGLE>>), Text(<<"x", NL>>), Text(<<";", NL>>)}
CopyCells ==
  {Null, Number(<<"7">>), Text(<<>>), Text(<<"7">>), Text(<<"0", "7">>), Text(<<".">>)}
    \cup {Text(<<"x", byte>>) : byte \in Special \cup {"x", CR}} \cup {Text(<<NL, "x">>)}
    \cup {Text(<<BACKSLASH, byte>>) : byte \in {"n", "t", "r", "N", "."}}

Tables(cells) == {<<row>> : row \in cells \X cells} \cup {<<<<c, Null>>, <<Number(<<"7">>), c>>>> : c \in cells}
-----------------------------------------------------------------------------
\* mysqldump escapes quotes and newlines; other tools double a single quote and
\* write a newline as it is.
Escaped(text, doubled) ==
  FlattenSeq([k \in 1 .. Len(text) |->
    IF text[k] = SINGLE /\ doubled THEN <<SINGLE, SINGLE>>
    ELSE IF text[k] \in {SINGLE, QUOTE, BACKSLASH} THEN <<BACKSLASH, text[k]>>
    ELSE IF text[k] = NL /\ ~doubled THEN <<BACKSLASH, "n">>
    ELSE <<text[k]>>])

MysqlCell(cell, doubled) ==
  CASE cell.type = "null" -> <<NULL>>
    [] cell.type = "number" -> cell.text
    [] cell.type = "text" -> <<SINGLE>> \o Escaped(cell.text, doubled) \o <<SINGLE>>

\* A dump of two columns and a key, with a comment before a statement of no interest;
\* one row a line, or all rows in one; a statement for each row, or one for all.
MysqlDump(rows, style) ==
  LET header == <<"--", NL, "DROP", ";", NL, CREATE, "(", BACKTICK, "a", BACKTICK, " ", "int", "(", "7", ")", ",", NL,
                  BACKTICK, "b", BACKTICK, " ", "enum", "(", SINGLE, ",", SINGLE, ")", ",", "KEY", "(", "a", ")", NL, ")", ";", NL>>
      Tuple(row) == <<"(">> \o MysqlCell(row[1], style.doubled) \o <<",">> \o MysqlCell(row[2], style.doubled) \o <<")">>
      tuples == [k \in 1 .. Len(rows) |-> Tuple(rows[k])]
      Insert(text) == <<INSERT, " ", VALUES>> \o text \o <<";", NL>>
  IN  header \o IF style.perRow THEN FlattenSeq([k \in 1 .. Len(rows) |-> Insert(tuples[k])])
                ELSE Insert(Join(tuples, <<",", NL>>))

CopyCell(cell) ==
  CASE cell.type = "null" -> <<BACKSLASH, "N">>
    [] cell.type = "number" -> cell.text
    [] cell.type = "text" ->
       FlattenSeq([k \in 1 .. Len(cell.text) |->
         CASE cell.text[k] = NL -> <<BACKSLASH, "n">>
           [] cell.text[k] = TAB -> <<BACKSLASH, "t">>
           [] cell.text[k] = CR -> <<BACKSLASH, "r">>
           [] cell.text[k] = BACKSLASH -> <<BACKSLASH, BACKSLASH>>
           [] OTHER -> <<cell.text[k]>>])

CopyDump(rows) ==
  <<"--", NL, COPY, "(", "a", ",", QUOTE, "b", QUOTE, ")", STDIN, NL>>
    \o FlattenSeq([k \in 1 .. Len(rows) |-> CopyCell(rows[k][1]) \o <<TAB>> \o CopyCell(rows[k][2]) \o <<NL>>])
    \o <<BACKSLASH, ".", NL, "x", NL>>

Dump(kind, rows) == [kind |-> kind, columns |-> Columns, rows |-> rows]

Init ==
  /\ \/ dump = Dump("text", <<>>) /\ file \in Texts
     \/ \E rows \in Tables(MysqlCells), style \in [doubled : BOOLEAN, perRow : BOOLEAN] :
          dump = Dump("mysql", rows) /\ file = MysqlDump(rows, style)
     \/ \E rows \in Tables(CopyCells) : dump = Dump("copy", rows) /\ file = CopyDump(rows)
  /\ BytesInit

vars == <<byteVars, dump>>
Next == BytesNext /\ UNCHANGED dump
Done == at = "done" /\ UNCHANGED vars
Spec == Init /\ [][Next \/ Done]_vars
=============================================================================
