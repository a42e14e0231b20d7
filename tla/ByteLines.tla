----------------------------- MODULE ByteLines -----------------------------
(***************************************************************************)
(* GcsUtils.streamLines: the lines of an object, read whole when it is     *)
(* small and in ranges when it is not.  A range that comes back short is   *)
(* asked for again from where it ended.  The bytes after the last line are *)
(* carried over, with what the scan thinks of the quotes in them, and are  *)
(* scanned again with the next range.  Bytes are told apart as far as the  *)
(* readers of the lines do; white space is one byte.                       *)
(***************************************************************************)
EXTENDS Naturals, FiniteSets, SequencesExt

CONSTANTS
  ChunkSize,         \* FETCH_CHUNK_SIZE
  SmallFile,         \* SMALL_FILE_SINGLE_GET_THRESHOLD
  MaxQuotedNewlines,
  MaxLineBytes

ASSUME ByteLinesAssumption ==
  /\ ChunkSize \in Nat \ {0} /\ SmallFile \in Nat
  /\ MaxQuotedNewlines \in Nat /\ MaxLineBytes \in Nat \ {0}

VARIABLES
  file,       \* the object's bytes
  fetched,    \* how many of them were received
  carried,    \* offset of the first byte that is in no line yet (remainderStart)
  inQuote,    \* the state of the quotes that streamLines keeps across scans
  out,        \* lines yielded so far: [offset, length], without the bytes
  at          \* what the stream does

byteVars == <<file, fetched, carried, inQuote, out, at>>

NL == "\n"
QUOTE == "\""

Line(from, to) == [offset |-> from, length |-> to - from]
End(line) == line.offset + line.length
Bytes(line) == SubSeq(file, line.offset + 1, End(line))
-----------------------------------------------------------------------------
(***************************************************************************)
(* One scan.  start and i count the bytes of the object.                   *)
(***************************************************************************)
Fresh(from, quoted) ==
  [start |-> from, inQuote |-> quoted, newlines |-> 0, skips |-> FALSE, stopped |-> FALSE, lines |-> <<>>]

CutAt(st, i) == [Fresh(i, FALSE) EXCEPT !.lines = Append(st.lines, Line(st.start, i))]

IsFull(st, i) == i - st.start >= MaxLineBytes

\* The scan stops at a closing quote that is the last byte it has: it may be the
\* first of two.
ScanQuote(st, i, to) ==
  IF ~st.inQuote THEN [st EXCEPT !.inQuote = TRUE]
  ELSE IF i = to THEN [st EXCEPT !.stopped = TRUE]
  ELSE IF file[i + 1] = QUOTE THEN [st EXCEPT !.skips = TRUE]
  ELSE [st EXCEPT !.inQuote = FALSE]

\* A newline between quotes ends the line when there were too many of them.
ScanByte(st, i) ==
  LET newlines == st.newlines + (IF st.inQuote THEN 1 ELSE 0)
  IN  IF \/ file[i] = NL /\ (~st.inQuote \/ newlines > MaxQuotedNewlines)
         \/ IsFull(st, i)
      THEN CutAt(st, i)
      ELSE IF file[i] = NL THEN [st EXCEPT !.newlines = newlines] ELSE st

\* scanLines over the bytes after from, up to to: scan[i] is its state after byte i.
ScanStep(st, i, to) ==
  IF st.stopped THEN st
  ELSE IF st.skips THEN [st EXCEPT !.skips = FALSE]
  ELSE IF file[i] = QUOTE THEN ScanQuote(st, i, to)
  ELSE ScanByte(st, i)

ScanLines(from, to, quoted) ==
  LET scan[i \in from .. to] == IF i = from THEN Fresh(from, quoted) ELSE ScanStep(scan[i - 1], i, to)
  IN  scan[to]
-----------------------------------------------------------------------------
\* What is left at the end of a small file.  A text with several "Email:" is cut
\* at the white space before each of them, which is in no line; the text does not
\* begin with white space.
IsEmail(i) == file[i] = "Email:"

Starts(from) ==
  {from} \cup {i \in from + 1 .. Len(file) - 2 : file[i] = " " /\ IsEmail(i + 1) /\ file[i + 2] = " "}

EndOf(starts, start) ==
  LET later == {t \in starts : t > start}
  IN  IF later = {} THEN Len(file) ELSE (CHOOSE t \in later : \A u \in later : t <= u) - 1

\* The line of the start that has n others before it.
RestLine(starts, n) ==
  LET start == CHOOSE s \in starts : Cardinality({t \in starts : t < s}) = n
  IN  Line(start, EndOf(starts, start))

Rest(from) ==
  IF from = Len(file) THEN <<>>
  ELSE IF Cardinality({i \in from + 1 .. Len(file) : IsEmail(i)}) > 1
  THEN [k \in 1 .. Cardinality(Starts(from)) |-> RestLine(Starts(from), k - 1)]
  ELSE <<Line(from, Len(file))>>
-----------------------------------------------------------------------------
BytesInit ==
  /\ fetched = 0 /\ carried = 0 /\ inQuote = FALSE /\ out = <<>> /\ at = "open"

Open ==
  /\ at = "open"
  /\ at' = IF Len(file) <= SmallFile THEN "small" ELSE "range"
  /\ UNCHANGED <<file, fetched, carried, inQuote, out>>

ReadsWhole ==
  /\ at = "small"
  /\ LET scan == ScanLines(0, Len(file), FALSE)
     IN  out' = scan.lines \o Rest(scan.start)
  /\ fetched' = Len(file) /\ carried' = Len(file) /\ at' = "done"
  /\ UNCHANGED <<file, inQuote>>

\* The start of what is carried over, counted from the first byte of the range
\* instead of the first byte that was scanned.
CarriedFromRange(scan) == fetched + scan.start - carried

Carried(scan) == scan.start

ReadsRange(n) ==
  /\ at = "range" /\ n <= ChunkSize /\ fetched + n <= Len(file)
  /\ fetched' = fetched + n
  /\ LET scan == ScanLines(carried, fetched', inQuote)
     IN  out' = out \o scan.lines /\ carried' = Carried(scan) /\ inQuote' = scan.inQuote
  /\ at' = IF fetched' = Len(file) THEN "end" ELSE "range"
  /\ UNCHANGED file

YieldsRest ==
  /\ at = "end"
  /\ out' = IF carried < Len(file) THEN Append(out, Line(carried, Len(file))) ELSE out
  /\ carried' = Len(file) /\ at' = "done"
  /\ UNCHANGED <<file, fetched, inQuote>>

BytesNext == Open \/ ReadsWhole \/ YieldsRest \/ \E n \in 1..ChunkSize : ReadsRange(n)

BytesSpec == file \in Seq(STRING) /\ BytesInit /\ [][BytesNext]_byteVars
-----------------------------------------------------------------------------
\* The first line of the bytes after from: it ends with a newline, or at the first
\* byte that makes it as long as a line may be and is no quote.
LineEnd(from) ==
  LET ends == {i \in from + 1 .. Len(file) :
                 file[i] = NL \/ (i - from >= MaxLineBytes /\ file[i] # QUOTE)}
  IN  IF ends = {} THEN Len(file) ELSE CHOOSE i \in ends : \A j \in ends : i <= j

\* streamlines_test.ts: the lines of an object are the same in whatever pieces it is
\* read, and are those of its text: while no newline is taken for a part of a quoted
\* cell (the default), a quote changes nothing.
ChunksDoNotMatter ==
  (at = "done" /\ MaxQuotedNewlines = 0) =>
    /\ Len(file) > 0 => out # <<>>
    /\ out # <<>> => (out[1].offset = 0 /\ End(Last(out)) = Len(file))
    /\ \A k \in 1 .. Len(out) - 1 :
         \/ out[k + 1].offset = End(out[k]) /\ End(out[k]) = LineEnd(out[k].offset)
         \/ IsEmail(out[k + 1].offset + 1) /\ out[k + 1].offset = End(out[k]) + 1
    /\ (out # <<>> /\ Len(file) > SmallFile) => LineEnd(Last(out).offset) = Len(file)
=============================================================================
