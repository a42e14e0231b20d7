--------------------------- MODULE ByteLinesProofs ---------------------------
(***************************************************************************)
(* Theorems of ByteLines: for any text, any pieces it is received in, any  *)
(* ChunkSize, SmallFile and MaxLineBytes.  The provers cannot instantiate  *)
(* the library's induction theorems; induction over the bytes of a scan is *)
(* proved from the ranks of the elements of a finite set of numbers.       *)
(***************************************************************************)
EXTENDS ByteLines, FiniteSetTheorems, TLAPS

-----------------------------------------------------------------------------
\* How many elements of S are below n.
Rank(S, n) == Cardinality({m \in S : m < n})

LEMMA BelowIsFinite ==
  ASSUME NEW S, S \subseteq Nat, NEW n \in Nat
  PROVE  IsFiniteSet({m \in S : m < n})
<1>1. IsFiniteSet(0 .. n)
  BY FS_Interval
<1>2. ASSUME NEW m \in S, m < n PROVE m \in 0 .. n
  BY <1>2
<1>3. {m \in S : m < n} \in SUBSET (0 .. n)
  BY <1>2
<1> QED BY <1>1, <1>3, FS_Subset

LEMMA RankGrows ==
  ASSUME NEW S, S \subseteq Nat, NEW m \in S, NEW n \in Nat, m < n
  PROVE  Rank(S, m) < Rank(S, n) /\ Rank(S, m) \in Nat /\ Rank(S, n) \in Nat
<1> DEFINE A == {k \in S : k < m}
           B == {k \in S : k < n}
<1>1. IsFiniteSet(A) /\ IsFiniteSet(B)
  BY BelowIsFinite
<1>2. A \in SUBSET B /\ A # B
  <2>1. m \in B /\ m \notin A
    OBVIOUS
  <2>2. ASSUME NEW k \in A PROVE k \in B
    OBVIOUS
  <2> QED BY <2>1, <2>2
<1>3. Cardinality(A) <= Cardinality(B) /\ Cardinality(A) # Cardinality(B)
  BY <1>1, <1>2, FS_Subset
<1>4. Cardinality(A) \in Nat /\ Cardinality(B) \in Nat
  BY <1>1, FS_CardinalityType
<1> QED BY <1>3, <1>4 DEF Rank

LEMMA RanksAreAll ==
  ASSUME NEW S, S \subseteq Nat, IsFiniteSet(S)
  PROVE  \A k \in 0 .. Cardinality(S) - 1 : \E n \in S : Rank(S, n) = k
<1> DEFINE c == Cardinality(S)
           K == 0 .. c - 1
           f == [n \in S |-> Rank(S, n)]
<1>1. c \in Nat
  BY FS_CardinalityType
<1>2. IsFiniteSet(K) 
  BY <1>1, FS_Interval
<1>3. Cardinality(K) = c
  BY <1>1, FS_Interval
<1>4. ASSUME NEW n \in S PROVE Rank(S, n) \in K
  <2>1. {m \in S : m < n} \in SUBSET S /\ {m \in S : m < n} # S
    BY <1>4
  <2>2. Rank(S, n) <= c /\ Rank(S, n) # c
    BY <2>1, FS_Subset DEF Rank
  <2>3. Rank(S, n) \in Nat
    BY <2>1, FS_Subset, FS_CardinalityType DEF Rank
  <2> QED BY <1>1, <2>2, <2>3
<1>5. f \in [S -> K]
  BY <1>4
<1>6. ASSUME NEW m \in S, NEW n \in S, f[m] = f[n] PROVE m = n
  <2>1. Rank(S, m) = Rank(S, n) /\ m \in Nat /\ n \in Nat
    BY <1>6
  <2>2. ASSUME m < n PROVE FALSE
    <3>1. Rank(S, m) < Rank(S, n) /\ Rank(S, m) \in Nat
      BY <2>1, <2>2, RankGrows
    <3> QED BY <2>1, <3>1
  <2>3. ASSUME n < m PROVE FALSE
    <3>1. Rank(S, n) < Rank(S, m) /\ Rank(S, m) \in Nat
      BY <2>1, <2>3, RankGrows
    <3> QED BY <2>1, <3>1
  <2> QED BY <2>1, <2>2, <2>3
<1>7. f \in Injection(S, K)
  BY <1>5, <1>6 DEF Injection, IsInjective
<1>8. f \in Surjection(S, K)
  BY <1>2, <1>3, <1>7, FS_Injection
<1> QED BY <1>8 DEF Surjection

LEMMA LeastOf ==
  ASSUME NEW S, S \subseteq Nat, NEW s \in S
  PROVE  \E n \in S : \A m \in S : n <= m
<1> DEFINE T == {m \in S : m <= s}
<1>1. IsFiniteSet(T) 
  <2>1. ASSUME NEW m \in T PROVE m \in 0 .. s
    OBVIOUS
  <2>2. IsFiniteSet(0 .. s)
    BY FS_Interval
  <2>3. T \in SUBSET (0 .. s)
    BY <2>1
  <2> QED BY <2>2, <2>3, FS_Subset
<1>2. T # {} /\ T \subseteq Nat
  <2>1. s \in T
    OBVIOUS
  <2> QED BY <2>1
<1>3. Cardinality(T) \in Nat /\ Cardinality(T) # 0
  BY <1>1, <1>2, FS_CardinalityType, FS_EmptySet
<1>4. PICK n \in T : Rank(T, n) = 0
  BY <1>1, <1>2, <1>3, RanksAreAll
<1>5. {m \in T : m < n} = {}
  BY <1>2, <1>4, BelowIsFinite, FS_EmptySet DEF Rank
<1> QED BY <1>4, <1>5

LEMMA Induction ==
  ASSUME NEW S, 0 \in S, \A n \in Nat : n \in S => n + 1 \in S
  PROVE  Nat \subseteq S
<1>1. SUFFICES ASSUME NEW s \in Nat \ S PROVE FALSE
  OBVIOUS
<1>2. PICK n \in Nat \ S : \A m \in Nat \ S : n <= m
  BY LeastOf
<1>3. n # 0 /\ n - 1 \in Nat
  BY <1>2
<1>4. n - 1 \in S
  BY <1>2, <1>3
<1> QED BY <1>2, <1>3, <1>4

-----------------------------------------------------------------------------
\* What a scan knows.  Byte i ends the line that starts after byte s.
EndsLine(s, i) == file[i] = NL \/ (i - s >= MaxLineBytes /\ file[i] # QUOTE)

NoEnd(s, i) == \A j \in s + 1 .. i : ~EndsLine(s, j)

\* The bytes after s, up to e, are a line of the text.
IsLine(s, e) == e \in s + 1 .. Len(file) /\ EndsLine(s, e) /\ NoEnd(s, e - 1)

Lines == [offset : Nat, length : Nat]

\* The lines are the bytes after from up to to, one after the other.
Tiles(lines, from, to) ==
  /\ lines \in Seq(Lines)
  /\ lines = <<>> => from = to
  /\ lines # <<>> => lines[1].offset = from /\ End(lines[Len(lines)]) = to
  /\ \A k \in 1 .. Len(lines) - 1 : lines[k + 1].offset = End(lines[k])

AreLines(lines) == \A k \in 1 .. Len(lines) : IsLine(lines[k].offset, End(lines[k]))

\* The state of a scan of the bytes after from, up to to, when byte i was read.
ScanOk(st, i, from, to) ==
  /\ st \in [start : from .. i, inQuote : BOOLEAN, newlines : Nat, skips : BOOLEAN,
             stopped : BOOLEAN, lines : Seq(Lines)]
  /\ Tiles(st.lines, from, st.start)
  /\ MaxQuotedNewlines = 0 => AreLines(st.lines) /\ NoEnd(st.start, i)
  /\ st.skips => i < to /\ file[i + 1] = QUOTE
  /\ st.stopped => i = to

LEMMA LineOfBytes ==
  ASSUME NEW s \in Nat, NEW e \in Nat, s <= e
  PROVE  Line(s, e) \in Lines /\ Line(s, e).offset = s /\ End(Line(s, e)) = e
BY DEF Line, Lines, End

LEMMA TilesAppend ==
  ASSUME NEW lines, NEW from \in Nat, NEW s \in Nat, NEW e \in Nat, s <= e, Tiles(lines, from, s)
  PROVE  Tiles(Append(lines, Line(s, e)), from, e)
<1> DEFINE more == Append(lines, Line(s, e))
<1>1. Line(s, e) \in Lines /\ Line(s, e).offset = s /\ End(Line(s, e)) = e
  BY LineOfBytes
<1>2. lines \in Seq(Lines) /\ Len(lines) \in Nat
  BY DEF Tiles
<1>3. more \in Seq(Lines) /\ Len(more) = Len(lines) + 1 /\ more[Len(more)] = Line(s, e)
  BY <1>1, <1>2
<1>4. \A k \in 1 .. Len(lines) : more[k] = lines[k]
  BY <1>2
<1>5. more[1].offset = from
  <2>1. CASE lines = <<>>
    BY <2>1, <1>1, <1>3 DEF Tiles
  <2>2. CASE lines # <<>>
    BY <2>2, <1>2, <1>4 DEF Tiles
  <2> QED BY <2>1, <2>2
<1>6. ASSUME NEW k \in 1 .. Len(more) - 1 PROVE more[k + 1].offset = End(more[k])
  <2>1. CASE k = Len(lines)
    BY <2>1, <1>1, <1>2, <1>3, <1>4, <1>6 DEF Tiles
  <2>2. CASE k # Len(lines)
    <3>1. k \in 1 .. Len(lines) - 1 /\ k \in 1 .. Len(lines) /\ k + 1 \in 1 .. Len(lines)
      BY <2>2, <1>2, <1>3
    <3> QED BY <3>1, <1>4 DEF Tiles
  <2> QED BY <2>1, <2>2
<1>7. more # <<>>
  BY <1>2, <1>3
<1> HIDE DEF more
<1>8. Tiles(more, from, e)
  BY <1>1, <1>3, <1>5, <1>6, <1>7 DEF Tiles
<1> QED BY <1>8 DEF more

LEMMA TilesJoin ==
  ASSUME NEW a, NEW b, NEW from \in Nat, NEW mid \in Nat, NEW to \in Nat, Tiles(a, from, mid), Tiles(b, mid, to)
  PROVE  Tiles(a \o b, from, to)
<1> DEFINE all == a \o b
<1>1. a \in Seq(Lines) /\ b \in Seq(Lines) /\ Len(a) \in Nat /\ Len(b) \in Nat
  BY DEF Tiles
<1>2. all \in Seq(Lines) /\ Len(all) = Len(a) + Len(b)
  BY <1>1
<1>3. \A k \in 1 .. Len(all) : all[k] = IF k <= Len(a) THEN a[k] ELSE b[k - Len(a)]
  BY <1>1
<1>4. (a = <<>> <=> Len(a) = 0) /\ (b = <<>> <=> Len(b) = 0)
  BY <1>1
<1> HIDE DEF all
<1>5. CASE Len(a) = 0
  <2>1. from = mid
    BY <1>4, <1>5 DEF Tiles
  <2>2. \A k \in 1 .. Len(all) : all[k] = b[k]
    BY <1>1, <1>2, <1>3, <1>5
  <2>3. Len(all) = Len(b)
    BY <1>1, <1>2, <1>5
  <2>4. all = <<>> <=> b = <<>>
    BY <2>3, <1>2, <1>4
  <2>5. \A k \in 1 .. Len(all) - 1 : k \in 1 .. Len(all) /\ k + 1 \in 1 .. Len(all)
    BY <1>1, <1>2
  <2>6. all # <<>> => 1 \in 1 .. Len(all) /\ Len(all) \in 1 .. Len(all)
    BY <2>3, <2>4, <1>1, <1>4
  <2> QED BY <1>2, <2>1, <2>2, <2>3, <2>4, <2>5, <2>6 DEF Tiles, all
<1>6. CASE Len(b) = 0
  <2>1. mid = to
    BY <1>4, <1>6 DEF Tiles
  <2>2. Len(all) = Len(a)
    BY <1>1, <1>2, <1>6
  <2>3. \A k \in 1 .. Len(all) : all[k] = a[k]
    BY <1>1, <1>3, <2>2
  <2>4. all = <<>> <=> a = <<>>
    BY <2>2, <1>2, <1>4
  <2>5. \A k \in 1 .. Len(all) - 1 : k \in 1 .. Len(all) /\ k + 1 \in 1 .. Len(all)
    BY <1>1, <1>2
  <2>6. all # <<>> => 1 \in 1 .. Len(all) /\ Len(all) \in 1 .. Len(all)
    BY <2>2, <2>4, <1>1, <1>4
  <2> QED BY <1>2, <2>1, <2>2, <2>3, <2>4, <2>5, <2>6 DEF Tiles, all
<1>7. CASE Len(a) > 0 /\ Len(b) > 0
  <2>1. all[1] = a[1] /\ all[Len(all)] = b[Len(b)] /\ all # <<>>
    <3>1. 1 \in 1 .. Len(all) /\ Len(all) \in 1 .. Len(all) /\ ~ Len(all) <= Len(a)
      BY <1>1, <1>2, <1>7
    <3>2. 1 <= Len(a) /\ Len(all) - Len(a) = Len(b)
      BY <1>1, <1>2, <1>7
    <3> QED BY <3>1, <3>2, <1>3
  <2>2. all[1].offset = from /\ End(all[Len(all)]) = to
    BY <2>1, <1>4, <1>7 DEF Tiles
  <2>3. ASSUME NEW k \in 1 .. Len(all) - 1 PROVE all[k + 1].offset = End(all[k])
    <3>1. CASE k < Len(a)
      <4>1. k \in 1 .. Len(a) - 1 /\ all[k] = a[k] /\ all[k + 1] = a[k + 1]
        BY <3>1, <1>1, <1>2, <1>3
      <4> QED BY <4>1 DEF Tiles
    <3>2. CASE k = Len(a)
      <4>1. k \in 1 .. Len(all) /\ k + 1 \in 1 .. Len(all) /\ (k + 1) - Len(a) = 1 /\ ~ k + 1 <= Len(a)
        BY <3>2, <1>1, <1>2, <1>7
      <4>2. all[k] = a[Len(a)] /\ all[k + 1] = b[1]
        BY <4>1, <3>2, <1>1, <1>3
      <4> QED BY <4>2, <1>4, <1>7 DEF Tiles
    <3>3. CASE k > Len(a)
      <4>1. PICK j : j = k - Len(a)
        OBVIOUS
      <4>2. j \in 1 .. Len(b) - 1 /\ all[k] = b[j] /\ all[k + 1] = b[j + 1]
        BY <4>1, <3>3, <1>1, <1>2, <1>3
      <4> QED BY <4>2 DEF Tiles
    <3> QED BY <3>1, <3>2, <3>3, <1>1, <1>2
  <2>4. Tiles(all, from, to)
    BY <1>2, <2>1, <2>2, <2>3 DEF Tiles
  <2> QED BY <2>4 DEF all
<1> QED BY <1>1, <1>5, <1>6, <1>7

LEMMA LinesJoin ==
  ASSUME NEW a \in Seq(Lines), NEW b \in Seq(Lines), AreLines(a), AreLines(b)
  PROVE  AreLines(a \o b)
<1>1. ASSUME NEW k \in 1 .. Len(a \o b) PROVE IsLine((a \o b)[k].offset, End((a \o b)[k]))
  <2>1. CASE k <= Len(a)
    <3>1. (a \o b)[k] = a[k] /\ k \in 1 .. Len(a)
      BY <2>1
    <3> QED BY <3>1 DEF AreLines
  <2>2. CASE k > Len(a)
    <3>1. (a \o b)[k] = b[k - Len(a)] /\ k - Len(a) \in 1 .. Len(b)
      BY <2>2
    <3> QED BY <3>1 DEF AreLines
  <2> QED BY <2>1, <2>2
<1> QED BY <1>1 DEF AreLines

LEMMA LinesAppend ==
  ASSUME NEW a \in Seq(Lines), NEW s \in Nat, NEW e \in Nat, s <= e, AreLines(a), IsLine(s, e)
  PROVE  AreLines(Append(a, Line(s, e)))
<1>1. Line(s, e) \in Lines /\ Line(s, e).offset = s /\ End(Line(s, e)) = e
  BY LineOfBytes
<1>2. ASSUME NEW k \in 1 .. Len(Append(a, Line(s, e)))
      PROVE  Append(a, Line(s, e))[k] = Line(s, e) \/ (k \in 1 .. Len(a) /\ Append(a, Line(s, e))[k] = a[k])
  BY <1>1, <1>2
<1> QED BY <1>1, <1>2 DEF AreLines
-----------------------------------------------------------------------------
\* One byte, and then all of them.
LEMMA ScanStarts ==
  ASSUME NEW from \in Nat, NEW to \in Nat, from <= to, NEW quoted \in BOOLEAN
  PROVE  ScanOk(Fresh(from, quoted), from, from, to)
BY DEF ScanOk, Fresh, Tiles, AreLines, NoEnd, Lines

\* The states of a scan are records.
Scans(S) == [start : S, inQuote : BOOLEAN, newlines : Nat, skips : BOOLEAN, stopped : BOOLEAN, lines : Seq(Lines)]

LEMMA StateSet ==
  ASSUME NEW S, NEW st \in Scans(S), NEW x
  PROVE  /\ [st EXCEPT !.inQuote = x] = [start |-> st.start, inQuote |-> x, newlines |-> st.newlines,
                 skips |-> st.skips, stopped |-> st.stopped, lines |-> st.lines]
         /\ [st EXCEPT !.newlines = x] = [start |-> st.start, inQuote |-> st.inQuote, newlines |-> x,
                 skips |-> st.skips, stopped |-> st.stopped, lines |-> st.lines]
         /\ [st EXCEPT !.skips = x] = [start |-> st.start, inQuote |-> st.inQuote, newlines |-> st.newlines,
                 skips |-> x, stopped |-> st.stopped, lines |-> st.lines]
         /\ [st EXCEPT !.stopped = x] = [start |-> st.start, inQuote |-> st.inQuote, newlines |-> st.newlines,
                 skips |-> st.skips, stopped |-> x, lines |-> st.lines]
         /\ [st EXCEPT !.lines = x] = [start |-> st.start, inQuote |-> st.inQuote, newlines |-> st.newlines,
                 skips |-> st.skips, stopped |-> st.stopped, lines |-> x]
BY DEF Scans

LEMMA CutState ==
  ASSUME NEW st, NEW i
  PROVE  CutAt(st, i) = [start |-> i, inQuote |-> FALSE, newlines |-> 0, skips |-> FALSE, stopped |-> FALSE,
                         lines |-> Append(st.lines, Line(st.start, i))]
<1>1. Fresh(i, FALSE) \in Scans({i})
  BY DEF Fresh, Scans
<1>2. PICK lines : lines = Append(st.lines, Line(st.start, i))
  OBVIOUS
<1>3. CutAt(st, i) = [Fresh(i, FALSE) EXCEPT !.lines = lines]
  BY <1>2, Zenon DEF CutAt
<1> QED BY <1>1, <1>2, <1>3, StateSet DEF Fresh

LEMMA CutKeeps ==
  ASSUME ByteLinesAssumption, NEW from \in Nat, NEW to \in Nat, to <= Len(file), Len(file) \in Nat,
         NEW i \in from + 1 .. to, NEW st, ScanOk(st, i - 1, from, to), ~st.skips, ~st.stopped,
         MaxQuotedNewlines = 0 => EndsLine(st.start, i)
  PROVE  ScanOk(CutAt(st, i), i, from, to)
<1> DEFINE new == CutAt(st, i)
<1>1. st \in [start : from .. i - 1, inQuote : BOOLEAN, newlines : Nat, skips : BOOLEAN,
             stopped : BOOLEAN, lines : Seq(Lines)]
  BY DEF ScanOk
<1>2. /\ new.start = i /\ new.lines = Append(st.lines, Line(st.start, i)) /\ ~new.skips /\ ~new.stopped
      /\ new.inQuote = FALSE /\ new.newlines = 0
      /\ new = [start |-> new.start, inQuote |-> new.inQuote, newlines |-> new.newlines, skips |-> new.skips,
                stopped |-> new.stopped, lines |-> new.lines]
  BY CutState
<1>3. st.start \in Nat /\ i \in Nat /\ st.start <= i /\ st.start + 1 <= i
  BY <1>1
<1>4. Tiles(new.lines, from, i)
  BY <1>2, <1>3, TilesAppend DEF ScanOk
<1>5. new.lines \in Seq(Lines)
  BY <1>4 DEF Tiles
<1>6. ASSUME MaxQuotedNewlines = 0 PROVE AreLines(new.lines)
  <2>1. NoEnd(st.start, i - 1) /\ AreLines(st.lines)
    BY <1>6 DEF ScanOk
  <2>2. IsLine(st.start, i)
    BY <1>3, <1>6, <2>1 DEF IsLine
  <2> QED BY <1>1, <1>2, <1>3, <2>1, <2>2, LinesAppend
<1>7. NoEnd(new.start, i)
  BY <1>2, <1>3 DEF NoEnd
<1> HIDE DEF new
<1>8. new.start \in from .. i
  BY <1>2, <1>3
<1>9. new \in [start : from .. i, inQuote : BOOLEAN, newlines : Nat, skips : BOOLEAN,
              stopped : BOOLEAN, lines : Seq(Lines)]
  <2>1. PICK start, inq, newlines, sk, sp, lines :
          /\ start = new.start /\ inq = FALSE /\ newlines = 0 /\ sk = FALSE /\ sp = FALSE /\ lines = new.lines
          /\ new = [start |-> start, inQuote |-> inq, newlines |-> newlines, skips |-> sk,
                    stopped |-> sp, lines |-> lines]
    BY <1>2, CutState DEF new
  <2>2. start \in from .. i /\ inq \in BOOLEAN /\ newlines \in Nat /\ sk \in BOOLEAN /\ sp \in BOOLEAN
        /\ lines \in Seq(Lines)
    BY <1>5, <1>8, <2>1
  <2> QED BY <2>1, <2>2
<1>10. ScanOk(new, i, from, to)
  BY <1>2, <1>4, <1>5, <1>6, <1>7, <1>9 DEF ScanOk
<1> QED BY <1>10 DEF new

\* A byte that ends no line.
LEMMA ByteKeeps ==
  ASSUME ByteLinesAssumption, NEW from \in Nat, NEW to \in Nat, to <= Len(file), Len(file) \in Nat,
         NEW i \in from + 1 .. to, NEW st, ScanOk(st, i - 1, from, to),
         MaxQuotedNewlines = 0 => ~EndsLine(st.start, i),
         NEW new \in [start : {st.start}, inQuote : BOOLEAN, newlines : Nat, skips : BOOLEAN,
                      stopped : BOOLEAN, lines : {st.lines}],
         new.skips => i < to /\ file[i + 1] = QUOTE, new.stopped => i = to
  PROVE  ScanOk(new, i, from, to)
<1>1. st \in [start : from .. i - 1, inQuote : BOOLEAN, newlines : Nat, skips : BOOLEAN,
             stopped : BOOLEAN, lines : Seq(Lines)]
  BY DEF ScanOk
<1>2. ASSUME MaxQuotedNewlines = 0 PROVE NoEnd(st.start, i)
  <2>1. NoEnd(st.start, i - 1)
    BY <1>2 DEF ScanOk
  <2>2. ASSUME NEW j \in st.start + 1 .. i PROVE ~EndsLine(st.start, j)
    <3>1. j = i \/ j \in st.start + 1 .. i - 1
      BY <1>1
    <3> QED BY <1>2, <2>1, <3>1 DEF NoEnd
  <2> QED BY <2>2 DEF NoEnd
<1>3. new \in [start : from .. i, inQuote : BOOLEAN, newlines : Nat, skips : BOOLEAN,
              stopped : BOOLEAN, lines : Seq(Lines)]
  BY <1>1
<1>4. new.start = st.start /\ new.lines = st.lines
  OBVIOUS
<1>5. Tiles(st.lines, from, st.start) /\ (MaxQuotedNewlines = 0 => AreLines(st.lines))
  BY DEF ScanOk
<1> QED BY <1>2, <1>3, <1>4, <1>5 DEF ScanOk

LEMMA StepKeeps ==
  ASSUME ByteLinesAssumption, NEW from \in Nat, NEW to \in Nat, to <= Len(file), Len(file) \in Nat,
         NEW i \in from + 1 .. to, NEW st, ScanOk(st, i - 1, from, to)
  PROVE  ScanOk(ScanStep(st, i, to), i, from, to)
<1> DEFINE new == ScanStep(st, i, to)
<1>1. st \in [start : from .. i - 1, inQuote : BOOLEAN, newlines : Nat, skips : BOOLEAN,
             stopped : BOOLEAN, lines : Seq(Lines)]
  BY DEF ScanOk
<1>2. ~st.stopped
  BY DEF ScanOk
<1>3. CASE st.skips
  <2>1. file[i] = QUOTE
    <3>1. file[(i - 1) + 1] = QUOTE
      BY <1>3 DEF ScanOk
    <3>2. (i - 1) + 1 = i
      OBVIOUS
    <3> QED BY <3>1, <3>2
  <2>2. ~EndsLine(st.start, i)
    BY <2>1 DEF EndsLine, NL, QUOTE
  <2>3. new = [st EXCEPT !.skips = FALSE]
    BY <1>2, <1>3 DEF ScanStep
  <2>4. /\ new \in [start : {st.start}, inQuote : BOOLEAN, newlines : Nat, skips : BOOLEAN,
                    stopped : BOOLEAN, lines : {st.lines}]
        /\ ~new.skips /\ ~new.stopped
    BY <1>1, <1>2, <2>3
  <2> QED BY <2>2, <2>4, ByteKeeps
<1>4. CASE ~st.skips /\ file[i] = QUOTE
  <2>1. ~EndsLine(st.start, i)
    BY <1>4 DEF EndsLine, NL, QUOTE
  <2>2. new = ScanQuote(st, i, to)
    BY <1>2, <1>4 DEF ScanStep
  <2>3. /\ new \in [start : {st.start}, inQuote : BOOLEAN, newlines : Nat, skips : BOOLEAN,
                    stopped : BOOLEAN, lines : {st.lines}]
        /\ new.skips => i < to /\ file[i + 1] = QUOTE
        /\ new.stopped => i = to
    <3>1. st \in Scans(from .. i - 1)
      BY <1>1 DEF Scans
    <3>2. CASE ~st.inQuote
      <4>1. PICK x \in BOOLEAN : new = [st EXCEPT !.inQuote = x]
        BY <2>2, <3>2, Zenon DEF ScanQuote
      <4>2. new = [start |-> st.start, inQuote |-> x, newlines |-> st.newlines,
                   skips |-> st.skips, stopped |-> st.stopped, lines |-> st.lines]
        BY <3>1, <4>1, StateSet
      <4> QED BY <1>1, <1>2, <1>4, <4>2
    <3>3. CASE st.inQuote /\ i = to
      <4>1. PICK x \in BOOLEAN : new = [st EXCEPT !.stopped = x]
        BY <2>2, <3>3, Zenon DEF ScanQuote
      <4>2. new = [start |-> st.start, inQuote |-> st.inQuote, newlines |-> st.newlines,
                   skips |-> st.skips, stopped |-> x, lines |-> st.lines]
        BY <3>1, <4>1, StateSet
      <4> QED BY <1>1, <1>2, <1>4, <3>3, <4>2
    <3>4. CASE st.inQuote /\ i # to /\ file[i + 1] = QUOTE
      <4>1. PICK x \in BOOLEAN : new = [st EXCEPT !.skips = x]
        BY <2>2, <3>4, Zenon DEF ScanQuote
      <4>2. new = [start |-> st.start, inQuote |-> st.inQuote, newlines |-> st.newlines,
                   skips |-> x, stopped |-> st.stopped, lines |-> st.lines]
        BY <3>1, <4>1, StateSet
      <4>3. i < to
        BY <3>4
      <4> QED BY <1>1, <1>2, <1>4, <3>4, <4>2, <4>3
    <3>5. CASE st.inQuote /\ i # to /\ file[i + 1] # QUOTE
      <4>1. PICK x \in BOOLEAN : new = [st EXCEPT !.inQuote = x]
        BY <2>2, <3>5, Zenon DEF ScanQuote
      <4>2. new = [start |-> st.start, inQuote |-> x, newlines |-> st.newlines,
                   skips |-> st.skips, stopped |-> st.stopped, lines |-> st.lines]
        BY <3>1, <4>1, StateSet
      <4> QED BY <1>1, <1>2, <1>4, <4>2
    <3> QED BY <3>2, <3>3, <3>4, <3>5
  <2> QED BY <2>1, <2>3, ByteKeeps
<1>5. CASE ~st.skips /\ file[i] # QUOTE
  <2>1. new = ScanByte(st, i)
    BY <1>2, <1>5 DEF ScanStep
  <2>2. i \in Nat /\ IsFull(st, i) = (i - st.start >= MaxLineBytes)
    BY DEF IsFull
  <2>3. CASE (file[i] = NL /\ (~st.inQuote \/ st.newlines + (IF st.inQuote THEN 1 ELSE 0) > MaxQuotedNewlines))
             \/ IsFull(st, i)
    <3>1. EndsLine(st.start, i)
      BY <1>5, <2>2, <2>3 DEF EndsLine
    <3>2. new = CutAt(st, i)
      BY <2>1, <2>3 DEF ScanByte
    <3> QED BY <1>2, <1>5, <3>1, <3>2, CutKeeps
  <2>4. CASE ~((file[i] = NL /\ (~st.inQuote \/ st.newlines + (IF st.inQuote THEN 1 ELSE 0) > MaxQuotedNewlines))
               \/ IsFull(st, i))
    <3>1. ASSUME MaxQuotedNewlines = 0 PROVE ~EndsLine(st.start, i)
      <4>1. st.inQuote => st.newlines + 1 > MaxQuotedNewlines
        BY <1>1, <3>1
      <4> QED BY <1>1, <2>2, <2>4, <4>1 DEF EndsLine
    <3>2. new = IF file[i] = NL THEN [st EXCEPT !.newlines = st.newlines + (IF st.inQuote THEN 1 ELSE 0)] ELSE st
      BY <2>1, <2>4 DEF ScanByte
    <3>3. /\ new \in [start : {st.start}, inQuote : BOOLEAN, newlines : Nat, skips : BOOLEAN,
                      stopped : BOOLEAN, lines : {st.lines}]
          /\ ~new.skips /\ ~new.stopped
      <4>1. st.newlines + (IF st.inQuote THEN 1 ELSE 0) \in Nat
        BY <1>1
      <4>2. PICK x \in Nat : x = st.newlines + (IF st.inQuote THEN 1 ELSE 0)
        BY <4>1
      <4>3. new = [st EXCEPT !.newlines = x] \/ new = st
        BY <3>2, <4>2
      <4>4. [st EXCEPT !.newlines = x] = [start |-> st.start, inQuote |-> st.inQuote, newlines |-> x,
                   skips |-> st.skips, stopped |-> st.stopped, lines |-> st.lines]
        BY <1>1, StateSet DEF Scans
      <4>5. st = [start |-> st.start, inQuote |-> st.inQuote, newlines |-> st.newlines,
                   skips |-> st.skips, stopped |-> st.stopped, lines |-> st.lines]
        BY <1>1
      <4> QED BY <1>1, <1>2, <1>5, <4>3, <4>4, <4>5
    <3> QED BY <3>1, <3>3, ByteKeeps
  <2> QED BY <2>3, <2>4
<1> QED BY <1>3, <1>4, <1>5

\* The function of ScanLines exists, and all its values are states of a scan.
IsScan(scan, from, quoted, last, to) ==
  scan = [i \in from .. last |-> IF i = from THEN Fresh(from, quoted) ELSE ScanStep(scan[i - 1], i, to)]

LEMMA ScanExtends ==
  ASSUME NEW from \in Nat, NEW to, NEW quoted, NEW last \in Nat, from <= last,
         NEW scan, IsScan(scan, from, quoted, last, to)
  PROVE  \E more : IsScan(more, from, quoted, last + 1, to)
<1> DEFINE more == [i \in from .. last + 1 |-> IF i \in from .. last THEN scan[i] ELSE ScanStep(scan[last], i, to)]
<1>1. ASSUME NEW i \in from .. last + 1
      PROVE  more[i] = IF i = from THEN Fresh(from, quoted) ELSE ScanStep(more[i - 1], i, to)
  <2>1. CASE i \in from .. last
    <3>1. scan[i] = IF i = from THEN Fresh(from, quoted) ELSE ScanStep(scan[i - 1], i, to)
      BY <2>1 DEF IsScan
    <3>2. i # from => i - 1 \in from .. last /\ i - 1 \in from .. last + 1
      BY <2>1
    <3> QED BY <2>1, <3>1, <3>2
  <2>2. CASE i \notin from .. last
    <3>1. i = last + 1 /\ i - 1 = last /\ i # from /\ last \in from .. last /\ last \in from .. last + 1
      BY <2>2
    <3> QED BY <2>2, <3>1
  <2> QED BY <2>1, <2>2
<1>2. more = [i \in from .. last + 1 |-> more[i]]
  OBVIOUS
<1> HIDE DEF more
<1>3. IsScan(more, from, quoted, last + 1, to)
  BY <1>1, <1>2, Zenon DEF IsScan
<1> QED BY <1>3

LEMMA ScanExists ==
  ASSUME NEW from \in Nat, NEW to \in Nat, NEW quoted, from <= to
  PROVE  \E scan : IsScan(scan, from, quoted, to, to)
<1> DEFINE S == {n \in Nat : \E scan : IsScan(scan, from, quoted, from + n, to)}
<1>1. 0 \in S
  <2>1. PICK scan : scan = [i \in from .. from |-> Fresh(from, quoted)]
    OBVIOUS
  <2>2. scan = [i \in from .. from + 0 |-> IF i = from THEN Fresh(from, quoted) ELSE ScanStep(scan[i - 1], i, to)]
    BY <2>1
  <2> QED BY <2>2 DEF IsScan
<1>2. ASSUME NEW n \in Nat, n \in S PROVE n + 1 \in S
  <2>1. PICK scan : IsScan(scan, from, quoted, from + n, to)
    BY <1>2
  <2>2. \E more : IsScan(more, from, quoted, (from + n) + 1, to)
    BY <2>1, ScanExtends
  <2>3. (from + n) + 1 = from + (n + 1)
    OBVIOUS
  <2> QED BY <2>2, <2>3
<1>3. to - from \in S
  <2> HIDE DEF S
  <2>1. Nat \subseteq S
    BY <1>1, <1>2, Induction
  <2> QED BY <2>1
<1>4. from + (to - from) = to
  OBVIOUS
<1> QED BY <1>3, <1>4

LEMMA ScanIsOk ==
  ASSUME ByteLinesAssumption, NEW from \in Nat, NEW to \in Nat, from <= to, to <= Len(file), Len(file) \in Nat,
         NEW quoted \in BOOLEAN
  PROVE  ScanOk(ScanLines(from, to, quoted), to, from, to)
<1> DEFINE scan == CHOOSE f : IsScan(f, from, quoted, to, to)
<1>1. IsScan(scan, from, quoted, to, to)
  BY ScanExists
<1>2. ScanLines(from, to, quoted) = scan[to]
  BY DEF ScanLines, IsScan
<1> HIDE DEF scan
<1>3. \A i \in from .. to : scan[i] = IF i = from THEN Fresh(from, quoted) ELSE ScanStep(scan[i - 1], i, to)
  BY <1>1 DEF IsScan
<1> DEFINE S == {n \in Nat : from + n <= to => ScanOk(scan[from + n], from + n, from, to)}
<1>4. 0 \in S
  BY <1>3, ScanStarts
<1>5. ASSUME NEW n \in Nat, n \in S PROVE n + 1 \in S
  <2>1. CASE from + (n + 1) <= to
    <3>1. PICK i : i = from + (n + 1)
      OBVIOUS
    <3>2. i \in from + 1 .. to /\ i \in from .. to /\ i # from /\ i - 1 = from + n
      BY <2>1, <3>1
    <3>3. ScanOk(scan[i - 1], i - 1, from, to)
      BY <1>5, <3>2
    <3>4. scan[i] = ScanStep(scan[i - 1], i, to)
      BY <1>3, <3>2
    <3>5. ScanOk(scan[i], i, from, to)
      BY <3>2, <3>3, <3>4, StepKeeps
    <3> QED BY <3>1, <3>5
  <2> QED BY <2>1
<1>6. to - from \in S
  <2> HIDE DEF S
  <2>1. Nat \subseteq S
    BY <1>4, <1>5, Induction
  <2> QED BY <2>1
<1>7. from + (to - from) = to
  OBVIOUS
<1>8. ScanOk(scan[to], to, from, to)
  BY <1>6, <1>7
<1> QED BY <1>2, <1>8
-----------------------------------------------------------------------------
\* The rest of a small file.  Between two of its lines is the white space before "Email:".
EmailCut(line, next) == IsEmail(next.offset + 1) /\ next.offset = End(line) + 1

RestOk(lines, from) ==
  /\ lines \in Seq(Lines)
  /\ lines = <<>> => from = Len(file)
  /\ lines # <<>> => lines[1].offset = from /\ End(lines[Len(lines)]) = Len(file)
  /\ \A k \in 1 .. Len(lines) - 1 : EmailCut(lines[k], lines[k + 1])

LEMMA StartsAreFinite ==
  ASSUME NEW from \in Nat, from < Len(file), Len(file) \in Nat
  PROVE  /\ IsFiniteSet(Starts(from)) /\ Starts(from) \subseteq from .. Len(file) - 1 /\ from \in Starts(from)
         /\ \A s \in Starts(from) : s # from => IsEmail(s + 1)
<1>1. ASSUME NEW s \in Starts(from) PROVE s \in from .. Len(file) - 1 /\ (s # from => IsEmail(s + 1))
  <2>1. s = from \/ (s \in from + 1 .. Len(file) - 2 /\ IsEmail(s + 1))
    BY DEF Starts
  <2>2. s \in from + 1 .. Len(file) - 2 => s \in from .. Len(file) - 1
    OBVIOUS
  <2>3. from \in from .. Len(file) - 1
    OBVIOUS
  <2> QED BY <2>1, <2>2, <2>3
<1>2. IsFiniteSet(from .. Len(file) - 1)
  BY FS_Interval
<1>3. IsFiniteSet(Starts(from))
  <2>1. Starts(from) \in SUBSET (from .. Len(file) - 1)
    BY <1>1
  <2> QED BY <1>2, <2>1, FS_Subset
<1> QED BY <1>1, <1>3 DEF Starts

\* The lines are those of the starts, in the order of their ranks.
LEMMA StartOfRank ==
  ASSUME NEW S, S \subseteq Nat, IsFiniteSet(S), NEW n \in 0 .. Cardinality(S) - 1
  PROVE  \E s \in S :
           /\ Rank(S, s) = n
           /\ \A t \in S : t < s <=> Rank(S, t) < n
           /\ RestLine(S, n) = Line(s, EndOf(S, s))
<1> DEFINE s == CHOOSE x \in S : Cardinality({t \in S : t < x}) = n
<1>1. \E x \in S : Cardinality({t \in S : t < x}) = n
  BY RanksAreAll DEF Rank
<1>2. s \in S /\ Rank(S, s) = n
  BY <1>1 DEF Rank
<1>3. RestLine(S, n) = Line(s, EndOf(S, s))
  BY DEF RestLine
<1> HIDE DEF s
<1>4. ASSUME NEW t \in S PROVE t < s <=> Rank(S, t) < n
  <2>1. t \in Nat /\ s \in Nat /\ n \in Nat
    BY <1>2, FS_CardinalityType
  <2>2. CASE t < s
    BY <1>2, <2>1, <2>2, RankGrows
  <2>3. CASE s < t
    <3>1. Rank(S, s) < Rank(S, t) /\ Rank(S, t) \in Nat
      BY <1>2, <2>1, <2>3, RankGrows
    <3> QED BY <1>2, <2>1, <2>3, <3>1
  <2>4. CASE s = t
    BY <1>2, <2>1, <2>4
  <2> QED BY <2>1, <2>2, <2>3, <2>4
<1> QED BY <1>2, <1>3, <1>4

LEMMA RankBelowCardinality ==
  ASSUME NEW S, S \subseteq Nat, IsFiniteSet(S), NEW s \in S
  PROVE  Rank(S, s) \in 0 .. Cardinality(S) - 1
<1>1. {m \in S : m < s} \in SUBSET S /\ {m \in S : m < s} # S
  OBVIOUS
<1>2. Rank(S, s) <= Cardinality(S) /\ Rank(S, s) # Cardinality(S)
  BY <1>1, FS_Subset DEF Rank
<1>3. Rank(S, s) \in Nat /\ Cardinality(S) \in Nat
  BY <1>1, FS_Subset, FS_CardinalityType DEF Rank
<1> QED BY <1>2, <1>3

LEMMA RestLinesFollow ==
  ASSUME NEW from \in Nat, from < Len(file), Len(file) \in Nat,
         NEW n \in 0 .. Cardinality(Starts(from)) - 1
  PROVE  /\ RestLine(Starts(from), n) \in Lines
         /\ n = 0 => RestLine(Starts(from), n).offset = from
         /\ n = Cardinality(Starts(from)) - 1 => End(RestLine(Starts(from), n)) = Len(file)
         /\ n # Cardinality(Starts(from)) - 1 => EmailCut(RestLine(Starts(from), n), RestLine(Starts(from), n + 1))
<1> DEFINE S == Starts(from)
<1>1. /\ IsFiniteSet(S) /\ S \subseteq Nat /\ from \in S
      /\ \A t \in S : t \in Nat /\ from <= t /\ t < Len(file) /\ (t # from => IsEmail(t + 1))
  BY StartsAreFinite
<1>2. Cardinality(S) \in Nat /\ n \in Nat /\ n \in 0 .. Cardinality(S) - 1
  BY <1>1, FS_CardinalityType
<1> HIDE DEF S
<1>3. PICK s \in S :
           /\ Rank(S, s) = n
           /\ \A t \in S : t < s <=> Rank(S, t) < n
           /\ RestLine(S, n) = Line(s, EndOf(S, s))
  BY <1>1, <1>2, StartOfRank
<1> DEFINE later == {t \in S : t > s}
<1>4. n = 0 => s = from
  <2>1. n = 0 => ~(from < s)
    <3>1. Rank(S, from) \in 0 .. Cardinality(S) - 1
      BY <1>1, RankBelowCardinality
    <3>2. ~(Rank(S, from) < 0)
      BY <1>2, <3>1
    <3> QED BY <1>1, <1>3, <3>2
  <2> QED BY <1>1, <1>3, <2>1
<1>5. CASE n = Cardinality(S) - 1
  <2>1. ASSUME NEW t \in later PROVE FALSE
    <3>1. Rank(S, s) < Rank(S, t)
      BY <1>1, RankGrows
    <3>2. Rank(S, t) \in 0 .. Cardinality(S) - 1
      BY <1>1, RankBelowCardinality
    <3> QED BY <1>2, <1>3, <1>5, <3>1, <3>2
  <2>2. RestLine(S, n) = Line(s, Len(file))
    <3>1. later = {}
      BY <2>1
    <3> QED BY <3>1, <1>3 DEF EndOf
  <2> QED BY <1>1, <1>3, <1>4, <1>5, <2>2, LineOfBytes DEF S
<1>6. CASE n # Cardinality(S) - 1
  <2>1. n + 1 \in 0 .. Cardinality(S) - 1
    BY <1>2, <1>6 DEF S
  <2>2. PICK next \in S :
           /\ Rank(S, next) = n + 1
           /\ \A t \in S : t < next <=> Rank(S, t) < n + 1
           /\ RestLine(S, n + 1) = Line(next, EndOf(S, next))
    BY <1>1, <2>1, StartOfRank
  <2>3. s < next
    BY <1>2, <1>3, <2>2
  <2>4. ASSUME NEW t \in later PROVE next <= t
    <3>1. Rank(S, s) < Rank(S, t) /\ Rank(S, t) \in Nat
      BY <1>1, RankGrows
    <3>2. ~(Rank(S, t) < n + 1)
      BY <1>2, <1>3, <3>1
    <3> QED BY <1>1, <2>2, <3>2
  <2>5. (CHOOSE t \in later : \A u \in later : t <= u) = next
    <3>1. next \in later /\ \A u \in later : next <= u
      BY <2>3, <2>4
    <3>2. \A t \in later : (\A u \in later : t <= u) => t = next
      <4>1. ASSUME NEW t \in later, \A u \in later : t <= u PROVE t = next
        BY <1>1, <2>2, <3>1, <4>1
      <4> QED BY <4>1
    <3> QED BY <3>1, <3>2
  <2>6. RestLine(S, n) = Line(s, next - 1)
    <3>1. later # {}
      BY <2>3
    <3> QED BY <1>3, <2>5, <3>1 DEF EndOf
  <2>7. /\ RestLine(S, n) \in Lines /\ RestLine(S, n).offset = s /\ End(RestLine(S, n)) = next - 1
    BY <1>1, <2>3, <2>6, LineOfBytes
  <2>8. RestLine(S, n + 1).offset = next
    BY <2>2 DEF Line
  <2>9. IsEmail(next + 1) /\ next = (next - 1) + 1
    BY <1>1, <2>3
  <2>10. EmailCut(RestLine(S, n), RestLine(S, n + 1))
    BY <2>7, <2>8, <2>9 DEF EmailCut
  <2> QED BY <1>4, <1>6, <2>7, <2>10 DEF S
<1> QED BY <1>5, <1>6 DEF S

LEMMA RestIsOk ==
  ASSUME NEW from \in Nat, from <= Len(file), Len(file) \in Nat
  PROVE  RestOk(Rest(from), from)
<1>1. CASE from = Len(file)
  <2>1. Rest(from) = <<>>
    BY <1>1 DEF Rest
  <2> QED BY <1>1, <2>1 DEF RestOk
<1>2. CASE from # Len(file) /\ Cardinality({i \in from + 1 .. Len(file) : IsEmail(i)}) > 1
  <2> DEFINE c == Cardinality(Starts(from))
             lines == [k \in 1 .. c |-> RestLine(Starts(from), k - 1)]
  <2>1. Rest(from) = lines
    BY <1>2 DEF Rest
  <2>2. c \in Nat /\ c # 0
    BY <1>2, StartsAreFinite, FS_CardinalityType, FS_EmptySet
  <2> HIDE DEF c
  <2>3. ASSUME NEW k \in 1 .. c
        PROVE  /\ RestLine(Starts(from), k - 1) \in Lines
               /\ k = 1 => RestLine(Starts(from), k - 1).offset = from
               /\ k = c => End(RestLine(Starts(from), k - 1)) = Len(file)
               /\ k # c => EmailCut(RestLine(Starts(from), k - 1), RestLine(Starts(from), k))
    <3>1. k - 1 \in 0 .. c - 1 /\ (k - 1) + 1 = k /\ (k = 1 <=> k - 1 = 0) /\ (k = c <=> k - 1 = c - 1)
      BY <2>2
    <3>2. from < Len(file)
      BY <1>2
    <3> QED BY <3>1, <3>2, RestLinesFollow DEF c
  <2>4. lines \in Seq(Lines) /\ Len(lines) = c
    <3>1. \A k \in 1 .. c : RestLine(Starts(from), k - 1) \in Lines
      BY <2>3
    <3>2. lines \in [1 .. c -> Lines]
      BY <3>1
    <3> QED BY <2>2, <3>2
  <2>5. lines[1].offset = from /\ End(lines[c]) = Len(file)
    BY <2>2, <2>3
  <2>6. ASSUME NEW k \in 1 .. c - 1 PROVE EmailCut(lines[k], lines[k + 1])
    <3>1. k \in 1 .. c /\ k + 1 \in 1 .. c /\ (k + 1) - 1 = k /\ k # c
      BY <2>2
    <3> QED BY <2>3, <3>1
  <2>7. lines # <<>>
    BY <2>2, <2>4
  <2> HIDE DEF lines
  <2> QED BY <2>1, <2>4, <2>5, <2>6, <2>7 DEF RestOk
<1>3. CASE from # Len(file) /\ ~(Cardinality({i \in from + 1 .. Len(file) : IsEmail(i)}) > 1)
  <2>1. Rest(from) = <<Line(from, Len(file))>>
    BY <1>3 DEF Rest
  <2>2. Line(from, Len(file)) \in Lines /\ Line(from, Len(file)).offset = from /\ End(Line(from, Len(file))) = Len(file)
    BY LineOfBytes
  <2> QED BY <2>1, <2>2 DEF RestOk
<1> QED BY <1>1, <1>2, <1>3
-----------------------------------------------------------------------------
\* Between lines of a small file that were cut before "Email:" is one byte of white space.
Follows(line, next) == next.offset = End(line) \/ EmailCut(line, next)

\* All the bytes of the object are in its lines, in their order, but for that white space.
Complete(lines) ==
  /\ Len(file) > 0 => lines # <<>>
  /\ lines # <<>> => lines[1].offset = 0 /\ End(lines[Len(lines)]) = Len(file)
  /\ \A k \in 1 .. Len(lines) - 1 : Follows(lines[k], lines[k + 1])

AllBytes == Complete(out)

\* Each line ends where the text says.
AsWritten(lines) ==
  /\ \A k \in 1 .. Len(lines) - 1 :
       (lines[k + 1].offset = End(lines[k]) /\ End(lines[k]) = LineEnd(lines[k].offset))
         \/ EmailCut(lines[k], lines[k + 1])
  /\ (lines # <<>> /\ Len(file) > SmallFile) => LineEnd(lines[Len(lines)].offset) = Len(file)

\* What is yielded and carried over while an object is read.
LinesInv ==
  /\ file \in Seq(STRING) /\ inQuote \in BOOLEAN /\ fetched \in 0 .. Len(file) /\ carried \in 0 .. fetched
  /\ at \in {"open", "small", "range", "end", "done"}
  /\ at \in {"open", "small"} => fetched = 0 /\ out = <<>> /\ ~inQuote
  /\ at = "small" => Len(file) <= SmallFile
  /\ at \in {"range", "end"} =>
       /\ Tiles(out, 0, carried) /\ Len(file) > SmallFile
       /\ MaxQuotedNewlines = 0 => AreLines(out) /\ NoEnd(carried, fetched)
  /\ at = "end" => fetched = Len(file)
  /\ at = "done" => AllBytes /\ (MaxQuotedNewlines = 0 => AsWritten(out))

LEMMA EndOfLine ==
  ASSUME NEW s \in Nat, NEW e, IsLine(s, e), Len(file) \in Nat
  PROVE  LineEnd(s) = e
<1> DEFINE ends == {i \in s + 1 .. Len(file) : file[i] = NL \/ (i - s >= MaxLineBytes /\ file[i] # QUOTE)}
<1>1. e \in ends /\ \A j \in ends : e <= j
  <2>1. ASSUME NEW j \in ends, j < e PROVE FALSE
    <3>1. EndsLine(s, j) /\ j \in s + 1 .. e - 1
      BY <2>1 DEF EndsLine, IsLine
    <3> QED BY <3>1 DEF IsLine, NoEnd
  <2>2. e \in ends
    BY DEF IsLine, EndsLine
  <2> QED BY <2>1, <2>2
<1>2. \A i \in ends : (\A j \in ends : i <= j) => i = e
  <2>1. ASSUME NEW i \in ends, \A j \in ends : i <= j PROVE i = e
    BY <1>1, <2>1
  <2> QED BY <2>1
<1>3. LineEnd(s) = IF ends = {} THEN Len(file) ELSE CHOOSE i \in ends : \A j \in ends : i <= j
  BY DEF LineEnd
<1> HIDE DEF ends
<1> QED BY <1>1, <1>2, <1>3

LEMMA NoEndOfLine ==
  ASSUME NEW s \in Nat, NoEnd(s, Len(file)), Len(file) \in Nat
  PROVE  LineEnd(s) = Len(file)
BY DEF LineEnd, NoEnd, EndsLine

LEMMA LineEndsAtItsEnd ==
  ASSUME NEW lines \in Seq(Lines), AreLines(lines), Len(file) \in Nat, NEW k \in 1 .. Len(lines)
  PROVE  LineEnd(lines[k].offset) = End(lines[k])
<1>1. lines[k] \in Lines /\ IsLine(lines[k].offset, End(lines[k]))
  BY DEF AreLines
<1>2. lines[k].offset \in Nat
  BY <1>1 DEF Lines
<1> QED BY <1>1, <1>2, EndOfLine

LEMMA SameText ==
  ASSUME file' = file, NEW lines, out' = lines, Complete(lines), MaxQuotedNewlines = 0 => AsWritten(lines)
  PROVE  AllBytes' /\ (MaxQuotedNewlines = 0 => AsWritten(out))'
<1>1. \A s : LineEnd(s)' = LineEnd(s)
  BY DEF LineEnd
<1>2. AllBytes'
  BY DEF AllBytes, Complete, Follows, EmailCut, IsEmail, End
<1>3. AsWritten(lines) => AsWritten(out)'
  BY <1>1 DEF AsWritten, EmailCut, IsEmail, End
<1> QED BY <1>2, <1>3

LEMMA TilesAreDone ==
  ASSUME file' = file, Len(file) \in Nat, NEW lines, out' = lines, Tiles(lines, 0, Len(file)),
         MaxQuotedNewlines = 0 => \A k \in 1 .. Len(lines) : LineEnd(lines[k].offset) = End(lines[k])
  PROVE  AllBytes' /\ (MaxQuotedNewlines = 0 => AsWritten(out))'
<1>1. lines \in Seq(Lines) /\ Len(lines) \in Nat
  BY DEF Tiles
<1>2. Complete(lines)
  BY <1>1 DEF Complete, Tiles, Follows
<1>3. ASSUME MaxQuotedNewlines = 0 PROVE AsWritten(lines)
  <2>1. \A k \in 1 .. Len(lines) - 1 : k \in 1 .. Len(lines)
    BY <1>1
  <2>2. lines # <<>> => Len(lines) \in 1 .. Len(lines)
    BY <1>1
  <2> QED BY <1>3, <2>1, <2>2 DEF AsWritten, Tiles
<1> QED BY <1>2, <1>3, SameText

\* The bytes of a large object, all received, with what is left of them as its last line.
LEMMA RangesAreDone ==
  ASSUME LinesInv, YieldsRest
  PROVE  AllBytes' /\ (MaxQuotedNewlines = 0 => AsWritten(out))'
<1>1. /\ file' = file /\ fetched = Len(file) /\ Len(file) \in Nat
      /\ carried \in Nat /\ carried <= Len(file)
      /\ Tiles(out, 0, carried) /\ Len(file) > SmallFile
      /\ MaxQuotedNewlines = 0 => AreLines(out) /\ NoEnd(carried, Len(file))
  BY DEF LinesInv, YieldsRest
<1>2. PICK lines : lines = out'
  OBVIOUS
<1>3. CASE carried < Len(file)
  <2>1. lines = Append(out, Line(carried, Len(file)))
    BY <1>2, <1>3 DEF YieldsRest
  <2>2. Tiles(lines, 0, Len(file))
    BY <1>1, <2>1, TilesAppend
  <2>3. Line(carried, Len(file)) \in Lines
        /\ Line(carried, Len(file)).offset = carried /\ End(Line(carried, Len(file))) = Len(file)
    BY <1>1, LineOfBytes
  <2>4. out \in Seq(Lines)
    BY <1>1 DEF Tiles
  <2>5. ASSUME MaxQuotedNewlines = 0, NEW k \in 1 .. Len(lines) PROVE LineEnd(lines[k].offset) = End(lines[k])
    <3>1. lines[k] = Line(carried, Len(file)) \/ (k \in 1 .. Len(out) /\ lines[k] = out[k])
      BY <2>1, <2>3, <2>4
    <3>2. CASE lines[k] = Line(carried, Len(file))
      BY <1>1, <2>3, <2>5, <3>2, NoEndOfLine
    <3>3. CASE k \in 1 .. Len(out) /\ lines[k] = out[k]
      BY <1>1, <2>4, <2>5, <3>3, LineEndsAtItsEnd
    <3> QED BY <3>1, <3>2, <3>3
  <2> QED BY <1>1, <1>2, <2>2, <2>5, TilesAreDone
<1>4. CASE ~(carried < Len(file))
  <2>1. lines = out /\ carried = Len(file)
    BY <1>1, <1>2, <1>4 DEF YieldsRest
  <2>2. Tiles(lines, 0, Len(file)) /\ lines \in Seq(Lines)
    BY <1>1, <2>1 DEF Tiles
  <2>3. ASSUME MaxQuotedNewlines = 0, NEW k \in 1 .. Len(lines) PROVE LineEnd(lines[k].offset) = End(lines[k])
    BY <1>1, <2>1, <2>2, <2>3, LineEndsAtItsEnd
  <2> QED BY <1>1, <1>2, <2>2, <2>3, TilesAreDone
<1> QED BY <1>3, <1>4

LEMMA SmallIsDone ==
  ASSUME ByteLinesAssumption, LinesInv, ReadsWhole
  PROVE  AllBytes' /\ (MaxQuotedNewlines = 0 => AsWritten(out))'
<1> DEFINE scan == ScanLines(0, Len(file), FALSE)
           rest == Rest(scan.start)
           all == scan.lines \o rest
<1>1. out' = all /\ file' = file /\ Len(file) \in Nat /\ Len(file) <= SmallFile
  BY DEF ReadsWhole, LinesInv
<1>2. ScanOk(scan, Len(file), 0, Len(file))
  <2>1. 0 \in Nat /\ 0 <= Len(file) /\ Len(file) <= Len(file) /\ FALSE \in BOOLEAN
    BY <1>1
  <2> QED BY <1>1, <2>1, ScanIsOk
<1> HIDE DEF scan
<1>3. /\ Tiles(scan.lines, 0, scan.start) /\ scan.start \in Nat /\ scan.start <= Len(file)
      /\ MaxQuotedNewlines = 0 => AreLines(scan.lines)
      /\ scan.lines \in Seq(Lines) /\ Len(scan.lines) \in Nat
  BY <1>1, <1>2 DEF ScanOk
<1>4. RestOk(rest, scan.start)
  BY <1>1, <1>3, RestIsOk
<1> HIDE DEF rest
<1>5. rest \in Seq(Lines) /\ Len(rest) \in Nat
  BY <1>4 DEF RestOk
<1> DEFINE a == scan.lines
<1> HIDE DEF a
<1>6. /\ all \in Seq(Lines) /\ Len(all) = Len(a) + Len(rest)
      /\ \A k \in 1 .. Len(all) : all[k] = IF k <= Len(a) THEN a[k] ELSE rest[k - Len(a)]
      /\ a = <<>> <=> Len(a) = 0
      /\ rest = <<>> <=> Len(rest) = 0
      /\ all = <<>> <=> Len(all) = 0
      /\ a \in Seq(Lines) /\ Len(a) \in Nat /\ Tiles(a, 0, scan.start) /\ (MaxQuotedNewlines = 0 => AreLines(a))
  BY <1>3, <1>5 DEF a
<1> HIDE DEF all
<1>7. ASSUME Len(all) # 0 PROVE all[1].offset = 0 /\ End(all[Len(all)]) = Len(file)
  <2>1. 1 \in 1 .. Len(all) /\ Len(all) \in 1 .. Len(all)
    BY <1>5, <1>6, <1>7
  <2>2. all[1].offset = 0
    <3>1. CASE Len(a) = 0
      <4>1. scan.start = 0 /\ all[1] = rest[1] /\ rest # <<>>
        BY <1>5, <1>6, <1>7, <2>1, <3>1 DEF Tiles
      <4> QED BY <1>4, <4>1 DEF RestOk
    <3>2. CASE Len(a) # 0
      <4>1. all[1] = a[1] /\ a # <<>>
        BY <1>5, <1>6, <1>7, <2>1, <3>2
      <4> QED BY <1>6, <4>1 DEF Tiles
    <3> QED BY <3>1, <3>2
  <2>3. End(all[Len(all)]) = Len(file)
    <3>1. CASE Len(rest) = 0
      <4>1. scan.start = Len(file) /\ all[Len(all)] = a[Len(a)] /\ a # <<>>
        BY <1>4, <1>5, <1>6, <1>7, <2>1, <3>1 DEF RestOk
      <4> QED BY <1>6, <4>1 DEF Tiles
    <3>2. CASE Len(rest) # 0
      <4>1. ~(Len(all) <= Len(a)) /\ Len(all) - Len(a) = Len(rest)
        BY <1>5, <1>6, <3>2
      <4>2. all[Len(all)] = rest[Len(rest)] /\ rest # <<>>
        BY <1>6, <2>1, <3>2, <4>1
      <4> QED BY <1>4, <4>2 DEF RestOk
    <3> QED BY <3>1, <3>2
  <2> QED BY <2>2, <2>3
<1>8. Len(file) > 0 => Len(all) # 0
  <2>1. ASSUME Len(all) = 0 PROVE Len(file) = 0
    <3>1. a = <<>> /\ rest = <<>>
      BY <1>5, <1>6, <2>1
    <3> QED BY <1>4, <1>6, <3>1 DEF Tiles, RestOk
  <2> QED BY <2>1
<1>9. ASSUME NEW k \in 1 .. Len(all) - 1
      PROVE  \/ /\ all[k + 1].offset = End(all[k])
                /\ MaxQuotedNewlines = 0 => End(all[k]) = LineEnd(all[k].offset)
             \/ EmailCut(all[k], all[k + 1])
  <2>1. k \in 1 .. Len(all) /\ k + 1 \in 1 .. Len(all) /\ k \in Nat
    BY <1>5, <1>6
  <2>2. ASSUME k <= Len(a), MaxQuotedNewlines = 0 PROVE End(all[k]) = LineEnd(all[k].offset)
    <3>1. all[k] = a[k] /\ k \in 1 .. Len(a)
      BY <1>6, <2>1, <2>2
    <3> QED BY <1>1, <1>6, <2>2, <3>1, LineEndsAtItsEnd
  <2>3. CASE k < Len(a)
    <3>1. all[k] = a[k] /\ all[k + 1] = a[k + 1] /\ k \in 1 .. Len(a) - 1 /\ k <= Len(a)
      BY <1>6, <2>1, <2>3
    <3> QED BY <1>6, <2>2, <3>1 DEF Tiles
  <2>4. CASE k = Len(a)
    <3>1. ~(k + 1 <= Len(a)) /\ (k + 1) - Len(a) = 1 /\ Len(rest) # 0 /\ Len(a) # 0
      BY <1>5, <1>6, <2>1, <2>4
    <3>2. all[k] = a[Len(a)] /\ all[k + 1] = rest[1] /\ a # <<>> /\ rest # <<>>
      BY <1>6, <2>1, <2>4, <3>1
    <3>3. all[k + 1].offset = scan.start /\ End(all[k]) = scan.start
      BY <1>4, <1>6, <3>2 DEF Tiles, RestOk
    <3> QED BY <1>6, <2>2, <2>4, <3>3
  <2>5. CASE k > Len(a)
    <3>1. PICK j : j = k - Len(a)
      OBVIOUS
    <3>2. j \in 1 .. Len(rest) - 1 /\ (k + 1) - Len(a) = j + 1 /\ ~(k <= Len(a)) /\ ~(k + 1 <= Len(a))
      BY <1>5, <1>6, <2>1, <2>5, <3>1
    <3>3. all[k] = rest[j] /\ all[k + 1] = rest[j + 1]
      BY <1>6, <2>1, <3>1, <3>2
    <3> QED BY <1>4, <3>2, <3>3 DEF RestOk
  <2> QED BY <1>6, <2>1, <2>3, <2>4, <2>5
<1>10. Complete(all)
  <2>1. \A k \in 1 .. Len(all) - 1 : Follows(all[k], all[k + 1])
    BY <1>9 DEF Follows
  <2> QED BY <1>6, <1>7, <1>8, <2>1 DEF Complete
<1>11. MaxQuotedNewlines = 0 => AsWritten(all)
  BY <1>1, <1>9, ByteLinesAssumption DEF AsWritten, ByteLinesAssumption
<1> QED BY <1>1, <1>10, <1>11, SameText
-----------------------------------------------------------------------------
LEMMA LinesInit == file \in Seq(STRING) /\ BytesInit => LinesInv
<1> SUFFICES ASSUME file \in Seq(STRING), BytesInit PROVE LinesInv
  OBVIOUS
<1>1. fetched = 0 /\ carried = 0 /\ at = "open" /\ out = <<>> /\ Len(file) \in Nat
  BY DEF BytesInit
<1>2. inQuote \in BOOLEAN /\ ~inQuote
  BY DEF BytesInit
<1>3. fetched \in 0 .. Len(file) /\ carried \in 0 .. fetched
  BY <1>1
<1> QED BY <1>1, <1>2, <1>3 DEF LinesInv

LEMMA OpenKeeps ==
  ASSUME LinesInv, Open, ByteLinesAssumption
  PROVE  LinesInv'
<1>1. /\ UNCHANGED <<file, fetched, carried, inQuote, out>> /\ at = "open"
      /\ at' = IF Len(file) <= SmallFile THEN "small" ELSE "range"
      /\ Len(file) \in Nat
  BY DEF Open, LinesInv
<1>2. Tiles(out, 0, carried)' /\ AreLines(out)' /\ NoEnd(carried, fetched)'
  BY <1>1 DEF LinesInv, Tiles, AreLines, NoEnd
<1>3. at' = "range" => Len(file) > SmallFile
  BY <1>1 DEF ByteLinesAssumption
<1> QED BY <1>1, <1>2, <1>3 DEF LinesInv

LEMMA ReadsRangeKeeps ==
  ASSUME LinesInv, NEW n \in 1 .. ChunkSize, ReadsRange(n), ByteLinesAssumption
  PROVE  LinesInv'
<1>1. PICK scan : scan = ScanLines(carried, fetched + n, inQuote)
  OBVIOUS
<1>2. /\ at = "range" /\ file' = file /\ fetched' = fetched + n /\ fetched + n <= Len(file)
      /\ out' = out \o scan.lines /\ carried' = scan.start /\ inQuote' = scan.inQuote
      /\ at' = IF fetched + n = Len(file) THEN "end" ELSE "range"
  BY <1>1 DEF ReadsRange, Carried
<1>3. /\ file \in Seq(STRING) /\ Len(file) \in Nat /\ inQuote \in BOOLEAN /\ fetched \in Nat /\ n \in Nat
      /\ carried \in Nat /\ carried <= fetched /\ fetched + n \in Nat /\ carried <= fetched + n
      /\ Tiles(out, 0, carried) /\ Len(file) > SmallFile
      /\ MaxQuotedNewlines = 0 => AreLines(out) /\ NoEnd(carried, fetched)
  BY <1>2 DEF LinesInv, ByteLinesAssumption
<1>4. ScanOk(scan, fetched + n, carried, fetched + n)
  BY <1>1, <1>2, <1>3, ScanIsOk
<1>5. /\ Tiles(scan.lines, carried, scan.start)
      /\ scan.start \in carried .. fetched + n /\ scan.inQuote \in BOOLEAN
      /\ MaxQuotedNewlines = 0 => AreLines(scan.lines) /\ NoEnd(scan.start, fetched + n)
      /\ scan.lines \in Seq(Lines) /\ out \in Seq(Lines)
  BY <1>3, <1>4 DEF ScanOk, Tiles
<1>6. PICK lines, start, end : lines = out \o scan.lines /\ start = scan.start /\ end = fetched + n
  OBVIOUS
<1>7. Tiles(lines, 0, start)
  BY <1>3, <1>5, <1>6, TilesJoin
<1>8. MaxQuotedNewlines = 0 => AreLines(lines) /\ NoEnd(start, end)
  BY <1>3, <1>5, <1>6, LinesJoin
<1>9. /\ Tiles(out, 0, carried)'
      /\ (MaxQuotedNewlines = 0 => AreLines(out) /\ NoEnd(carried, fetched))'
  <2>1. out' = lines /\ carried' = start /\ fetched' = end /\ file' = file
    BY <1>2, <1>6
  <2>2. Tiles(out, 0, carried)'
    BY <1>7, <2>1 DEF Tiles, End
  <2>3. \A s, i : NoEnd(s, i)' <=> NoEnd(s, i)
    BY <2>1 DEF NoEnd, EndsLine
  <2>4. \A s, e : IsLine(s, e)' <=> IsLine(s, e)
    BY <2>1, <2>3 DEF IsLine, EndsLine
  <2>5. AreLines(lines) => AreLines(out)'
    BY <2>1, <2>4 DEF AreLines, End
  <2>6. NoEnd(start, end) => NoEnd(carried, fetched)'
    BY <2>1 DEF NoEnd, EndsLine
  <2> QED BY <1>8, <2>2, <2>5, <2>6
<1>10. inQuote' \in BOOLEAN /\ fetched' \in 0 .. Len(file) /\ carried' \in 0 .. fetched'
  BY <1>2, <1>3, <1>5
<1> QED BY <1>2, <1>3, <1>9, <1>10 DEF LinesInv

LEMMA LinesStay == ByteLinesAssumption /\ LinesInv /\ [BytesNext]_byteVars => LinesInv'
<1> SUFFICES ASSUME ByteLinesAssumption, LinesInv, [BytesNext]_byteVars PROVE LinesInv'
  OBVIOUS
<1>1. CASE Open
  BY <1>1, OpenKeeps
<1>2. CASE ReadsWhole
  <2>1. /\ file' = file /\ fetched' = Len(file) /\ carried' = Len(file) /\ at' = "done" /\ inQuote' = inQuote
        /\ Len(file) \in Nat
    BY <1>2 DEF ReadsWhole, LinesInv
  <2>2. AllBytes' /\ (MaxQuotedNewlines = 0 => AsWritten(out))'
    BY <1>2, SmallIsDone
  <2> QED BY <2>1, <2>2 DEF LinesInv
<1>3. CASE YieldsRest
  <2>1. /\ file' = file /\ fetched' = fetched /\ carried' = Len(file) /\ at' = "done" /\ inQuote' = inQuote
        /\ Len(file) \in Nat /\ fetched = Len(file)
    BY <1>3 DEF YieldsRest, LinesInv
  <2>2. AllBytes' /\ (MaxQuotedNewlines = 0 => AsWritten(out))'
    BY <1>3, RangesAreDone
  <2> QED BY <2>1, <2>2 DEF LinesInv
<1>4. CASE \E n \in 1 .. ChunkSize : ReadsRange(n)
  BY <1>4, ReadsRangeKeeps
<1>5. CASE UNCHANGED byteVars
  <2>1. UNCHANGED <<file, fetched, carried, inQuote, out, at>>
    BY <1>5 DEF byteVars
  <2>2. \A s : LineEnd(s)' = LineEnd(s)
    BY <2>1 DEF LineEnd
  <2>3. (AllBytes => AllBytes') /\ (AsWritten(out) => AsWritten(out)')
    BY <2>1, <2>2 DEF AllBytes, Complete, Follows, AsWritten, EmailCut, IsEmail, End
  <2>4. /\ Tiles(out, 0, carried) => Tiles(out, 0, carried)'
        /\ AreLines(out) /\ NoEnd(carried, fetched) => AreLines(out)' /\ NoEnd(carried, fetched)'
    BY <2>1 DEF Tiles, AreLines, NoEnd, IsLine, EndsLine, End
  <2> QED BY <2>1, <2>3, <2>4 DEF LinesInv
<1> QED BY <1>1, <1>2, <1>3, <1>4, <1>5 DEF BytesNext

LEMMA LinesAreKept == BytesSpec => []LinesInv
BY LinesInit, LinesStay, ByteLinesAssumption, PTL DEF BytesSpec

\* streamLines and splitBytesToLines lose no byte and yield none twice: whatever the ranges are
\* and however many newlines a quoted cell may have, the lines of an object that was read are
\* all its bytes in their order, but for the white space before "Email:" in a small file.
THEOREM NoByteIsLost == BytesSpec => [](at = "done" => AllBytes)
<1>1. LinesInv => (at = "done" => AllBytes)
  BY DEF LinesInv
<1> QED BY <1>1, LinesAreKept, PTL

\* streamlines_test.ts: the lines of an object do not depend on the ranges it is read in, whatever
\* their lengths and whichever of them come back short.  Each line starts where the one before
\* it ended, and ends where the text alone says, so that no two ways to read a large object
\* yield other lines.
THEOREM LinesDoNotDependOnRanges == BytesSpec => []ChunksDoNotMatter
<1>1. LinesInv => ChunksDoNotMatter
  <2> SUFFICES ASSUME LinesInv, at = "done", MaxQuotedNewlines = 0 PROVE ChunksDoNotMatter
    BY DEF ChunksDoNotMatter
  <2>1. Complete(out) /\ AsWritten(out)
    BY DEF LinesInv, AllBytes
  <2> QED BY <2>1 DEF ChunksDoNotMatter, Complete, AsWritten, EmailCut, Last
<1> QED BY <1>1, LinesAreKept, PTL
=============================================================================
