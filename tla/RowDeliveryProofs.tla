------------------------- MODULE RowDeliveryProofs -------------------------
(***************************************************************************)
(* Theorems of RowDelivery, for any jobs, number of handlers and copies of *)
(* the load message.  One invariant is about the objects: the merge and    *)
(* the backfill of line numbers keep the rows the parser wrote.  The other *)
(* is about the loads: the table has all the rows of these objects or none.*)
(***************************************************************************)
EXTENDS RowDelivery, FiniteSetTheorems, WellFoundedInduction, TLAPS

\* The library's induction theorems take an operator as a parameter, which the provers cannot
\* instantiate; that < is well-founded on the numbers gives induction over a set of them.
LEMMA LeastOf ==
  ASSUME NEW S, S \subseteq Nat, NEW s \in S
  PROVE  \E n \in S : \A m \in S : n <= m
<1> DEFINE R == OpToRel(<, Nat)
<1>1. IsWellFoundedOn(R, Nat)
  BY NatLessThanWellFounded
<1>2. ASSUME NEW x \in Nat, NEW y \in Nat, x < y PROVE <<x, y>> \in R
  BY <1>2 DEF OpToRel
<1> HIDE DEF R
<1>3. PICK n \in S : \A m \in S : ~ (<<m, n>> \in R)
  <2>1. S # {}
    OBVIOUS
  <2> QED BY <1>1, <2>1, WFMin
<1>4. ASSUME NEW m \in S PROVE n <= m
  <2>1. n \in Nat /\ m \in Nat
    OBVIOUS
  <2>2. ~(m < n)
    BY <1>2, <1>3, <2>1
  <2> QED BY <2>1, <2>2
<1> QED BY <1>4

LEMMA Induction ==
  ASSUME NEW S, 0 \in S, \A n \in Nat : n \in S => n + 1 \in S
  PROVE  Nat \subseteq S
<1>1. SUFFICES ASSUME NEW s \in Nat \ S PROVE FALSE
  OBVIOUS
<1>2. PICK n \in Nat \ S : \A m \in Nat \ S : n <= m
  BY LeastOf
<1>3. n # 0 /\ n - 1 \in Nat
  BY <1>2
<1>4. n - 1 \in S
  BY <1>2, <1>3
<1> QED BY <1>2, <1>3, <1>4

LEMMA GreatestOf ==
  ASSUME NEW n \in Nat, NEW S, S \subseteq 1 .. n, S # {}
  PROVE  Max(S) \in S
<1> DEFINE T == {n - k : k \in S}
<1>1. T \subseteq Nat /\ T # {}
  <2>1. ASSUME NEW k \in S PROVE n - k \in Nat
    <3>1. k \in 1 .. n
      OBVIOUS
    <3> QED BY <3>1
  <2> QED BY <2>1
<1>2. PICK t \in T : \A u \in T : t <= u
  BY <1>1, LeastOf
<1>3. PICK k \in S : t = n - k
  OBVIOUS
<1>4. ASSUME NEW m \in S PROVE k >= m
  <2>1. n - m \in T
    OBVIOUS
  <2>2. n - k <= n - m
    BY <1>2, <1>3, <2>1
  <2> QED BY <2>2
<1> QED BY <1>4 DEF Max

-----------------------------------------------------------------------------
\* A set as a sequence: each element once.
LEMMA Enumeration ==
  ASSUME NEW S, IsFiniteSet(S)
  PROVE  /\ SetToSeq(S) \in Seq(S) /\ DOMAIN SetToSeq(S) = 1 .. Len(SetToSeq(S))
         /\ \A i, k \in DOMAIN SetToSeq(S) : SetToSeq(S)[i] = SetToSeq(S)[k] => i = k
         /\ \A x \in S : \E k \in DOMAIN SetToSeq(S) : SetToSeq(S)[k] = x
<1> DEFINE n == Cardinality(S)
<1>1. n \in Nat /\ \E f : f \in Bijection(1 .. n, S)
  BY FS_CardinalityType DEF ExistsBijection
<1>2. PICK f : f \in Bijection(1 .. n, S)
  BY <1>1
<1>3. f \in [1 .. n -> S] /\ IsInjective(f)
  BY <1>2 DEF Bijection, Injection
<1>4. SetToSeq(S) \in [1 .. n -> S] /\ IsInjective(SetToSeq(S))
  BY <1>3 DEF SetToSeq
<1>5. SetToSeq(S) \in Injection(1 .. n, S)
  BY <1>4 DEF Injection
<1>6. IsFiniteSet(1 .. n)
  BY <1>1, FS_Interval
<1>7. Cardinality(1 .. n) = n
  BY <1>1, FS_Interval
<1>8. SetToSeq(S) \in Surjection(1 .. n, S)
  BY <1>5, <1>6, <1>7, FS_Injection
<1>9. PICK s : s = SetToSeq(S)
  OBVIOUS
<1>10. s \in Seq(S) /\ DOMAIN s = 1 .. Len(s) /\ DOMAIN s = 1 .. n
  BY <1>1, <1>4, <1>9
<1>11. \A i, k \in DOMAIN s : s[i] = s[k] => i = k
  BY <1>4, <1>9 DEF IsInjective
<1>12. \A x \in S : \E k \in DOMAIN s : s[k] = x
  BY <1>8, <1>9, <1>10 DEF Surjection
<1> QED BY <1>9, <1>10, <1>11, <1>12

-----------------------------------------------------------------------------
(***************************************************************************)
(* Sequences of rows.                                                      *)
(***************************************************************************)

\* Each row of the sequences is in one place.
Unlike(seqs) ==
  \A p, q \in DOMAIN seqs : \A i \in DOMAIN seqs[p] : \A k \in DOMAIN seqs[q] :
    SameRow(seqs[p][i], seqs[q][k]) => p = q /\ i = k

\* The rows of the first n sequences.
IsFlat(flat, seqs, n) ==
  /\ flat \in Seq(Rows)
  /\ \A i \in DOMAIN flat : \E k \in 1 .. n : \E m \in DOMAIN seqs[k] : flat[i] = seqs[k][m]
  /\ \A k \in 1 .. n : \A m \in DOMAIN seqs[k] : \E i \in DOMAIN flat : flat[i] = seqs[k][m]
  /\ Unlike(seqs) => \A i, k \in DOMAIN flat : SameRow(flat[i], flat[k]) => i = k

LEMMA FlatAppend ==
  ASSUME NEW seqs \in Seq(Seq(Rows)), NEW n \in Nat, n < Len(seqs), NEW flat, IsFlat(flat, seqs, n)
  PROVE  IsFlat(flat \o seqs[n + 1], seqs, n + 1)
<1>1. PICK last : last = seqs[n + 1]
  OBVIOUS
<1>2. PICK all : all = flat \o last
  OBVIOUS
<1>3. flat \in Seq(Rows) /\ last \in Seq(Rows) /\ Len(flat) \in Nat /\ Len(last) \in Nat
  BY <1>1 DEF IsFlat
<1>4. all \in Seq(Rows) /\ DOMAIN all = 1 .. Len(flat) + Len(last)
  BY <1>2, <1>3
<1>5. DOMAIN flat = 1 .. Len(flat) /\ DOMAIN last = 1 .. Len(last)
  BY <1>3
<1>6. ASSUME NEW i \in DOMAIN all
      PROVE  \/ i \in DOMAIN flat /\ all[i] = flat[i]
             \/ i - Len(flat) \in DOMAIN last /\ all[i] = last[i - Len(flat)]
  BY <1>2, <1>3, <1>4, <1>5
<1>7. /\ \A i \in DOMAIN flat : i \in DOMAIN all /\ all[i] = flat[i]
      /\ \A m \in DOMAIN last : Len(flat) + m \in DOMAIN all /\ all[Len(flat) + m] = last[m]
  BY <1>2, <1>3, <1>4, <1>5
<1>8. 1 .. n + 1 = 1 .. n \cup {n + 1} /\ n + 1 \notin 1 .. n /\ 1 .. n \subseteq DOMAIN seqs /\ n + 1 \in DOMAIN seqs
  OBVIOUS
<1>9. \A i \in DOMAIN flat : \E k \in 1 .. n : \E m \in DOMAIN seqs[k] : flat[i] = seqs[k][m]
  BY DEF IsFlat
<1>10. ASSUME NEW i \in DOMAIN all PROVE \E k \in 1 .. n + 1 : \E m \in DOMAIN seqs[k] : all[i] = seqs[k][m]
  <2>1. CASE i \in DOMAIN flat /\ all[i] = flat[i]
    <3>1. PICK k \in 1 .. n : \E m \in DOMAIN seqs[k] : flat[i] = seqs[k][m]
      BY <2>1, <1>9
    <3>2. k \in 1 .. n + 1
      BY <1>8
    <3> QED BY <2>1, <3>1, <3>2
  <2>2. CASE i - Len(flat) \in DOMAIN last /\ all[i] = last[i - Len(flat)]
    <3>1. PICK m \in DOMAIN last : all[i] = last[m]
      BY <2>2
    <3>2. n + 1 \in 1 .. n + 1 /\ m \in DOMAIN seqs[n + 1] /\ all[i] = seqs[n + 1][m]
      BY <3>1, <1>1, <1>8
    <3> QED BY <3>2
  <2> QED BY <2>1, <2>2, <1>6
<1>11. ASSUME NEW k \in 1 .. n + 1, NEW m \in DOMAIN seqs[k] PROVE \E i \in DOMAIN all : all[i] = seqs[k][m]
  <2>1. CASE k = n + 1
    BY <2>1, <1>1, <1>7
  <2>2. CASE k # n + 1
    <3>1. k \in 1 .. n
      BY <2>2, <1>8
    <3>2. PICK i \in DOMAIN flat : flat[i] = seqs[k][m]
      BY <3>1 DEF IsFlat
    <3> QED BY <3>2, <1>7
  <2> QED BY <2>1, <2>2
<1>12. ASSUME Unlike(seqs), NEW i \in DOMAIN all, NEW k \in DOMAIN all, SameRow(all[i], all[k])
       PROVE  i = k
  <2>1. \A a, b \in DOMAIN flat : SameRow(flat[a], flat[b]) => a = b
    BY <1>12 DEF IsFlat
  <2>2. \A a, b \in DOMAIN last : SameRow(last[a], last[b]) => a = b
    BY <1>1, <1>8, <1>12 DEF Unlike
  <2>3. ASSUME NEW a \in DOMAIN flat, NEW b \in DOMAIN last
        PROVE  ~SameRow(flat[a], last[b]) /\ ~SameRow(last[b], flat[a])
    <3>1. PICK p \in 1 .. n : \E m \in DOMAIN seqs[p] : flat[a] = seqs[p][m]
      BY <1>9
    <3>2. p # n + 1 /\ p \in DOMAIN seqs
      BY <1>8
    <3> QED BY <3>1, <3>2, <1>1, <1>8, <1>12 DEF Unlike
  <2>4. CASE i \in DOMAIN flat /\ all[i] = flat[i] /\ k \in DOMAIN flat /\ all[k] = flat[k]
    BY <2>1, <2>4, <1>12
  <2>5. CASE i - Len(flat) \in DOMAIN last /\ all[i] = last[i - Len(flat)]
             /\ k - Len(flat) \in DOMAIN last /\ all[k] = last[k - Len(flat)]
    <3>1. i - Len(flat) = k - Len(flat)
      BY <2>2, <2>5, <1>12
    <3> QED BY <3>1, <1>3, <1>4
  <2>6. CASE i \in DOMAIN flat /\ all[i] = flat[i] /\ k - Len(flat) \in DOMAIN last /\ all[k] = last[k - Len(flat)]
    BY <2>3, <2>6, <1>12
  <2>7. CASE k \in DOMAIN flat /\ all[k] = flat[k] /\ i - Len(flat) \in DOMAIN last /\ all[i] = last[i - Len(flat)]
    BY <2>3, <2>7, <1>12
  <2> QED BY <2>4, <2>5, <2>6, <2>7, <1>6
<1>13. IsFlat(all, seqs, n + 1)
  BY <1>4, <1>10, <1>11, <1>12 DEF IsFlat
<1> QED BY <1>1, <1>2, <1>13

\* The function of FlattenSeq exists.
IsFlatten(f, seqs, n) == f = [i \in 1 .. n |-> IF i = 1 THEN seqs[i] ELSE f[i - 1] \o seqs[i]]

LEMMA FlattenExtends ==
  ASSUME NEW seqs, NEW n \in Nat, NEW f, IsFlatten(f, seqs, n)
  PROVE  \E more : IsFlatten(more, seqs, n + 1)
<1> DEFINE more == [i \in 1 .. n + 1 |-> IF i \in 1 .. n THEN f[i]
                                         ELSE IF i = 1 THEN seqs[i] ELSE f[i - 1] \o seqs[i]]
<1>1. ASSUME NEW i \in 1 .. n + 1
      PROVE  more[i] = IF i = 1 THEN seqs[i] ELSE more[i - 1] \o seqs[i]
  <2>1. CASE i \in 1 .. n
    <3>1. f[i] = IF i = 1 THEN seqs[i] ELSE f[i - 1] \o seqs[i]
      BY <2>1 DEF IsFlatten
    <3>2. i # 1 => i - 1 \in 1 .. n /\ i - 1 \in 1 .. n + 1
      BY <2>1
    <3> QED BY <2>1, <3>1, <3>2
  <2>2. CASE i \notin 1 .. n
    <3>1. i # 1 => i - 1 \in 1 .. n /\ i - 1 \in 1 .. n + 1
      BY <2>2
    <3> QED BY <2>2, <3>1
  <2> QED BY <2>1, <2>2
<1>2. more = [i \in 1 .. n + 1 |-> more[i]]
  OBVIOUS
<1> HIDE DEF more
<1>3. IsFlatten(more, seqs, n + 1)
  BY <1>1, <1>2, Zenon DEF IsFlatten
<1> QED BY <1>3

LEMMA FlattenExists ==
  ASSUME NEW seqs, NEW n \in Nat
  PROVE  \E f : IsFlatten(f, seqs, n)
<1> DEFINE S == {k \in Nat : \E f : IsFlatten(f, seqs, k)}
<1>1. 0 \in S
  <2>1. PICK f : f = [i \in 1 .. 0 |-> 0]
    OBVIOUS
  <2>2. f = [i \in 1 .. 0 |-> IF i = 1 THEN seqs[i] ELSE f[i - 1] \o seqs[i]]
    BY <2>1
  <2> QED BY <2>2 DEF IsFlatten
<1>2. ASSUME NEW k \in Nat, k \in S PROVE k + 1 \in S
  BY <1>2, FlattenExtends
<1> HIDE DEF S
<1>3. Nat \subseteq S
  BY <1>1, <1>2, Induction
<1>4. n \in S
  BY <1>3
<1> QED BY <1>4 DEF S

LEMMA Flattened ==
  ASSUME NEW seqs \in Seq(Seq(Rows))
  PROVE  IsFlat(FlattenSeq(seqs), seqs, Len(seqs))
<1>1. Len(seqs) \in Nat
  OBVIOUS
<1>2. CASE Len(seqs) = 0
  <2>1. seqs = <<>> /\ FlattenSeq(seqs) = <<>>
    BY <1>2 DEF FlattenSeq
  <2>2. <<>> \in Seq(Rows) /\ DOMAIN <<>> = {} /\ 1 .. 0 = {}
    OBVIOUS
  <2>3. IsFlat(<<>>, seqs, 0)
    BY <2>2 DEF IsFlat
  <2> QED BY <2>1, <2>3, <1>2
<1>3. CASE Len(seqs) # 0
  <2> DEFINE f == CHOOSE g : IsFlatten(g, seqs, Len(seqs))
  <2>1. IsFlatten(f, seqs, Len(seqs))
    BY <1>1, FlattenExists
  <2>2. FlattenSeq(seqs) = f[Len(seqs)]
    BY <1>3 DEF FlattenSeq, IsFlatten
  <2> HIDE DEF f
  <2>3. \A i \in 1 .. Len(seqs) : f[i] = IF i = 1 THEN seqs[i] ELSE f[i - 1] \o seqs[i]
    BY <2>1 DEF IsFlatten
  <2> DEFINE S == {n \in Nat : n < Len(seqs) => IsFlat(f[n + 1], seqs, n + 1)}
  <2>4. 0 \in S
    <3>1. f[1] = seqs[1] /\ seqs[1] \in Seq(Rows) /\ 1 \in DOMAIN seqs /\ 1 .. 1 = {1}
      BY <1>1, <1>3, <2>3
    <3>2. IsFlat(seqs[1], seqs, 1)
      BY <3>1 DEF IsFlat, Unlike
    <3> QED BY <3>1, <3>2
  <2>5. ASSUME NEW n \in Nat, n \in S PROVE n + 1 \in S
    <3>1. SUFFICES ASSUME n + 1 < Len(seqs) PROVE IsFlat(f[(n + 1) + 1], seqs, (n + 1) + 1)
      OBVIOUS
    <3>2. IsFlat(f[n + 1], seqs, n + 1)
      BY <2>5, <3>1, <1>1
    <3>3. f[(n + 1) + 1] = f[n + 1] \o seqs[(n + 1) + 1]
      <4>1. (n + 1) + 1 \in 1 .. Len(seqs) /\ (n + 1) + 1 # 1 /\ ((n + 1) + 1) - 1 = n + 1
        BY <3>1, <1>1
      <4> QED BY <4>1, <2>3
    <3> QED BY <3>1, <3>2, <3>3, FlatAppend
  <2>6. Len(seqs) - 1 \in S
    <3> HIDE DEF S
    <3>1. Nat \subseteq S
      BY <2>4, <2>5, Induction
    <3> QED BY <3>1, <1>1, <1>3
  <2>7. IsFlat(f[Len(seqs)], seqs, Len(seqs))
    <3>1. Len(seqs) - 1 < Len(seqs) /\ (Len(seqs) - 1) + 1 = Len(seqs)
      BY <1>1
    <3> QED BY <2>6, <3>1
  <2> QED BY <2>2, <2>7
<1> QED BY <1>2, <1>3

-----------------------------------------------------------------------------
(***************************************************************************)
(* What finalization keeps: all rows of a job, each once, with its line.   *)
(***************************************************************************)

\* A row as finalization may leave it: it has the line the parser gave it, if any.
CopyOf(r, row) == SameRow(r, row) /\ (row.line # 0 => r.line = row.line)

\* A sequence has the rows of job j, each in one place.
Keeps(rows, j) ==
  /\ rows \in Seq(Rows)
  /\ \A i, k \in DOMAIN rows : SameRow(rows[i], rows[k]) => i = k
  /\ \A i \in DOMAIN rows : \E row \in RowsOfJob(j) : CopyOf(rows[i], row)
  /\ \A row \in RowsOfJob(j) : \E i \in DOMAIN rows : SameRow(rows[i], row)

\* So have the objects of a list of paths.
Contents(objs, list) == [k \in 1 .. Len(list) |-> objs[list[k]]]

Kept(seqs, j) ==
  /\ seqs \in Seq(Seq(Rows)) /\ Unlike(seqs)
  /\ \A p \in DOMAIN seqs : \A i \in DOMAIN seqs[p] : \E row \in RowsOfJob(j) : CopyOf(seqs[p][i], row)
  /\ \A row \in RowsOfJob(j) : \E p \in DOMAIN seqs : \E i \in DOMAIN seqs[p] : SameRow(seqs[p][i], row)

LEMMA JobRow ==
  ASSUME NEW j, JobOk(j), NEW row \in RowsOfJob(j)
  PROVE  row \in Rows /\ \E path \in DOMAIN j.parts : \E i \in DOMAIN j.parts[path] : row = j.parts[path][i]
<1>1. PICK path \in DOMAIN j.parts : row \in ToSet(j.parts[path])
  BY DEF RowsOfJob
<1>2. PICK i \in DOMAIN j.parts[path] : row = j.parts[path][i]
  BY <1>1 DEF ToSet
<1>3. j.parts[path] \in Seq(Rows)
  BY DEF JobOk
<1>4. row \in Rows
  BY <1>2, <1>3
<1> QED BY <1>2, <1>4

LEMMA OneRowPerKey ==
  ASSUME NEW j, JobOk(j), NEW row \in RowsOfJob(j), NEW other \in RowsOfJob(j), SameRow(row, other)
  PROVE  row = other
<1>1. PICK p \in DOMAIN j.parts : \E i \in DOMAIN j.parts[p] : row = j.parts[p][i]
  BY JobRow
<1>2. PICK q \in DOMAIN j.parts : \E k \in DOMAIN j.parts[q] : other = j.parts[q][k]
  BY JobRow
<1>3. PICK i \in DOMAIN j.parts[p] : row = j.parts[p][i]
  BY <1>1
<1>4. PICK k \in DOMAIN j.parts[q] : other = j.parts[q][k]
  BY <1>2
<1>5. p = q /\ i = k
  BY <1>3, <1>4 DEF JobOk
<1> QED BY <1>3, <1>4, <1>5

LEMMA PartsAreKept ==
  ASSUME NEW j, JobOk(j)
  PROVE  /\ SetToSeq(DOMAIN j.parts) \in Seq(DOMAIN j.parts)
         /\ Kept(Contents(j.parts, SetToSeq(DOMAIN j.parts)), j)
<1>1. PICK list : list = SetToSeq(DOMAIN j.parts)
  OBVIOUS
<1>2. IsFiniteSet(DOMAIN j.parts) /\ \A path \in DOMAIN j.parts : j.parts[path] \in Seq(Rows)
  BY DEF JobOk
<1>3. /\ list \in Seq(DOMAIN j.parts) /\ DOMAIN list = 1 .. Len(list)
      /\ \A i, k \in DOMAIN list : list[i] = list[k] => i = k
      /\ \A path \in DOMAIN j.parts : \E k \in DOMAIN list : list[k] = path
  BY <1>1, <1>2, Enumeration
<1>4. PICK seqs : seqs = Contents(j.parts, list)
  OBVIOUS
<1>5. DOMAIN seqs = DOMAIN list /\ Len(list) \in Nat /\ \A k \in DOMAIN list : seqs[k] = j.parts[list[k]] /\ list[k] \in DOMAIN j.parts
  BY <1>3, <1>4 DEF Contents
<1>6. seqs \in Seq(Seq(Rows))
  <2>1. seqs \in [1 .. Len(list) -> Seq(Rows)]
    BY <1>2, <1>3, <1>4, <1>5 DEF Contents
  <2> QED BY <2>1, <1>5
<1>7. Unlike(seqs)
  <2>1. ASSUME NEW p \in DOMAIN seqs, NEW q \in DOMAIN seqs, NEW i \in DOMAIN seqs[p], NEW k \in DOMAIN seqs[q],
               SameRow(seqs[p][i], seqs[q][k])
        PROVE  p = q /\ i = k
    <3>1. list[p] = list[q] /\ i = k
      <4>1. PICK a, b : a = list[p] /\ b = list[q]
        OBVIOUS
      <4>2. /\ a \in DOMAIN j.parts /\ b \in DOMAIN j.parts /\ i \in DOMAIN j.parts[a] /\ k \in DOMAIN j.parts[b]
            /\ SameRow(j.parts[a][i], j.parts[b][k])
        BY <2>1, <4>1, <1>5
      <4>3. a = b /\ i = k
        BY <4>2 DEF JobOk
      <4> QED BY <4>1, <4>3
    <3> QED BY <3>1, <1>3, <1>5
  <2> QED BY <2>1 DEF Unlike
<1>8. ASSUME NEW p \in DOMAIN seqs, NEW i \in DOMAIN seqs[p] PROVE \E row \in RowsOfJob(j) : CopyOf(seqs[p][i], row)
  <2>1. seqs[p][i] \in RowsOfJob(j)
    BY <1>5 DEF RowsOfJob, ToSet
  <2> QED BY <2>1 DEF CopyOf, SameRow
<1>9. ASSUME NEW row \in RowsOfJob(j) PROVE \E p \in DOMAIN seqs : \E i \in DOMAIN seqs[p] : SameRow(seqs[p][i], row)
  <2>1. PICK path \in DOMAIN j.parts : \E i \in DOMAIN j.parts[path] : row = j.parts[path][i]
    BY JobRow
  <2>2. PICK p \in DOMAIN seqs : list[p] = path
    BY <1>3, <1>5
  <2> QED BY <2>1, <2>2, <1>5 DEF SameRow
<1>10. Kept(seqs, j)
  BY <1>6, <1>7, <1>8, <1>9 DEF Kept
<1> QED BY <1>1, <1>3, <1>4, <1>10

LEMMA FlatKeeps ==
  ASSUME NEW j, NEW seqs, Kept(seqs, j)
  PROVE  Keeps(FlattenSeq(seqs), j)
<1>1. PICK flat : flat = FlattenSeq(seqs)
  OBVIOUS
<1>2. seqs \in Seq(Seq(Rows)) /\ Unlike(seqs) /\ DOMAIN seqs = 1 .. Len(seqs)
  BY DEF Kept
<1>3. IsFlat(flat, seqs, Len(seqs))
  BY <1>1, <1>2, Flattened
<1>4. flat \in Seq(Rows) /\ \A i, k \in DOMAIN flat : SameRow(flat[i], flat[k]) => i = k
  BY <1>2, <1>3 DEF IsFlat
<1>5. \A i \in DOMAIN flat : \E k \in DOMAIN seqs : \E m \in DOMAIN seqs[k] : flat[i] = seqs[k][m]
  BY <1>2, <1>3 DEF IsFlat
<1>6. \A k \in DOMAIN seqs : \A m \in DOMAIN seqs[k] : \E i \in DOMAIN flat : flat[i] = seqs[k][m]
  BY <1>2, <1>3 DEF IsFlat
<1>7. \A i \in DOMAIN flat : \E row \in RowsOfJob(j) : CopyOf(flat[i], row)
  BY <1>5 DEF Kept
<1>8. \A row \in RowsOfJob(j) : \E i \in DOMAIN flat : SameRow(flat[i], row)
  BY <1>6 DEF Kept
<1>9. Keeps(flat, j)
  BY <1>4, <1>7, <1>8 DEF Keeps
<1> QED BY <1>1, <1>9

LEMMA OneObjectIsKept ==
  ASSUME NEW j, NEW rows, Keeps(rows, j)
  PROVE  Kept(<<rows>>, j)
<1>1. PICK seqs : seqs = <<rows>>
  OBVIOUS
<1>2. rows \in Seq(Rows)
  BY DEF Keeps
<1>3. seqs \in Seq(Seq(Rows)) /\ DOMAIN seqs = {1} /\ seqs[1] = rows
  BY <1>1, <1>2
<1>4. Unlike(seqs)
  BY <1>3 DEF Unlike, Keeps
<1>5. Kept(seqs, j)
  BY <1>3, <1>4 DEF Kept, Keeps
<1> QED BY <1>1, <1>5

-----------------------------------------------------------------------------
\* The merged object.

LEMMA RowPlaces ==
  ASSUME NEW rows \in Seq(Rows)
  PROVE  /\ DOMAIN rows = 1 .. Len(rows) /\ Len(rows) \in Nat /\ IsFiniteSet(DOMAIN rows)
         /\ \A m \in DOMAIN rows : rows[m] \in Rows /\ rows[m].line \in Nat
<1>1. DOMAIN rows = 1 .. Len(rows) /\ Len(rows) \in Nat
  OBVIOUS
<1>2. IsFiniteSet(1 .. Len(rows))
  BY <1>1, FS_Interval
<1>3. ASSUME NEW m \in DOMAIN rows PROVE rows[m] \in Rows
  OBVIOUS
<1>4. \A r \in Rows : r.line \in Nat
  BY DEF Rows
<1> QED BY <1>1, <1>2, <1>3, <1>4

LEMMA BeforeGrows ==
  ASSUME NEW rows \in Seq(Rows), NEW i \in DOMAIN rows, NEW k \in DOMAIN rows, IsBefore(rows, i, k)
  PROVE  Before(rows, i) < Before(rows, k) /\ Before(rows, i) \in Nat /\ Before(rows, k) \in Nat
<1> DEFINE A == {m \in DOMAIN rows : IsBefore(rows, m, i)}
           B == {m \in DOMAIN rows : IsBefore(rows, m, k)}
<1>1. DOMAIN rows = 1 .. Len(rows) /\ Len(rows) \in Nat /\ \A m \in DOMAIN rows : rows[m].line \in Nat
  BY RowPlaces
<1>2. IsFiniteSet(DOMAIN rows)
  BY RowPlaces
<1>3. IsFiniteSet(A) /\ IsFiniteSet(B)
  BY <1>2, FS_Subset
<1>4. ASSUME NEW m \in A PROVE m \in B
  <2>1. IsBefore(rows, m, i) /\ m \in DOMAIN rows
    OBVIOUS
  <2>2. rows[m].line \in Nat /\ rows[i].line \in Nat /\ rows[k].line \in Nat /\ m \in Nat /\ i \in Nat /\ k \in Nat
    BY <1>1, <2>1
  <2>3. IsBefore(rows, m, k)
    BY <2>1, <2>2 DEF IsBefore
  <2> QED BY <2>1, <2>3
<1>5. i \in B /\ i \notin A
  <2>1. rows[i].line \in Nat /\ i \in Nat
    BY <1>1
  <2> QED BY <2>1 DEF IsBefore
<1>6. A \in SUBSET B /\ A # B
  BY <1>4, <1>5
<1>7. Cardinality(A) <= Cardinality(B) /\ Cardinality(A) # Cardinality(B)
  BY <1>3, <1>6, FS_Subset
<1>8. Cardinality(A) \in Nat /\ Cardinality(B) \in Nat
  BY <1>3, FS_CardinalityType
<1> QED BY <1>7, <1>8 DEF Before

LEMMA BeforeIsOneToOne ==
  ASSUME NEW rows \in Seq(Rows)
  PROVE  /\ \A i, k \in DOMAIN rows : Before(rows, i) = Before(rows, k) => i = k
         /\ \A i \in DOMAIN rows : Before(rows, i) \in 0 .. Len(rows) - 1
         /\ \A n \in 0 .. Len(rows) - 1 : \E i \in DOMAIN rows : Before(rows, i) = n
<1>1. DOMAIN rows = 1 .. Len(rows) /\ Len(rows) \in Nat /\ \A m \in DOMAIN rows : rows[m].line \in Nat
  BY RowPlaces
<1>2. ASSUME NEW i \in DOMAIN rows, NEW k \in DOMAIN rows, i # k PROVE Before(rows, i) # Before(rows, k)
  <2>1. IsBefore(rows, i, k) \/ IsBefore(rows, k, i)
    <3>1. rows[i].line \in Nat /\ rows[k].line \in Nat /\ i \in Nat /\ k \in Nat
      BY <1>1
    <3> QED BY <3>1, <1>2 DEF IsBefore
  <2>2. CASE IsBefore(rows, i, k)
    <3>1. Before(rows, i) < Before(rows, k) /\ Before(rows, i) \in Nat
      BY <2>2, BeforeGrows
    <3> QED BY <3>1
  <2>3. CASE IsBefore(rows, k, i)
    <3>1. Before(rows, k) < Before(rows, i) /\ Before(rows, k) \in Nat
      BY <2>3, BeforeGrows
    <3> QED BY <3>1
  <2> QED BY <2>1, <2>2, <2>3
<1>3. IsFiniteSet(DOMAIN rows)
  BY RowPlaces
<1>4. Cardinality(DOMAIN rows) = Len(rows)
  <2>1. Cardinality(1 .. Len(rows)) = IF 1 > Len(rows) THEN 0 ELSE Len(rows) - 1 + 1
    BY <1>1, FS_Interval
  <2> QED BY <2>1, <1>1
<1>5. ASSUME NEW i \in DOMAIN rows PROVE Before(rows, i) \in 0 .. Len(rows) - 1
  <2> DEFINE A == {m \in DOMAIN rows : IsBefore(rows, m, i)}
  <2>1. i \notin A
    <3>1. rows[i].line \in Nat /\ i \in Nat
      BY <1>1
    <3> QED BY <3>1 DEF IsBefore
  <2>2. A \in SUBSET DOMAIN rows /\ A # DOMAIN rows
    BY <2>1
  <2>3. Cardinality(A) <= Len(rows) /\ Cardinality(A) # Len(rows)
    BY <2>2, <1>3, <1>4, FS_Subset
  <2>4. Cardinality(A) \in Nat
    BY <2>2, <1>3, FS_Subset, FS_CardinalityType
  <2> HIDE DEF A
  <2>5. Cardinality(A) \in 0 .. Len(rows) - 1
    BY <2>3, <2>4, <1>1
  <2> QED BY <2>5 DEF Before, A
<1> DEFINE f == [i \in DOMAIN rows |-> Before(rows, i)]
           K == 0 .. Len(rows) - 1
<1>6. f \in Injection(DOMAIN rows, K)
  <2>1. f \in [DOMAIN rows -> K]
    BY <1>5
  <2>2. \A i, k \in DOMAIN rows : f[i] = f[k] => i = k
    BY <1>2
  <2>3. DOMAIN f = DOMAIN rows
    OBVIOUS
  <2> HIDE DEF f
  <2> QED BY <2>1, <2>2, <2>3 DEF Injection, IsInjective
<1>7. IsFiniteSet(K)
  BY <1>1, FS_Interval
<1>8. Cardinality(K) = Len(rows)
  <2>1. Cardinality(0 .. Len(rows) - 1) = IF 0 > Len(rows) - 1 THEN 0 ELSE (Len(rows) - 1) - 0 + 1
    BY <1>1, FS_Interval
  <2> QED BY <2>1, <1>1
<1>9. f \in Surjection(DOMAIN rows, K)
  BY <1>3, <1>4, <1>6, <1>7, <1>8, FS_Injection
<1>10. \A n \in K : \E i \in DOMAIN rows : f[i] = n
  BY <1>9 DEF Surjection
<1> QED BY <1>2, <1>5, <1>10

LEMMA SortKeeps ==
  ASSUME NEW j, NEW rows, Keeps(rows, j)
  PROVE  Keeps(ByLine(rows), j)
<1>1. rows \in Seq(Rows) /\ DOMAIN rows = 1 .. Len(rows) /\ Len(rows) \in Nat
  BY DEF Keeps
<1>2. PICK from : from = [n \in DOMAIN rows |-> CHOOSE k \in DOMAIN rows : Before(rows, k) = n - 1]
  OBVIOUS
<1>3. PICK sorted : sorted = ByLine(rows)
  OBVIOUS
<1>4. ASSUME NEW n \in DOMAIN rows PROVE from[n] \in DOMAIN rows /\ Before(rows, from[n]) = n - 1
  <2>1. n - 1 \in 0 .. Len(rows) - 1
    BY <1>1
  <2>2. \E k \in DOMAIN rows : Before(rows, k) = n - 1
    BY <2>1, <1>1, BeforeIsOneToOne
  <2> QED BY <2>2, <1>2
<1>5. DOMAIN sorted = DOMAIN rows /\ \A n \in DOMAIN rows : sorted[n] = rows[from[n]]
  BY <1>2, <1>3 DEF ByLine
<1>6. sorted \in Seq(Rows)
  <2>1. sorted \in [1 .. Len(rows) -> Rows]
    <3>1. sorted = [n \in DOMAIN rows |-> sorted[n]]
      BY <1>3 DEF ByLine
    <3>2. \A n \in DOMAIN rows : sorted[n] \in Rows
      BY <1>1, <1>4, <1>5
    <3> QED BY <3>1, <3>2, <1>1
  <2> QED BY <2>1, <1>1
<1>7. ASSUME NEW i \in DOMAIN sorted, NEW k \in DOMAIN sorted, SameRow(sorted[i], sorted[k]) PROVE i = k
  <2>1. from[i] = from[k]
    <3>1. SameRow(rows[from[i]], rows[from[k]]) /\ from[i] \in DOMAIN rows /\ from[k] \in DOMAIN rows
      BY <1>4, <1>5, <1>7
    <3> QED BY <3>1 DEF Keeps
  <2>2. i - 1 = k - 1 /\ i \in Nat /\ k \in Nat
    BY <2>1, <1>1, <1>4, <1>5
  <2> QED BY <2>2
<1>8. \A i \in DOMAIN sorted : \E row \in RowsOfJob(j) : CopyOf(sorted[i], row)
  BY <1>4, <1>5 DEF Keeps
<1>9. ASSUME NEW row \in RowsOfJob(j) PROVE \E i \in DOMAIN sorted : SameRow(sorted[i], row)
  <2>1. PICK k \in DOMAIN rows : SameRow(rows[k], row)
    BY DEF Keeps
  <2>2. Before(rows, k) \in 0 .. Len(rows) - 1
    BY <1>1, BeforeIsOneToOne
  <2>3. PICK n : n = Before(rows, k) + 1
    OBVIOUS
  <2>4. n \in DOMAIN rows /\ n - 1 = Before(rows, k)
    BY <1>1, <2>2, <2>3
  <2>5. from[n] = k
    BY <2>4, <1>1, <1>4, BeforeIsOneToOne
  <2> QED BY <2>1, <2>4, <2>5, <1>5
<1>10. Keeps(sorted, j)
  BY <1>6, <1>7, <1>8, <1>9 DEF Keeps
<1> QED BY <1>3, <1>10

\* A row with another line is the same row.
LEMMA LineSet ==
  ASSUME NEW row \in Rows, NEW n \in Nat
  PROVE  /\ [row EXCEPT !.line = n] \in Rows
         /\ [row EXCEPT !.line = n].offset = row.offset
         /\ [row EXCEPT !.line = n].index = row.index
         /\ [row EXCEPT !.line = n].line = n
BY DEF Rows

LEMMA PlacesKeep ==
  ASSUME NEW j, NEW rows, Keeps(rows, j)
  PROVE  Keeps(PlaceForNone(rows), j)
<1>1. rows \in Seq(Rows) /\ DOMAIN rows = 1 .. Len(rows) /\ Len(rows) \in Nat
  BY DEF Keeps
<1>2. PICK placed : placed = PlaceForNone(rows)
  OBVIOUS
<1>3. placed = [k \in DOMAIN rows |-> IF rows[k].line = 0 THEN [rows[k] EXCEPT !.line = k] ELSE rows[k]]
  BY <1>2 DEF PlaceForNone
<1>4. ASSUME NEW k \in DOMAIN rows
      PROVE  placed[k] \in Rows /\ SameRow(placed[k], rows[k]) /\ (rows[k].line # 0 => placed[k] = rows[k])
  <2>1. rows[k] \in Rows /\ k \in Nat
    BY <1>1
  <2>2. CASE rows[k].line = 0
    <3>1. placed[k] = [rows[k] EXCEPT !.line = k]
      BY <1>3, <2>2
    <3> QED BY <2>1, <2>2, <3>1, LineSet DEF SameRow
  <2>3. CASE rows[k].line # 0
    BY <1>3, <2>1, <2>3 DEF SameRow
  <2> QED BY <2>2, <2>3
<1>5. DOMAIN placed = DOMAIN rows
  BY <1>3
<1>6. placed \in Seq(Rows)
  <2>1. placed = [k \in 1 .. Len(rows) |-> placed[k]] /\ \A k \in 1 .. Len(rows) : placed[k] \in Rows
    BY <1>1, <1>3, <1>4
  <2>2. placed \in [1 .. Len(rows) -> Rows]
    BY <2>1
  <2> QED BY <2>2, <1>1
<1>7. ASSUME NEW i \in DOMAIN placed, NEW k \in DOMAIN placed, SameRow(placed[i], placed[k]) PROVE i = k
  <2>1. SameRow(rows[i], rows[k])
    BY <1>4, <1>5, <1>7 DEF SameRow
  <2> QED BY <2>1, <1>5 DEF Keeps
<1>8. ASSUME NEW i \in DOMAIN placed PROVE \E row \in RowsOfJob(j) : CopyOf(placed[i], row)
  <2>1. PICK row \in RowsOfJob(j) : CopyOf(rows[i], row)
    BY <1>5 DEF Keeps
  <2>2. SameRow(placed[i], row)
    BY <2>1, <1>4, <1>5 DEF CopyOf, SameRow
  <2>3. row.line # 0 => placed[i].line = row.line
    BY <2>1, <1>4, <1>5 DEF CopyOf
  <2> QED BY <2>2, <2>3 DEF CopyOf
<1>9. ASSUME NEW row \in RowsOfJob(j) PROVE \E i \in DOMAIN placed : SameRow(placed[i], row)
  <2>1. PICK k \in DOMAIN rows : SameRow(rows[k], row)
    BY DEF Keeps
  <2> QED BY <2>1, <1>4, <1>5 DEF SameRow
<1>10. Keeps(placed, j)
  BY <1>6, <1>7, <1>8, <1>9 DEF Keeps
<1> QED BY <1>2, <1>10

-----------------------------------------------------------------------------
\* The line numbers that are known: of rows the objects hold, of dead letters and rubbish.
Known(known, j) ==
  /\ known \in Seq(Rows \cup DeadLetters)
  /\ \A k \in DOMAIN known : \/ known[k] \in j.deadLetters
                             \/ \E row \in RowsOfJob(j) : CopyOf(known[k], row)

LEMMA KnownLine ==
  ASSUME NEW j, JobOk(j), NEW known, Known(known, j), NEW offset, \E k \in DOMAIN known : known[k].offset = offset
  PROVE  /\ LineOf(known, offset) \in Nat
         /\ \A row \in RowsOfJob(j) : row.offset = offset /\ row.line # 0 => LineOf(known, offset) = row.line
<1> DEFINE S == {k \in DOMAIN known : known[k].offset = offset}
<1>1. known \in Seq(Rows \cup DeadLetters) /\ DOMAIN known = 1 .. Len(known) /\ Len(known) \in Nat
  BY DEF Known
<1>2. S \subseteq 1 .. Len(known) /\ S # {}
  BY <1>1
<1>3. Max(S) \in S
  BY <1>1, <1>2, GreatestOf
<1>4. PICK last : last \in S /\ last = Max(S)
  BY <1>3
<1>5. LineOf(known, offset) = known[last].line /\ known[last].offset = offset /\ last \in DOMAIN known
  BY <1>4 DEF LineOf
<1>6. known[last].line \in Nat
  <2>1. \A r \in Rows \cup DeadLetters : r.line \in Nat
    BY DEF Rows, DeadLetters
  <2>2. known[last] \in Rows \cup DeadLetters
    BY <1>1, <1>5
  <2> QED BY <2>1, <2>2
<1>7. ASSUME NEW row \in RowsOfJob(j), row.offset = offset, row.line # 0 PROVE known[last].line = row.line
  <2>1. \A other \in RowsOfJob(j) \cup j.deadLetters : row.offset = other.offset => other.line = row.line
    BY <1>7 DEF JobOk
  <2>2. CASE known[last] \in j.deadLetters
    BY <2>1, <2>2, <1>5, <1>7
  <2>3. CASE \E other \in RowsOfJob(j) : CopyOf(known[last], other)
    <3>1. PICK other \in RowsOfJob(j) : CopyOf(known[last], other)
      BY <2>3
    <3>2. other.offset = offset
      BY <3>1, <1>5 DEF CopyOf, SameRow
    <3>3. other.line = row.line
      BY <2>1, <3>2, <1>7
    <3> QED BY <3>1, <3>3, <1>7 DEF CopyOf
  <2> QED BY <2>2, <2>3, <1>5 DEF Known
<1> QED BY <1>5, <1>6, <1>7

LEMMA BackfilledRow ==
  ASSUME NEW j, JobOk(j), NEW known, Known(known, j), NEW r \in Rows
  PROVE  /\ Backfilled(r, known) \in Rows /\ SameRow(Backfilled(r, known), r)
         /\ \A row \in RowsOfJob(j) : CopyOf(r, row) => CopyOf(Backfilled(r, known), row)
<1>1. CASE \E k \in DOMAIN known : known[k].offset = r.offset
  <2>1. PICK line : line = LineOf(known, r.offset)
    OBVIOUS
  <2>2. line \in Nat /\ \A row \in RowsOfJob(j) : row.offset = r.offset /\ row.line # 0 => line = row.line
    BY <1>1, <2>1, KnownLine
  <2>3. PICK new : new = [r EXCEPT !.line = line]
    OBVIOUS
  <2>4. Backfilled(r, known) = new
    BY <1>1, <2>1, <2>3 DEF Backfilled
  <2>5. new \in Rows /\ new.offset = r.offset /\ new.index = r.index /\ new.line = line
    BY <2>2, <2>3, LineSet
  <2> QED BY <2>2, <2>4, <2>5 DEF CopyOf, SameRow
<1>2. CASE ~ \E k \in DOMAIN known : known[k].offset = r.offset
  <2>1. Backfilled(r, known) = r
    BY <1>2 DEF Backfilled
  <2> QED BY <2>1 DEF SameRow
<1> QED BY <1>1, <1>2

\* An object is written again with other line numbers, or left alone.
Rewritten(new, old, known) ==
  new = old \/ new = [k \in DOMAIN old |-> Backfilled(old[k], known)]

LEMMA RewrittenRows ==
  ASSUME NEW j, JobOk(j), NEW known, Known(known, j), NEW old \in Seq(Rows), NEW new, Rewritten(new, old, known)
  PROVE  /\ new \in Seq(Rows) /\ DOMAIN new = DOMAIN old
         /\ \A k \in DOMAIN old : /\ SameRow(new[k], old[k])
                                  /\ \A row \in RowsOfJob(j) : CopyOf(old[k], row) => CopyOf(new[k], row)
<1>1. CASE new = old
  BY <1>1 DEF SameRow
<1>2. CASE new = [k \in DOMAIN old |-> Backfilled(old[k], known)]
  <2>1. DOMAIN old = 1 .. Len(old) /\ Len(old) \in Nat /\ \A k \in DOMAIN old : old[k] \in Rows
    OBVIOUS
  <2>2. \A k \in DOMAIN old : new[k] = Backfilled(old[k], known) /\ new[k] \in Rows
    BY <1>2, <2>1, BackfilledRow
  <2>3. new \in [1 .. Len(old) -> Rows]
    BY <1>2, <2>1, <2>2
  <2>4. new \in Seq(Rows)
    BY <2>1, <2>3
  <2> QED BY <1>2, <2>1, <2>2, <2>4, BackfilledRow
<1> QED BY <1>1, <1>2 DEF Rewritten

LEMMA BackfillKeeps ==
  ASSUME NEW j, JobOk(j), NEW known, Known(known, j), NEW seqs, Kept(seqs, j),
         NEW new, new = [p \in DOMAIN seqs |-> new[p]], \A p \in DOMAIN seqs : Rewritten(new[p], seqs[p], known)
  PROVE  Kept(new, j)
<1>1. seqs \in Seq(Seq(Rows)) /\ DOMAIN seqs = 1 .. Len(seqs) /\ Len(seqs) \in Nat
  BY DEF Kept
<1>2. \A p \in DOMAIN seqs : seqs[p] \in Seq(Rows)
  BY <1>1
<1>3. \A p \in DOMAIN seqs :
        /\ new[p] \in Seq(Rows) /\ DOMAIN new[p] = DOMAIN seqs[p]
        /\ \A k \in DOMAIN seqs[p] : /\ SameRow(new[p][k], seqs[p][k])
                                     /\ \A row \in RowsOfJob(j) : CopyOf(seqs[p][k], row) => CopyOf(new[p][k], row)
  BY <1>2, RewrittenRows
<1>4. DOMAIN new = DOMAIN seqs
  OBVIOUS
<1>5. new \in Seq(Seq(Rows))
  <2>1. new \in [1 .. Len(seqs) -> Seq(Rows)]
    BY <1>1, <1>3
  <2> QED BY <2>1, <1>1
<1>6. Unlike(new)
  <2>1. ASSUME NEW p \in DOMAIN new, NEW q \in DOMAIN new, NEW i \in DOMAIN new[p], NEW k \in DOMAIN new[q],
               SameRow(new[p][i], new[q][k])
        PROVE  p = q /\ i = k
    <3>1. SameRow(new[p][i], seqs[p][i]) /\ SameRow(new[q][k], seqs[q][k]) /\ i \in DOMAIN seqs[p] /\ k \in DOMAIN seqs[q]
      BY <1>3, <1>4
    <3>2. SameRow(seqs[p][i], seqs[q][k])
      BY <2>1, <3>1 DEF SameRow
    <3> QED BY <3>1, <3>2, <1>4 DEF Kept, Unlike
  <2> QED BY <2>1 DEF Unlike
<1>7. ASSUME NEW p \in DOMAIN new, NEW i \in DOMAIN new[p] PROVE \E row \in RowsOfJob(j) : CopyOf(new[p][i], row)
  <2>1. i \in DOMAIN seqs[p] /\ p \in DOMAIN seqs
    BY <1>3, <1>4
  <2>2. PICK row \in RowsOfJob(j) : CopyOf(seqs[p][i], row)
    BY <2>1 DEF Kept
  <2> QED BY <2>1, <2>2, <1>3
<1>8. ASSUME NEW row \in RowsOfJob(j) PROVE \E p \in DOMAIN new : \E i \in DOMAIN new[p] : SameRow(new[p][i], row)
  <2>1. PICK p \in DOMAIN seqs : \E i \in DOMAIN seqs[p] : SameRow(seqs[p][i], row)
    BY DEF Kept
  <2>2. PICK i \in DOMAIN seqs[p] : SameRow(seqs[p][i], row)
    BY <2>1
  <2>3. SameRow(new[p][i], row) /\ i \in DOMAIN new[p] /\ p \in DOMAIN new
    BY <2>2, <1>3, <1>4 DEF SameRow
  <2> QED BY <2>3
<1> QED BY <1>5, <1>6, <1>7, <1>8 DEF Kept

\* What backfillLineNumbers reads of the objects.
LEMMA ReadIsKnown ==
  ASSUME NEW j, JobOk(j), NEW seqs, Kept(seqs, j),
         NEW read, read = [p \in DOMAIN seqs |-> read[p]], \A p \in DOMAIN seqs : read[p] \in {seqs[p], <<>>}
  PROVE  Known(FlattenSeq(read) \o SetToSeq(j.deadLetters), j)
<1>1. PICK flat, dead : flat = FlattenSeq(read) /\ dead = SetToSeq(j.deadLetters)
  OBVIOUS
<1>2. seqs \in Seq(Seq(Rows)) /\ DOMAIN seqs = 1 .. Len(seqs) /\ Len(seqs) \in Nat
  BY DEF Kept
<1>3. read \in Seq(Seq(Rows)) /\ DOMAIN read = 1 .. Len(read)
  <2>1. ASSUME NEW p \in DOMAIN seqs PROVE read[p] \in Seq(Rows)
    <3>1. read[p] = seqs[p] \/ read[p] = <<>>
      OBVIOUS
    <3>2. seqs[p] \in Seq(Rows) /\ <<>> \in Seq(Rows)
      BY <1>2
    <3> QED BY <3>1, <3>2
  <2>2. read \in [1 .. Len(seqs) -> Seq(Rows)]
    BY <2>1, <1>2
  <2> QED BY <2>2, <1>2
<1>4. IsFlat(flat, read, Len(read))
  BY <1>1, <1>3, Flattened
<1>5. flat \in Seq(Rows) /\ \A i \in DOMAIN flat : \E row \in RowsOfJob(j) : CopyOf(flat[i], row)
  <2>1. flat \in Seq(Rows)
    BY <1>4 DEF IsFlat
  <2>2. ASSUME NEW i \in DOMAIN flat PROVE \E row \in RowsOfJob(j) : CopyOf(flat[i], row)
    <3>1. PICK p \in 1 .. Len(read) : \E m \in DOMAIN read[p] : flat[i] = read[p][m]
      BY <1>4 DEF IsFlat
    <3>2. PICK m \in DOMAIN read[p] : flat[i] = read[p][m]
      BY <3>1
    <3>3. read[p] # <<>> /\ p \in DOMAIN seqs
      BY <3>2, <1>3
    <3>4. read[p] = seqs[p]
      BY <3>3
    <3> QED BY <3>2, <3>3, <3>4 DEF Kept
  <2> QED BY <2>1, <2>2
<1>6. dead \in Seq(j.deadLetters) /\ j.deadLetters \subseteq DeadLetters
  BY <1>1, Enumeration DEF JobOk
<1>7. PICK known : known = flat \o dead
  OBVIOUS
<1>8. known \in Seq(Rows \cup DeadLetters)
  <2>1. flat \in Seq(Rows \cup DeadLetters) /\ dead \in Seq(Rows \cup DeadLetters)
    BY <1>5, <1>6
  <2> QED BY <2>1, <1>7
<1>9. ASSUME NEW k \in DOMAIN known
      PROVE  known[k] \in j.deadLetters \/ \E row \in RowsOfJob(j) : CopyOf(known[k], row)
  <2>1. \/ k \in DOMAIN flat /\ known[k] = flat[k]
        \/ k - Len(flat) \in DOMAIN dead /\ known[k] = dead[k - Len(flat)]
    <3>1. Len(flat) \in Nat /\ Len(dead) \in Nat /\ DOMAIN flat = 1 .. Len(flat) /\ DOMAIN dead = 1 .. Len(dead)
      BY <1>5, <1>6
    <3>2. DOMAIN known = 1 .. Len(flat) + Len(dead)
      BY <1>5, <1>6, <1>7, <3>1
    <3> QED BY <1>5, <1>6, <1>7, <3>1, <3>2
  <2> QED BY <2>1, <1>5, <1>6
<1>10. Known(known, j)
  BY <1>8, <1>9 DEF Known
<1> QED BY <1>1, <1>7, <1>10

-----------------------------------------------------------------------------
IsSum(f, t, S) ==
  f = [s \in SUBSET S |-> IF s = {} THEN 0 ELSE t[CHOOSE y \in s : TRUE] + f[s \ {CHOOSE y \in s : TRUE}]]

LEMMA SumOfOne ==
  ASSUME NEW t, NEW x
  PROVE  (CHOOSE f : IsSum(f, t, {x}))[{x}] = t[x] + 0
<1>1. PICK g : g = [s \in SUBSET {x} |-> IF s = {} THEN 0 ELSE t[x] + 0]
  OBVIOUS
<1>2. \A s \in SUBSET {x} : s # {} => s = {x} /\ (CHOOSE y \in s : TRUE) = x /\ s \ {x} = {}
  OBVIOUS
<1>3. g[{}] = 0
  BY <1>1
<1>4. g = [s \in SUBSET {x} |-> IF s = {} THEN 0 ELSE t[CHOOSE y \in s : TRUE] + g[s \ {CHOOSE y \in s : TRUE}]]
  <2>1. ASSUME NEW s \in SUBSET {x}
        PROVE  g[s] = IF s = {} THEN 0 ELSE t[CHOOSE y \in s : TRUE] + g[s \ {CHOOSE y \in s : TRUE}]
    <3>1. CASE s = {}
      BY <3>1, <1>3
    <3>2. CASE s # {}
      <4>1. g[s] = t[x] + 0
        BY <1>1, <3>2
      <4>2. (CHOOSE y \in s : TRUE) = x /\ s \ {CHOOSE y \in s : TRUE} = {}
        BY <1>2, <3>2
      <4> QED BY <4>1, <4>2, <1>3, <3>2
    <3> QED BY <3>1, <3>2
  <2>2. g = [s \in SUBSET {x} |-> g[s]]
    BY <1>1
  <2> QED BY <2>1, <2>2, Zenon
<1>5. \E f : IsSum(f, t, {x})
  BY <1>4 DEF IsSum
<1>6. PICK f : f = (CHOOSE h : IsSum(h, t, {x})) /\ IsSum(f, t, {x})
  BY <1>5
<1>7. \A s \in SUBSET {x} : f[s] = IF s = {} THEN 0 ELSE t[CHOOSE y \in s : TRUE] + f[s \ {CHOOSE y \in s : TRUE}]
  BY <1>6 DEF IsSum
<1>8. f[{}] = 0
  BY <1>7
<1>9. f[{x}] = t[x] + 0
  <2>1. {x} \in SUBSET {x} /\ {x} # {} /\ (CHOOSE y \in {x} : TRUE) = x /\ {x} \ {CHOOSE y \in {x} : TRUE} = {}
    BY <1>2
  <2>2. f[{x}] = IF {x} = {} THEN 0 ELSE t[CHOOSE y \in {x} : TRUE] + f[{x} \ {CHOOSE y \in {x} : TRUE}]
    BY <1>7, <2>1
  <2> QED BY <2>1, <2>2, <1>8
<1> QED BY <1>6, <1>9

LEMMA OneLoaded ==
  ASSUME NEW row, NEW x, LoadsOf(row) = {x}
  PROVE  TimesLoaded(row) = table[x] + 0
<1>1. TimesLoaded(row) = (CHOOSE f : IsSum(f, table, LoadsOf(row)))[LoadsOf(row)]
  BY DEF TimesLoaded, MapThenSumSet, MapThenFoldSet, IsSum
<1> QED BY <1>1, SumOfOne

LEMMA OnceEach ==
  ASSUME NEW j, NEW rows, Keeps(rows, j), NEW r \in ToSet(rows)
  PROVE  ToBag(rows)[r] = 1
<1>1. PICK i \in DOMAIN rows : rows[i] = r
  BY DEF ToSet
<1>2. {k \in DOMAIN rows : rows[k] = r} = {i}
  BY <1>1 DEF Keeps, SameRow
<1>3. ToBag(rows)[r] = Cardinality({k \in DOMAIN rows : rows[k] = r})
  BY <1>1 DEF ToBag, Range
<1> QED BY <1>2, <1>3, FS_Singleton

-----------------------------------------------------------------------------
(***************************************************************************)
(* The objects.                                                            *)
(***************************************************************************)

\* The objects of the paths that are to be loaded keep the rows of the job: those the parser
\* wrote, and what the merge and the backfill make of them.
KeptInv ==
  /\ JobOk(job)
  /\ final = "parsed" => objects = job.parts /\ paths = <<>>
  /\ final # "parsed" => paths \in Seq(DOMAIN objects) /\ Kept(Contents(objects, paths), job)

WithMerged(rows) == [path \in DOMAIN objects \cup {Merged} |-> IF path = Merged THEN rows ELSE objects[path]]

LEMMA FinalizesKeeps == KeptInv /\ Finalizes => KeptInv'
<1> SUFFICES ASSUME KeptInv, Finalizes PROVE KeptInv'
  OBVIOUS
<1>1. objects = job.parts /\ paths = <<>> /\ job' = job /\ JobOk(job) /\ final' # "parsed"
  BY DEF KeptInv, Finalizes
<1>2. PICK j : j = job
  OBVIOUS
<1>3. PartPaths \in Seq(DOMAIN objects) /\ Kept(Contents(objects, PartPaths), j)
  BY <1>1, <1>2, PartsAreKept DEF PartPaths
<1>4. CASE paths' = PartPaths /\ objects' = objects
  BY <1>1, <1>2, <1>3, <1>4 DEF KeptInv
<1>5. CASE /\ paths' = <<Merged>>
           /\ objects' = WithMerged(PlaceForNone(ByLine(RowsOf(PartPaths))))
  <2>1. PICK rows : rows = PlaceForNone(ByLine(RowsOf(PartPaths)))
    OBVIOUS
  <2>2. RowsOf(PartPaths) = FlattenSeq(Contents(objects, PartPaths))
    BY DEF RowsOf, Contents
  <2>3. Keeps(rows, j)
    BY <1>3, <2>1, <2>2, FlatKeeps, SortKeeps, PlacesKeep
  <2>4. PICK objs : objs = WithMerged(rows)
    OBVIOUS
  <2>5. Merged \in DOMAIN objs /\ objs[Merged] = rows
    BY <2>4 DEF WithMerged
  <2>6. Contents(objs, <<Merged>>) = <<rows>>
    BY <2>5 DEF Contents
  <2>7. Kept(Contents(objs, <<Merged>>), j)
    BY <2>3, <2>6, OneObjectIsKept
  <2>8. objects' = objs /\ <<Merged>> \in Seq(DOMAIN objs)
    BY <1>5, <2>1, <2>4, <2>5
  <2> QED BY <1>1, <1>2, <1>5, <2>7, <2>8 DEF KeptInv
<1>6. \/ paths' = PartPaths /\ objects' = objects
      \/ /\ paths' = <<Merged>>
         /\ objects' = WithMerged(PlaceForNone(ByLine(RowsOf(PartPaths))))
  <2>1. CASE PartPaths = <<>>
    BY <2>1, <1>1 DEF Finalizes
  <2>2. CASE PartPaths # <<>>
    BY <2>2 DEF Finalizes, MergeGroup, WithMerged
  <2> QED BY <2>1, <2>2
<1> QED BY <1>4, <1>5, <1>6

LEMMA BackfillStepKeeps == KeptInv /\ BackfillLineNumbers => KeptInv'
<1> SUFFICES ASSUME KeptInv, BackfillLineNumbers PROVE KeptInv'
  OBVIOUS
<1>1. PICK j, objs, list : j = job /\ objs = objects /\ list = paths
  OBVIOUS
<1>2. JobOk(j) /\ job' = j /\ paths' = list /\ final' # "parsed"
  BY <1>1 DEF KeptInv, BackfillLineNumbers
<1>3. list \in Seq(DOMAIN objs) /\ Kept(Contents(objs, list), j)
  BY <1>1 DEF KeptInv, BackfillLineNumbers
<1>4. PICK listed, rewritten \in SUBSET ToSet(paths) :
        objects' =
          [path \in DOMAIN objects |->
             IF NothingToBackfill \/ path \notin rewritten THEN objects[path]
             ELSE [k \in DOMAIN objects[path] |->
                     Backfilled(objects[path][k], RowsRead(paths, listed) \o SetToSeq(job.deadLetters))]]
  BY Zenon DEF BackfillLineNumbers
<1>5. PICK read, known :
        /\ read = [k \in 1 .. Len(list) |-> IF list[k] \in listed THEN objs[list[k]] ELSE <<>>]
        /\ known = FlattenSeq(read) \o SetToSeq(j.deadLetters)
  OBVIOUS
<1>6. RowsRead(list, listed) = FlattenSeq(read)
  BY <1>1, <1>5 DEF RowsRead
<1>7. PICK seqs : seqs = Contents(objs, list)
  OBVIOUS
<1>8. DOMAIN seqs = 1 .. Len(list) /\ \A k \in 1 .. Len(list) : seqs[k] = objs[list[k]] /\ list[k] \in DOMAIN objs
  BY <1>3, <1>7 DEF Contents
<1>9. Known(known, j)
  <2>1. read = [p \in DOMAIN seqs |-> read[p]]
    BY <1>5, <1>8
  <2>2. \A p \in DOMAIN seqs : read[p] \in {seqs[p], <<>>}
    BY <1>5, <1>8
  <2> QED BY <1>2, <1>3, <1>5, <1>7, <2>1, <2>2, ReadIsKnown
<1>10. PICK new : new = objects'
  OBVIOUS
<1>11. DOMAIN new = DOMAIN objs /\ \A path \in DOMAIN objs : Rewritten(new[path], objs[path], known)
  BY <1>1, <1>4, <1>5, <1>6, <1>10 DEF Rewritten
<1>12. PICK after : after = Contents(new, list)
  OBVIOUS
<1>13. after = [p \in DOMAIN seqs |-> after[p]] /\ \A p \in DOMAIN seqs : after[p] = new[list[p]]
  BY <1>8, <1>12 DEF Contents
<1>14. \A p \in DOMAIN seqs : Rewritten(after[p], seqs[p], known)
  BY <1>8, <1>11, <1>13
<1>15. Kept(after, j)
  BY <1>2, <1>3, <1>7, <1>9, <1>13, <1>14, BackfillKeeps
<1>16. list \in Seq(DOMAIN new)
  BY <1>3, <1>11
<1> QED BY <1>2, <1>10, <1>12, <1>15, <1>16 DEF KeptInv

LEMMA KeptStays == KeptInv /\ [Next]_vars => KeptInv'
<1> SUFFICES ASSUME KeptInv, [Next]_vars PROVE KeptInv'
  OBVIOUS
<1>1. CASE Finalizes
  BY <1>1, FinalizesKeeps
<1>2. CASE BackfillLineNumbers
  BY <1>2, BackfillStepKeeps
<1>3. CASE UNCHANGED <<job, objects, paths>> /\ (final' = "parsed" <=> final = "parsed")
  BY <1>3 DEF KeptInv
<1>4. ASSUME Advances \/ FinalizerDies
      PROVE  UNCHANGED <<job, objects, paths>> /\ (final' = "parsed" <=> final = "parsed")
  BY <1>4 DEF Advances, FinalizerDies
<1>5. ASSUME NEW l \in Loaders,
             \/ Receives(l) \/ Stages(l) \/ InsertsRows(l) \/ DropsStaging(l)
             \/ Announces(l) \/ Fails(l) \/ Deletes(l) \/ LoaderDies(l)
      PROVE  UNCHANGED <<job, objects, paths>> /\ (final' = "parsed" <=> final = "parsed")
  BY <1>5 DEF Receives, Stages, InsertsRows, DropsStaging, Announces, Fails, Deletes, LoaderDies, finalVars
<1>6. ASSUME UNCHANGED vars
      PROVE  UNCHANGED <<job, objects, paths>> /\ (final' = "parsed" <=> final = "parsed")
  BY <1>6 DEF vars
<1> QED BY <1>1, <1>2, <1>3, <1>4, <1>5, <1>6 DEF Next

LEMMA KeptInit == Init => KeptInv
BY JobsAssumption DEF Init, KeptInv

LEMMA KeptAlways == Spec => []KeptInv
BY KeptInit, KeptStays, PTL DEF Spec

-----------------------------------------------------------------------------
(***************************************************************************)
(* The loads.                                                              *)
(***************************************************************************)

\* The rows the load message names.
FinalRows == ToSet(RowsOf(paths))

\* An INSERT took place.
Inserted == FinalRows \subseteq BagToSet(table)

\* parsed_records has the rows of the load message, all of them, or none yet.
AllOrNothing == BagToSet(table) = {} \/ BagToSet(table) = FinalRows

\* Rows that are as often in the objects are as often in parsed_records.
TimesThere(r) == ToBag(RowsOf(paths))[r]
SameCounts == \A r, s \in BagToSet(table) : TimesThere(r) = TimesThere(s) => table[r] = table[s]

\* Once a load was announced, its rows are there.
AnnouncedIsInserted == announced => Inserted

IsHandler(h) == \E at, copy, left : h \in [at : {at}, copy : {copy}, left : {left}]

NothingSentYet ==
  /\ copies = {} /\ table = EmptyBag /\ ~announced
  /\ \A l \in Loaders : loading[l].at = "idle"

\* A handler that inserts has all the rows to insert or none left.
HandlerFits(h) ==
  /\ h.at = "insert" => h.left = <<RowsOf(paths)>> \/ (h.left = <<>> /\ Inserted)
  /\ h.at = "announce" => Inserted

LoadInv ==
  /\ DOMAIN loading = Loaders
  /\ \A l \in Loaders : IsHandler(loading[l]) /\ HandlerFits(loading[l])
  /\ final # "sent" => NothingSentYet
  /\ AllOrNothing /\ SameCounts /\ AnnouncedIsInserted

-----------------------------------------------------------------------------
LEMMA NoRowsOfNoPaths == RowsOf(<<>>) = <<>>
BY DEF RowsOf, FlattenSeq

LEMMA InsertedRows ==
  ASSUME NEW rows, NEW bag
  PROVE  BagToSet(bag (+) ToBag(rows)) = BagToSet(bag) \cup ToSet(rows)
BY DEF BagToSet, (+), ToBag, ToSet, Range

LEMMA EmptyTable == BagToSet(EmptyBag) = {}
BY DEF BagToSet, EmptyBag, SetToBag

\* Before the load message is sent no row is inserted.
LEMMA NothingIsLoaded ==
  ASSUME LoadInv, final # "sent", UNCHANGED loadVars, copies' = {} \/ final' = "sent"
  PROVE  LoadInv'
<1>1. UNCHANGED <<loading, table, announced>> /\ NothingSentYet
  BY DEF LoadInv, loadVars
<1>2. (\A l \in Loaders : HandlerFits(loading[l]))' /\ (\A l \in Loaders : IsHandler(loading[l]))'
  BY <1>1 DEF LoadInv, NothingSentYet, HandlerFits, IsHandler
<1>3. AllOrNothing' /\ SameCounts' /\ AnnouncedIsInserted'
  BY <1>1, EmptyTable DEF NothingSentYet, AllOrNothing, SameCounts, AnnouncedIsInserted
<1>4. (final # "sent" => NothingSentYet)'
  BY <1>1 DEF NothingSentYet
<1> QED BY <1>1, <1>2, <1>3, <1>4 DEF LoadInv

\* A step of handler l, which has h afterwards.
LEMMA HandlerMoves ==
  ASSUME LoadInv, UNCHANGED <<objects, paths, final>>, final = "sent",
         NEW l \in Loaders, NEW h, IsHandler(h), HandlerFits(h)',
         loading' = [loading EXCEPT ![l] = h],
         table' = table \/ table' = table (+) ToBag(RowsOf(paths)),
         announced' => announced \/ Inserted
  PROVE  LoadInv'
<1>1. RowsOf(paths)' = RowsOf(paths)
  BY DEF RowsOf
<1>2. FinalRows' = FinalRows /\ ToBag(RowsOf(paths))' = ToBag(RowsOf(paths))
  BY <1>1 DEF FinalRows
<1>3. \/ BagToSet(table') = BagToSet(table)
      \/ BagToSet(table') = BagToSet(table) \cup FinalRows
  <2>1. CASE table' = table
    BY <2>1
  <2>2. CASE table' = table (+) ToBag(RowsOf(paths))
    BY <2>2, InsertedRows DEF FinalRows
  <2> QED BY <2>1, <2>2
<1>4. AllOrNothing' /\ (Inserted => Inserted')
  BY <1>2, <1>3 DEF LoadInv, AllOrNothing, Inserted
<1>5. SameCounts'
  <2>1. CASE table' = table
    BY <1>2, <2>1 DEF LoadInv, SameCounts, TimesThere
  <2>2. CASE table' = table (+) ToBag(RowsOf(paths))
    <3> DEFINE B == ToBag(RowsOf(paths))
    <3>1. DOMAIN B = FinalRows
      BY DEF ToBag, FinalRows, ToSet, Range
    <3>2. DOMAIN table = {} \/ DOMAIN table = FinalRows
      BY DEF LoadInv, AllOrNothing, BagToSet
    <3>3. /\ DOMAIN table' = FinalRows
          /\ \A r \in FinalRows : table'[r] = (IF r \in DOMAIN table THEN table[r] ELSE 0) + B[r]
      <4> HIDE DEF B
      <4>1. table' = [e \in DOMAIN table \cup DOMAIN B |->
                        (IF e \in DOMAIN table THEN table[e] ELSE 0) + (IF e \in DOMAIN B THEN B[e] ELSE 0)]
        BY <2>2 DEF (+), B
      <4> QED BY <3>1, <3>2, <4>1
    <3>4. \A r, s \in DOMAIN table : B[r] = B[s] => table[r] = table[s]
      BY DEF LoadInv, SameCounts, TimesThere, BagToSet
    <3>5. \A r : TimesThere(r)' = B[r]
      BY <1>1 DEF TimesThere
    <3> HIDE DEF B
    <3>6. \A r, s \in FinalRows : B[r] = B[s] => table'[r] = table'[s]
      BY <3>2, <3>3, <3>4
    <3> QED BY <3>3, <3>5, <3>6 DEF SameCounts, BagToSet
  <2> QED BY <2>1, <2>2
<1>6. AnnouncedIsInserted'
  BY <1>4 DEF LoadInv, AnnouncedIsInserted
<1>7. DOMAIN loading' = Loaders /\ \A k \in Loaders : loading'[k] = IF k = l THEN h ELSE loading[k]
  BY DEF LoadInv
<1>8. \A k \in Loaders : IsHandler(loading'[k])
  BY <1>7 DEF LoadInv
<1>9. \A k \in Loaders : HandlerFits(loading[k])'
  <2>1. SUFFICES ASSUME NEW k \in Loaders, k # l PROVE HandlerFits(loading[k])'
    BY <1>7 DEF HandlerFits
  <2>2. loading'[k] = loading[k] /\ HandlerFits(loading[k])
    BY <1>7, <2>1 DEF LoadInv
  <2> QED BY <1>1, <1>4, <2>2 DEF HandlerFits
<1> QED BY <1>4, <1>5, <1>6, <1>7, <1>8, <1>9 DEF LoadInv

-----------------------------------------------------------------------------
LEMMA RecordIsHandler ==
  ASSUME NEW at, NEW copy, NEW left
  PROVE  IsHandler([at |-> at, copy |-> copy, left |-> left])
<1>1. [at |-> at, copy |-> copy, left |-> left] \in [at : {at}, copy : {copy}, left : {left}]
  OBVIOUS
<1> QED BY <1>1 DEF IsHandler

LEMMA FieldChanged ==
  ASSUME NEW h, IsHandler(h), NEW x
  PROVE  /\ [h EXCEPT !.at = x] = [at |-> x, copy |-> h.copy, left |-> h.left]
         /\ [h EXCEPT !.copy = x] = [at |-> h.at, copy |-> x, left |-> h.left]
         /\ [h EXCEPT !.left = x] = [at |-> h.at, copy |-> h.copy, left |-> x]
<1>1. PICK at, copy, left : h \in [at : {at}, copy : {copy}, left : {left}]
  BY DEF IsHandler
<1> QED BY <1>1

LEMMA Moved ==
  ASSUME LoadInv, NEW l \in Loaders, NEW place, NEW left, Goes(l, place, left)
  PROVE  \E h : /\ h.at = place /\ h.left = left /\ IsHandler(h)
                /\ loading' = [loading EXCEPT ![l] = h]
<1>1. IsHandler(loading[l])
  BY DEF LoadInv
<1>2. PICK g, k : g = loading[l] /\ k = [g EXCEPT !.at = place]
  OBVIOUS
<1>3. k = [at |-> place, copy |-> g.copy, left |-> g.left]
  BY <1>1, <1>2, FieldChanged
<1>4. PICK h : h = [k EXCEPT !.left = left]
  OBVIOUS
<1>5. h = [at |-> k.at, copy |-> k.copy, left |-> left]
  BY <1>3, <1>4, RecordIsHandler, FieldChanged
<1>6. loading' = [loading EXCEPT ![l] = h]
  BY <1>2, <1>4, Zenon DEF Goes, LoadInv
<1>7. h.at = place /\ h.left = left /\ IsHandler(h)
  BY <1>3, <1>5, RecordIsHandler
<1> QED BY <1>6, <1>7

LEMMA AtWorkIsSent ==
  ASSUME LoadInv, NEW l \in Loaders, ~At(l, "idle")
  PROVE  final = "sent" /\ HandlerFits(loading[l])
BY DEF LoadInv, NothingSentYet, At

LEMMA IdleFits ==
  ASSUME LoadInv, UNCHANGED <<objects, paths, final, table, announced>>, final = "sent",
         NEW l \in Loaders, Forgets(l)
  PROVE  LoadInv'
<1>1. IsHandler(Idle) /\ HandlerFits(Idle)'
  BY DEF Idle, IsHandler, HandlerFits
<1>2. loading' = [loading EXCEPT ![l] = Idle]
  BY DEF Forgets
<1> QED BY <1>1, <1>2, HandlerMoves

LEMMA FinalizerKeeps ==
  ASSUME LoadInv, Finalizes \/ BackfillLineNumbers \/ Advances \/ FinalizerDies
  PROVE  LoadInv'
<1>1. final # "sent" /\ UNCHANGED loadVars
  BY DEF Finalizes, BackfillLineNumbers, Advances, FinalizerDies
<1>2. copies = {}
  BY <1>1 DEF LoadInv, NothingSentYet
<1>3. copies' = {} \/ final' = "sent"
  BY <1>2 DEF Finalizes, BackfillLineNumbers, Advances, FinalizerDies
<1> QED BY <1>1, <1>3, NothingIsLoaded

LEMMA HandlerKeeps ==
  ASSUME LoadInv, NEW l \in Loaders,
         \/ Receives(l) \/ Stages(l) \/ InsertsRows(l) \/ DropsStaging(l)
         \/ Announces(l) \/ Fails(l) \/ Deletes(l) \/ LoaderDies(l)
  PROVE  LoadInv'
<1>1. CASE Receives(l)
  <2>1. UNCHANGED <<objects, paths, final, table, announced>>
    BY <1>1 DEF Receives, finalVars
  <2>2. PICK copy \in copies : loading' =
          [loading EXCEPT ![l].at = IF paths = <<>> THEN "announce" ELSE "stage", ![l].copy = copy]
    BY <1>1 DEF Receives
  <2>3. final = "sent"
    BY <2>2 DEF LoadInv, NothingSentYet
  <2>4. PICK place : place = IF paths = <<>> THEN "announce" ELSE "stage"
    OBVIOUS
  <2>5. PICK h : h.at = place /\ IsHandler(h) /\ loading' = [loading EXCEPT ![l] = h]
    <3>1. IsHandler(loading[l])
      BY DEF LoadInv
    <3>2. PICK g, k : g = loading[l] /\ k = [g EXCEPT !.at = place]
      OBVIOUS
    <3>3. k = [at |-> place, copy |-> g.copy, left |-> g.left]
      BY <3>1, <3>2, FieldChanged
    <3>4. PICK h : h = [k EXCEPT !.copy = copy]
      OBVIOUS
    <3>5. h = [at |-> k.at, copy |-> copy, left |-> k.left]
      BY <3>3, <3>4, RecordIsHandler, FieldChanged
    <3>6. loading' = [loading EXCEPT ![l] = h]
      BY <2>2, <2>4, <3>2, <3>4, Zenon DEF LoadInv
    <3>7. h.at = place /\ IsHandler(h)
      BY <3>3, <3>5, RecordIsHandler
    <3> QED BY <3>6, <3>7
  <2>6. h.at # "insert" /\ (h.at = "announce" => paths = <<>>)
    BY <2>4, <2>5
  <2>7. ASSUME paths = <<>> PROVE Inserted'
    BY <2>1, <2>7, NoRowsOfNoPaths DEF Inserted, FinalRows, ToSet, RowsOf, FlattenSeq
  <2>8. HandlerFits(h)'
    BY <2>6, <2>7 DEF HandlerFits
  <2> QED BY <2>1, <2>3, <2>5, <2>8, HandlerMoves
<1>2. CASE Stages(l)
  <2>1. UNCHANGED <<objects, paths, final, table, announced>> /\ ~At(l, "idle")
    BY <1>2 DEF Stages, finalVars, At
  <2>2. PICK error \in BOOLEAN : Goes(l, AfterJob(error), Inserts(IF error THEN <<>> ELSE RowsOf(paths)))
    BY <1>2 DEF Stages
  <2>3. PICK place, left : Goes(l, place, left) /\ (place = "insert" => left = <<RowsOf(paths)>>)
                           /\ place # "announce"
    BY <2>2 DEF AfterJob, Inserts
  <2>4. PICK h : /\ h.at = place /\ h.left = left /\ IsHandler(h)
                 /\ loading' = [loading EXCEPT ![l] = h]
    BY <2>3, Moved
  <2>5. HandlerFits(h)'
    BY <2>1, <2>3, <2>4 DEF HandlerFits, RowsOf
  <2> QED BY <2>1, <2>4, <2>5, AtWorkIsSent, HandlerMoves
<1>3. CASE InsertsRows(l)
  <2>1. /\ UNCHANGED <<objects, paths, final, announced>> /\ ~At(l, "idle")
        /\ At(l, "insert") /\ loading[l].left # <<>>
    BY <1>3 DEF InsertsRows, finalVars, At
  <2>2. loading[l].left = <<RowsOf(paths)>> /\ final = "sent"
    BY <2>1, AtWorkIsSent DEF HandlerFits, At
  <2>3. Head(loading[l].left) = RowsOf(paths) /\ Tail(loading[l].left) = <<>>
    BY <2>2
  <2>4. CASE Goes(l, "insert", Tail(loading[l].left)) /\ table' = table (+) ToBag(Head(loading[l].left))
    <3>1. Goes(l, "insert", <<>>) /\ table' = table (+) ToBag(RowsOf(paths))
      BY <2>3, <2>4
    <3>2. PICK h : /\ h.at = "insert" /\ h.left = <<>> /\ IsHandler(h)
                   /\ loading' = [loading EXCEPT ![l] = h]
      BY <3>1, Moved
    <3>3. BagToSet(table') = BagToSet(table) \cup ToSet(RowsOf(paths))
      BY <3>1, InsertedRows
    <3>4. Inserted'
      BY <2>1, <3>3 DEF Inserted, FinalRows, RowsOf
    <3>5. HandlerFits(h)'
      BY <3>2, <3>4 DEF HandlerFits
    <3> QED BY <2>1, <2>2, <3>1, <3>2, <3>5, HandlerMoves
  <2>5. CASE Goes(l, "fails", <<>>) /\ table' \in {table, table (+) ToBag(Head(loading[l].left))}
    <3>1. PICK h : /\ h.at = "fails" /\ h.left = <<>> /\ IsHandler(h)
                   /\ loading' = [loading EXCEPT ![l] = h]
      BY <2>5, Moved
    <3>2. HandlerFits(h)'
      BY <3>1 DEF HandlerFits
    <3>3. table' = table \/ table' = table (+) ToBag(RowsOf(paths))
      BY <2>3, <2>5
    <3> QED BY <2>1, <2>2, <3>1, <3>2, <3>3, HandlerMoves
  <2> QED BY <1>3, <2>4, <2>5 DEF InsertsRows
<1>4. CASE DropsStaging(l)
  <2>1. /\ UNCHANGED <<objects, paths, final, table, announced>> /\ ~At(l, "idle")
        /\ At(l, "insert") /\ loading[l].left = <<>>
    BY <1>4 DEF DropsStaging, finalVars, At
  <2>2. Inserted /\ final = "sent"
    BY <2>1, AtWorkIsSent DEF HandlerFits, At
  <2>3. PICK place \in {"announce", "fails"} : Goes(l, place, <<>>)
    BY <1>4 DEF DropsStaging
  <2>4. PICK h : /\ h.at = place /\ h.left = <<>> /\ IsHandler(h)
                 /\ loading' = [loading EXCEPT ![l] = h]
    BY <2>3, Moved
  <2>5. Inserted'
    BY <2>1, <2>2 DEF Inserted, FinalRows, RowsOf
  <2>6. HandlerFits(h)'
    BY <2>4, <2>5 DEF HandlerFits
  <2> QED BY <2>1, <2>2, <2>4, <2>6, HandlerMoves
<1>5. CASE Announces(l)
  <2>1. UNCHANGED <<objects, paths, final, table>> /\ ~At(l, "idle") /\ At(l, "announce")
    BY <1>5 DEF Announces, finalVars, At
  <2>2. Inserted /\ final = "sent"
    BY <2>1, AtWorkIsSent DEF HandlerFits, At
  <2>3. PICK place \in {"ack", "fails"} : Goes(l, place, <<>>)
    BY <1>5 DEF Announces
  <2>4. PICK h : /\ h.at = place /\ h.left = <<>> /\ IsHandler(h)
                 /\ loading' = [loading EXCEPT ![l] = h]
    BY <2>3, Moved
  <2>5. HandlerFits(h)'
    BY <2>4 DEF HandlerFits
  <2> QED BY <2>1, <2>2, <2>4, <2>5, HandlerMoves
<1>6. CASE Fails(l)
  <2>1. UNCHANGED <<objects, paths, final, table, announced>> /\ ~At(l, "idle")
    BY <1>6 DEF Fails, finalVars, At
  <2>2. final = "sent"
    BY <2>1, AtWorkIsSent
  <2>3. CASE Goes(l, "ack", <<>>)
    <3>1. PICK h : /\ h.at = "ack" /\ h.left = <<>> /\ IsHandler(h)
                   /\ loading' = [loading EXCEPT ![l] = h]
      BY <2>3, Moved
    <3>2. HandlerFits(h)'
      BY <3>1 DEF HandlerFits
    <3> QED BY <2>1, <2>2, <3>1, <3>2, HandlerMoves
  <2> QED BY <1>6, <2>1, <2>2, <2>3, IdleFits DEF Fails
<1>7. CASE Deletes(l) \/ LoaderDies(l)
  <2>1. UNCHANGED <<objects, paths, final, table, announced>> /\ ~At(l, "idle") /\ Forgets(l)
    BY <1>7 DEF Deletes, LoaderDies, finalVars, At
  <2> QED BY <2>1, AtWorkIsSent, IdleFits
<1> QED BY <1>1, <1>2, <1>3, <1>4, <1>5, <1>6, <1>7

LEMMA LoadsInit == Init => LoadInv
<1> SUFFICES ASSUME Init PROVE LoadInv
  OBVIOUS
<1>1. loading = [l \in Loaders |-> Idle] /\ NothingSentYet
  BY DEF Init, NothingSentYet, Idle
<1>2. \A l \in Loaders : IsHandler(loading[l]) /\ HandlerFits(loading[l])
  BY <1>1 DEF IsHandler, HandlerFits, Idle
<1>3. AllOrNothing /\ SameCounts /\ AnnouncedIsInserted
  BY <1>1, EmptyTable DEF NothingSentYet, AllOrNothing, SameCounts, AnnouncedIsInserted
<1> QED BY <1>1, <1>2, <1>3 DEF LoadInv

LEMMA LoadsStay == LoadInv /\ [Next]_vars => LoadInv'
<1> SUFFICES ASSUME LoadInv, [Next]_vars PROVE LoadInv'
  OBVIOUS
<1>1. CASE Next
  BY <1>1, FinalizerKeeps, HandlerKeeps DEF Next
<1>2. CASE UNCHANGED vars
  BY <1>2 DEF vars, finalVars, loadVars, LoadInv, IsHandler, HandlerFits, NothingSentYet, AllOrNothing,
              SameCounts, TimesThere, AnnouncedIsInserted, Inserted, FinalRows, RowsOf
<1> QED BY <1>1, <1>2

LEMMA LoadsKeep == Spec => []LoadInv
BY LoadsInit, LoadsStay, PTL DEF Spec

\* A job is loaded as a whole: one INSERT takes all its staged rows (bulkLoadFromGcs), so that
\* parsed_records has all the rows its load message names or none, and rows that are as often in
\* the objects are as often in the table, whatever deliveries repeat, overlap, fail or die.
THEOREM LoadsAreWhole == Spec => [](AllOrNothing /\ SameCounts)
<1>1. LoadInv => AllOrNothing /\ SameCounts
  BY DEF LoadInv
<1> QED BY <1>1, LoadsKeep, PTL

-----------------------------------------------------------------------------
(***************************************************************************)
(* Both together.                                                          *)
(***************************************************************************)

FinalRowsOf(row) == {s \in FinalRows : SameRow(s, row)}

\* The objects the load message names keep every parsed row, with its line if it has one.
FinalRowsExact ==
  \A row \in ParsedRows :
    \E r \in Rows : FinalRowsOf(row) = {r} /\ (row.line # 0 => r = row)

LEMMA KeptIsExact == KeptInv /\ final # "parsed" => FinalRowsExact /\ \A r \in FinalRows : TimesThere(r) = 1
<1> SUFFICES ASSUME KeptInv, final # "parsed" PROVE FinalRowsExact /\ \A r \in FinalRows : TimesThere(r) = 1
  OBVIOUS
<1>1. PICK rows : rows = RowsOf(paths)
  OBVIOUS
<1>2. PICK j : j = job /\ JobOk(j)
  BY DEF KeptInv
<1>3. Keeps(rows, j)
  <2>1. rows = FlattenSeq(Contents(objects, paths))
    BY <1>1 DEF RowsOf, Contents
  <2> QED BY <2>1, <1>2, FlatKeeps DEF KeptInv
<1>4. FinalRows = ToSet(rows)
  BY <1>1 DEF FinalRows
<1>5. ASSUME NEW row \in RowsOfJob(j)
      PROVE  \E r \in Rows : {s \in ToSet(rows) : SameRow(s, row)} = {r} /\ (row.line # 0 => r = row)
  <2>1. PICK i \in DOMAIN rows : SameRow(rows[i], row)
    BY <1>3 DEF Keeps
  <2>2. ASSUME NEW s \in ToSet(rows), SameRow(s, row) PROVE s = rows[i]
    <3>1. PICK k \in DOMAIN rows : s = rows[k]
      BY DEF ToSet
    <3>2. k = i
      BY <2>1, <2>2, <3>1, <1>3 DEF Keeps, SameRow
    <3> QED BY <3>1, <3>2
  <2>3. rows[i] \in ToSet(rows)
    BY DEF ToSet
  <2>4. {s \in ToSet(rows) : SameRow(s, row)} = {rows[i]}
    BY <2>1, <2>2, <2>3
  <2>5. rows[i] \in Rows
    BY <1>3 DEF Keeps
  <2>6. ASSUME row.line # 0 PROVE rows[i] = row
    <3>1. PICK other \in RowsOfJob(j) : CopyOf(rows[i], other)
      BY <1>3 DEF Keeps
    <3>2. other = row
      BY <2>1, <3>1, <1>2, OneRowPerKey DEF CopyOf, SameRow
    <3>3. rows[i].line = row.line
      BY <2>6, <3>1, <3>2 DEF CopyOf
    <3>4. row \in Rows
      BY <1>2, JobRow
    <3> QED BY <2>1, <2>5, <3>3, <3>4 DEF Rows, SameRow
  <2> QED BY <2>4, <2>5, <2>6
<1>6. FinalRowsExact
  BY <1>2, <1>4, <1>5 DEF FinalRowsExact, FinalRowsOf, ParsedRows
<1>7. \A r \in FinalRows : TimesThere(r) = 1
  BY <1>1, <1>3, <1>4, OnceEach DEF TimesThere
<1> QED BY <1>6, <1>7

LEMMA AnnouncedAreThere == LoadInv /\ KeptInv => AnnouncedRowsAreThere
<1> SUFFICES ASSUME LoadInv, KeptInv, announced PROVE AnnouncedRowsAreThere
  BY DEF AnnouncedRowsAreThere
<1>1. final = "sent" /\ BagToSet(table) = FinalRows
  BY DEF LoadInv, NothingSentYet, AllOrNothing, AnnouncedIsInserted, Inserted
<1>2. FinalRowsExact
  BY <1>1, KeptIsExact
<1>3. ASSUME NEW row \in ParsedRows PROVE LoadsOf(row) # {} /\ (row.line # 0 => LoadsOf(row) = {row})
  <2>1. LoadsOf(row) = FinalRowsOf(row)
    BY <1>1 DEF LoadsOf, FinalRowsOf
  <2> QED BY <1>2, <2>1 DEF FinalRowsExact
<1> QED BY <1>3 DEF AnnouncedRowsAreThere

LEMMA LoadedAlike == LoadInv /\ KeptInv => WholeLoads
<1> SUFFICES ASSUME LoadInv, KeptInv, NEW row \in ParsedRows, NEW other \in ParsedRows
             PROVE  TimesLoaded(row) = TimesLoaded(other)
  BY DEF WholeLoads
<1>1. CASE BagToSet(table) = {}
  <2>1. LoadsOf(row) = {} /\ LoadsOf(other) = {}
    BY <1>1 DEF LoadsOf
  <2> QED BY <2>1 DEF TimesLoaded
<1>2. CASE BagToSet(table) # {}
  <2>1. final # "parsed" /\ BagToSet(table) = FinalRows
    BY <1>2, EmptyTable DEF LoadInv, NothingSentYet, AllOrNothing
  <2>2. \A p : LoadsOf(p) = FinalRowsOf(p)
    BY <2>1 DEF LoadsOf, FinalRowsOf
  <2>3. PICK a : LoadsOf(row) = {a}
    BY <2>1, <2>2, KeptIsExact DEF FinalRowsExact
  <2>4. PICK b : LoadsOf(other) = {b}
    BY <2>1, <2>2, KeptIsExact DEF FinalRowsExact
  <2>5. a \in FinalRows /\ b \in FinalRows
    BY <2>2, <2>3, <2>4 DEF FinalRowsOf
  <2>6. table[a] = table[b]
    BY <2>1, <2>5, KeptIsExact DEF LoadInv, SameCounts
  <2>7. TimesLoaded(row) = table[a] + 0 /\ TimesLoaded(other) = table[b] + 0
    BY <2>3, <2>4, OneLoaded
  <2> QED BY <2>6, <2>7
<1> QED BY <1>1, <1>2

\* LOADING_COMPLETED is the truth: once it was announced every parsed row is in parsed_records,
\* with the line the parser gave it, whatever parts were merged, sorted, renumbered, read or not
\* for the backfill and written again or not, and whichever handlers of the load failed or died.
THEOREM AnnouncedLoadsArrive == Spec => []AnnouncedRowsAreThere
BY AnnouncedAreThere, LoadsKeep, KeptAlways, PTL

\* Deliveries of a load message that come twice, at once or after one that died may load a job
\* again, but never a part of it: every parsed row is in parsed_records as often as every other.
THEOREM RowsAreLoadedAlike == Spec => []WholeLoads
BY LoadedAlike, LoadsKeep, KeptAlways, PTL
=============================================================================
