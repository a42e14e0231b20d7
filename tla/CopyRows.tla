------------------------------ MODULE CopyRows ------------------------------
(***************************************************************************)
(* Rows of a COPY block of a PostgreSQL dump: the mapping of its columns,  *)
(* made once per block, and the rows read by it.                           *)
(***************************************************************************)
EXTENDS DelimitedRows

CONSTANT
  NullMarks      \* atoms that stand for a missing value: \N, NULL, N/A, dashes

CopyFields == {"user_name", "full_name", "user_email", "msisdn"}
-----------------------------------------------------------------------------
(***************************************************************************)
(* resolvePgCopyMapping: mapping[i] is the field of column i, or Meta.     *)
(* Columns named like a field come first, aliases after all of them; no    *)
(* field takes two columns.                                                *)
(***************************************************************************)
Assign(spec, mapping, i, fitting) ==
  LET f == FirstWhere(spec, LAMBDA g : g \notin ToSet(mapping) /\ g \in fitting)
  IN  IF mapping[i] # Meta \/ f = <<>> THEN mapping ELSE [mapping EXCEPT ![i] = f[1]]

\* fits[i]: the fields that may take column i.
AssignAll(spec, mapping, fits) ==
  FoldLeft(LAMBDA m, i : Assign(spec, m, i, fits[i]), mapping, [i \in DOMAIN mapping |-> i])

SameName(column, f) == Norm(column) = Word[f]

Unassigned(columns) == [i \in DOMAIN columns |-> Meta]
ByAlias(spec, columns) == [i \in DOMAIN columns |-> {f \in ToSet(spec) : KeyMatches(columns[i], f)}]
ByNameAlone(spec, columns) == [i \in DOMAIN columns |-> {f \in ToSet(spec) : SameName(columns[i], f)}]

AliasesOnly(spec, columns) == AssignAll(spec, Unassigned(columns), ByAlias(spec, columns))

CopyMapping(spec, columns) ==
  AssignAll(spec, AssignAll(spec, Unassigned(columns), ByNameAlone(spec, columns)), ByAlias(spec, columns))
-----------------------------------------------------------------------------
(***************************************************************************)
(* normalizePgCopyRow: full_name stands in for user_name; a phone number   *)
(* under user_email goes to msisdn, an email under msisdn to user_email.   *)
(* Both decisions are taken on the values the row came with.               *)
(***************************************************************************)
IsEmail(text) == Len(text) = 1 /\ text[1] \in Emails
IsPhone(text) == Len(text) = 1 /\ text[1] \in Phones

NameFilled(row) ==
  IF Blank(row.user_name) /\ ~Blank(row.full_name)
  THEN [row EXCEPT !.user_name = row.full_name] ELSE row

EmailMoved(row, email, phone) ==
  IF IsEmail(email) THEN row
  ELSE IF IsPhone(email) /\ ~IsPhone(phone)
  THEN [row EXCEPT !.msisdn = email, !.user_email = <<>>]
  ELSE [row EXCEPT !.user_email = <<>>]

PhoneMoved(row, email, phone) ==
  IF IsPhone(phone) \/ Blank(phone) THEN row
  ELSE IF IsEmail(phone) /\ Blank(email)
  THEN [row EXCEPT !.user_email = phone, !.msisdn = <<>>]
  ELSE [row EXCEPT !.msisdn = <<>>]

Placed(row) ==
  LET named == NameFilled(row)
  IN  IF Blank(row.user_email) /\ Blank(row.msisdn) THEN named
      ELSE PhoneMoved(EmailMoved(named, row.user_email, row.msisdn), row.user_email, row.msisdn)
-----------------------------------------------------------------------------
CleanValue(text) == IF Len(text) = 1 /\ text[1] \in NullMarks THEN <<>> ELSE text

\* parsePgCopyData: every column ends in its field or in meta.
CopyValues(columns, line) ==
  LET parts == Split(line, {"\t"})
  IN  [i \in DOMAIN columns |-> CleanValue(Cell(parts, i))]

MappedRow(spec, mapping, values) ==
  [ f \in ToSet(spec) \cup CopyFields |->
      FlattenSeq(SelectSeq([i \in DOMAIN mapping |-> IF mapping[i] = f THEN values[i] ELSE <<>>],
                           LAMBDA v : v # <<>>)) ]

CopyMeta(columns, mapping, values) ==
  LET rest == SelectSeq([i \in DOMAIN columns |-> i], LAMBDA i : mapping[i] = Meta)
  IN  [k \in DOMAIN rest |-> Entry(columns[rest[k]], values[rest[k]])]

CopyRecord(spec, columns, mapping, line) ==
  LET values == CopyValues(columns, line)
  IN  [row |-> Placed(MappedRow(spec, mapping, values)), meta |-> CopyMeta(columns, mapping, values)]
=============================================================================
