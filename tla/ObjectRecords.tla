--------------------------- MODULE ObjectRecords ---------------------------
(***************************************************************************)
(* Records from objects: JSON lines and "key: value - key: value" lines.   *)
(* An object is a sequence of entries [path, value]; a path is the         *)
(* sequence of the keys (and array indexes) that lead to the value.        *)
(*                                                                         *)
(* Which key of the object feeds which field is decided field by field, in *)
(* the order of the job's field_spec, and a key that fed one field is      *)
(* "used": what is left in the end goes to meta.                           *)
(***************************************************************************)
EXTENDS FieldKeys

CONSTANTS
  TextBlobs,     \* the blobs that are JSON text inside a string
  Indexes,       \* Indexes[i]: the atom of array index i
  MaxDepth,      \* bound: nesting of the objects
  OneLetter,     \* aliases too short to be looked for inside longer keys
  SkillLike,     \* normalized names of the SKILL_LIKE list
  Alike          \* pairs of normalized names with most of a prefix in common

ASSUME ObjectsAssumption == TextBlobs \subseteq DOMAIN Blobs /\ MaxDepth \in Nat

Entry(path, value) == [path |-> path, value |-> value]

IsText(value) == ~IsList(value) /\ (IsBlob(value) => value[1] \in TextBlobs)

AllBlobs(list) == list # <<>> /\ \A i \in DOMAIN list : IsBlob(list[i])

Elements(value) == Lists[value[1]]
-----------------------------------------------------------------------------
(***************************************************************************)
(* flattenObject, one level: nested objects and arrays of objects become   *)
(* entries of their own, unless the key itself is a field of the job.      *)
(***************************************************************************)
Children(path, blob) ==
  [i \in DOMAIN Blobs[blob[1]] |->
     Entry(path \o <<Blobs[blob[1]][i].key>>, Blobs[blob[1]][i].value)]

KeptWhole(spec, e) ==
  \/ IsBlob(e.value) /\ e.value[1] \in TextBlobs /\ e.path = <<"meta">>
  \/ ~(IsBlob(e.value) /\ IsText(e.value)) /\ \E f \in ToSet(spec) : Word[f] = Norm(e.path)

Opened(spec, e) ==
  IF KeptWhole(spec, e) THEN <<e>>
  ELSE IF IsBlob(e.value) /\ Blobs[e.value[1]] # <<>> THEN Children(e.path, e.value)
  ELSE IF IsList(e.value) /\ AllBlobs(Elements(e.value))
       THEN FlattenSeq([i \in DOMAIN Elements(e.value) |->
                          Children(e.path \o <<Indexes[i]>>, Elements(e.value)[i])])
  ELSE <<e>>

Flattened(spec, obj) ==
  FoldLeft(LAMBDA entries, d : FlattenSeq([i \in DOMAIN entries |-> Opened(spec, entries[i])]),
           obj, [d \in 1..MaxDepth |-> d])
-----------------------------------------------------------------------------
(***************************************************************************)
(* normalizedObjKeys and leafToFull: every key by its normalized path, and *)
(* a nested one by its last segment too; the first of two equal ones wins. *)
(***************************************************************************)
IndexOf(obj) ==
  FlattenSeq([i \in DOMAIN obj |->
    LET full == Norm(obj[i].path)
        named(n) == [norm |-> n, full |-> full, value |-> obj[i].value]
    IN  <<named(full)>> \o
        (IF Len(obj[i].path) > 1 THEN <<named(Word[Last(obj[i].path)])>> ELSE <<>>)])

At(index, n) == FirstWhere(index, LAMBDA e : e.norm = n)

\* The key n and, when n is the last segment of one, the whole key.
BothKeys(index, n) == {n} \cup {e.full : e \in ToSet(At(index, n))}

Unused(index, used, n) == At(index, n) # <<>> /\ BothKeys(index, n) \cap used = {}

\* By the field's own name, else by one of its aliases.
ValueAt(index, names) ==
  [k \in DOMAIN names |-> [norm |-> names[k], value |-> At(index, names[k])[1].value]]

UsedIgnored(index, used, f) ==
  ValueAt(index, FirstWhere(AliasesOf(f), LAMBDA a : At(index, a) # <<>>))

ByName(index, used, f) ==
  ValueAt(index, FirstWhere(AliasesOf(f), LAMBDA a : Unused(index, used, a)))

\* locateNestedFieldValue: a key one of whose segments is the field, or that
\* starts with it or contains it; text before objects, valid before invalid, and
\* no guess when two are equally good.
NoSubstring == {<<"name">>, <<"address">>, <<"location">>}

LooksLike(path, f) ==
  LET names == ToSet(AliasesOf(f))
      long  == names \ OneLetter
  IN  \/ \E i \in DOMAIN path : Word[path[i]] \in names
      \/ \E a \in long : StartsWith(Norm(path), a)
      \/ Word[f] \notin NoSubstring /\ \E a \in long : Includes(Norm(path), a)

BestOf(hits, f) ==
  LET score(e) == (IF IsText(e.value) THEN 2 ELSE 0) + (IF Validates(f, e.value) THEN 1 ELSE 0)
  IN  {e \in hits : \A o \in hits : score(o) <= score(e)}

TheOnly(best) ==
  IF Cardinality(best) # 1 THEN <<>>
  ELSE LET e == CHOOSE e \in best : TRUE IN <<[norm |-> Norm(e.path), value |-> e.value]>>

ByLocation(obj, used, f) ==
  TheOnly(BestOf({ e \in ToSet(obj) :
                     ~Blank(e.value) /\ Norm(e.path) \notin used /\ LooksLike(e.path, f) }, f))

\* inferCompositeFromParts: first name and last name make the name, unless the
\* value found has them all already.
PartsFound(index, f) ==
  SelectSeq(Components(f), LAMBDA c :
    LET e == At(index, c) IN e # <<>> /\ IsText(e[1].value) /\ ~Blank(e[1].value))

PartsNeeded(index, parts, value) ==
  /\ Len(parts) >= 2
  /\ ~(/\ IsText(value) /\ ~Blank(value)
       /\ \A c \in ToSet(parts) : Includes(Norm(value), Norm(At(index, c)[1].value)))

Joined(index, parts) == FlattenSeq([i \in DOMAIN parts |-> At(index, parts[i])[1].value])

\* joinScalarArray: the elements that are not blank.
Shown(value) ==
  IF IsList(value) /\ ~AllBlobs(Elements(value)) THEN FlattenSeq(Elements(value)) ELSE value

Present(value) ==
  /\ ~Blank(value)
  /\ IsBlob(value) => Blobs[value[1]] # <<>>
  /\ IsList(value) => Elements(value) # <<>>
-----------------------------------------------------------------------------
(***************************************************************************)
(* extractFromObject.                                                      *)
(***************************************************************************)
Extraction(row, used, matched, strong) ==
  [row |-> row, used |-> used, matched |-> matched, strong |-> strong]

CountIf(test) == IF test THEN 1 ELSE 0

Validated(f, value) ==
  /\ Includes(Word[f], <<"email">>) \/ Includes(Word[f], <<"phone">>)
  /\ Validates(f, value)

Added(s, f, found, value, keys) ==
  Extraction([s.row EXCEPT ![f] = value], s.used \cup keys,
             s.matched + CountIf(found), s.strong + CountIf(Validated(f, value)))

Filled(s, f, value, keys) ==
  Added(s, f, Present(value), IF Present(value) THEN Shown(value) ELSE <<>>, keys)

\* The parts of a composite field replace what was found under its own name.
FilledOrJoined(index, s, f, text, parts, keys) ==
  IF PartsNeeded(index, parts, text) THEN Filled(s, f, Joined(index, parts), ToSet(parts))
  ELSE Filled(s, f, text, keys)

Took(index, s, f, found) ==
  IF found = <<>> THEN FilledOrJoined(index, s, f, <<>>, PartsFound(index, f), {})
  ELSE FilledOrJoined(index, s, f, found[1].value, PartsFound(index, f), BothKeys(index, found[1].norm))

TakeField(obj, index, s, f) ==
  Took(index, s, f, Else(ByName(index, s.used, f), ByLocation(obj, s.used, f)))

\* A field still empty is filled from the JSON text under "meta".
MetaPairs(obj) ==
  LET e == FirstWhere(obj, LAMBDA o : o.path = <<"meta">>)
  IN  IF e # <<>> /\ IsBlob(e[1].value) THEN Blobs[e[1].value[1]] ELSE <<>>

FillFromMeta(obj, s, f) ==
  LET hits == SelectSeq(MetaPairs(obj), LAMBDA p : Word[p.key] = Word[f])
  IN  IF ~Blank(s.row[f]) \/ hits = <<>> THEN s
      ELSE Added(s, f, ~Blank(Last(hits).value), Last(hits).value, {Word[f]})

\* findBestEmptyFieldForUnconsumedArray.
ArrayScore(n, f) ==
  IF n = Word[f] THEN 100
  ELSE IF {n, Word[f]} \subseteq SkillLike THEN 90
  ELSE IF Includes(n, Word[f]) \/ Includes(Word[f], n) THEN 60
  ELSE IF <<n, Word[f]>> \in Alike THEN 40
  ELSE 0

BestScore(empty, n) ==
  FirstWhere(empty, LAMBDA f :
    ArrayScore(n, f) >= 30 /\ \A g \in ToSet(empty) : ArrayScore(n, g) <= ArrayScore(n, f))

BestOfEmpty(empty, path) ==
  IF Norm(path) = <<>> THEN <<>>
  ELSE Else(FirstWhere(empty, LAMBDA f : KeyMatches(path, f)), BestScore(empty, Norm(path)))

BestEmptyField(spec, row, path) == BestOfEmpty(SelectSeq(spec, LAMBDA f : Blank(row[f])), path)

PlaceArray(spec, s, e) ==
  LET field == BestEmptyField(spec, s.row, e.path)
  IN  IF \/ ~IsList(e.value) \/ Norm(e.path) \in s.used
         \/ FlattenSeq(Elements(e.value)) = <<>> \/ field = <<>>
      THEN s
      ELSE [s EXCEPT !.row[field[1]] = FlattenSeq(Elements(e.value)),
                     !.used = @ \cup {Norm(e.path)}]

\* How many fields must be found when none is a valid email or phone: three
\* quarters of them, or of the object's keys when it has fewer.
Threshold(spec, index) ==
  LET keys == Cardinality({index[i].norm : i \in DOMAIN index})
  IN  Max({1, (3 * Min({Len(spec), keys}) + 3) \div 4})

Extracted(spec, index, s, rest) ==
  LET loose(f) == { i \in DOMAIN rest :
                      /\ Includes(Norm(rest[i].path), Word[f])
                      /\ ~(Len(rest[i].path) > 1 /\ rest[i].path[1] = f) }
  IN  [ row       |-> s.row,
        meta      |-> rest,
        enough    |-> s.strong >= 1 \/ s.matched >= Threshold(spec, index),
        ambiguous |-> \E f \in ToSet(spec) : Blank(s.row[f]) /\ Cardinality(loose(f)) > 1 ]

Remainder(spec, obj, index, s) ==
  Extracted(spec, index, s, SelectSeq(obj, LAMBDA e : Norm(e.path) \notin s.used))

ExtractFlat(spec, obj, index) ==
  LET none   == Extraction([f \in ToSet(spec) |-> <<>>], {}, 0, 0)
      taken  == FoldLeft(LAMBDA s, f : TakeField(obj, index, s, f), none, spec)
      filled == FoldLeft(LAMBDA s, f : FillFromMeta(obj, s, f), taken, spec)
  IN  Remainder(spec, obj, index, FoldLeft(LAMBDA s, e : PlaceArray(spec, s, e), filled, obj))

Extract(spec, raw) ==
  LET obj == Flattened(spec, raw) IN ExtractFlat(spec, obj, IndexOf(obj))
-----------------------------------------------------------------------------
(***************************************************************************)
(* The recognizers.  A record is [row, meta], or <<>> is returned.         *)
(***************************************************************************)
Record(row, meta) == <<[row |-> row, meta |-> meta]>>

\* tryParseJsonObject: the object, or the first object of an array.
JsonObject(line) ==
  IF IsBlob(line) THEN <<Children(<<>>, line)>>
  ELSE IF ~IsList(line) THEN <<>>
  ELSE LET first == FirstWhere(Elements(line), IsBlob)
       IN  IF first = <<>> THEN <<>> ELSE <<Children(<<>>, first[1])>>

RecordIf(test, x) == IF test THEN Record(x.row, x.meta) ELSE <<>>

Sure(x) == RecordIf(x.enough /\ ~x.ambiguous, x)
Unambiguous(x) == RecordIf(~x.ambiguous, x)

JsonRecord(spec, line) ==
  IF JsonObject(line) = <<>> THEN <<>> ELSE Sure(Extract(spec, JsonObject(line)[1]))

\* classifyUnmappedJson: no threshold.
LooseJsonRecord(spec, line) ==
  IF JsonObject(line) = <<>> THEN <<>> ELSE Unambiguous(Extract(spec, JsonObject(line)[1]))

\* parseKvRecord: segments "key: value" between " - "; others are skipped.
KvPairs(line) ==
  LET segs == SelectSeq(Split(line, {" - "}), LAMBDA s :
                Len(s) >= 2 /\ s[1] \in Labels /\ s[2] = ":")
  IN  [i \in DOMAIN segs |-> Entry(<<segs[i][1]>>, SubSeq(segs[i], 3, Len(segs[i])))]

LabelWords == {"email", "mail", "name", "phone", "mobile", "tel"}

LabelledPairs(obj) ==
  Len(obj) >= 2 /\ \E i \in DOMAIN obj : ToSet(Norm(obj[i].path)) \cap LabelWords # {}

KvObject(obj, x) == RecordIf(x.enough \/ LabelledPairs(obj), x)

KvRecord(spec, line) ==
  LET obj == KvPairs(line)
  IN  IF obj = <<>> THEN <<>> ELSE KvObject(obj, Extract(spec, obj))
=============================================================================
